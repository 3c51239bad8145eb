# The portal backend, in TLA+

The repository is a NestJS back end over PostgreSQL (TypeORM) for a teaching
organisation: students enrol in classes, invoices are raised, parents pay them
through payment gateways, teachers hold meetings, grade and keep the register,
and staff administer the rest. These modules describe the parts where several
actors meet over one piece of state: what they write, in which order, and what
is left when one of them fails halfway.

- [The system](#the-system)
- [The modules](#the-modules)
- [The runs](#the-runs)
- [What is proved](#what-is-proved)
- [What the code does that its comments do not say](#findings)
- [Not modelled, and simplifications](#not-modelled-and-simplifications)
- [Plan](#plan)

## The system

| part | state it keeps | operations | what is hard | module |
|---|---|---|---|---|
| payments (`src/src/payments`) | table `payment_transaction`; the gateway's sessions | open a session, webhooks of four gateways, cleanup of stale rows, bank transfers | webhooks lost, repeated and reordered; handlers of many round trips without a transaction; retried session requests | `Payments` |
| invoice payment (`invoices/invoice-payment.service.ts`) | - | session for an invoice, success, failure, refund | an invoice is read and written in separate round trips | `Payments` |
| invoices | table `invoice` | create, update, mark paid, approve, remove, number | staff and webhooks on one row; numbers generated outside the insert | `Payments`, `InvoiceNumber` |
| cart and checkout | tables `cart`, `cart_item` | get, add, remove, clear; turn a cart into enrolments and invoices | get-or-create without a key; a loop of writes that may end anywhere; double clicks | `Checkout` |
| enrolments, monthly invoices, generation on demand (`students`, `classes`, `access-control`, `invoice-generation`) | tables `student_class_enrollment`, `invoice` | enrol one, many, or by update; status; access; leave; bill | rows kept for ever under a unique key; an amount read, added to and written back | `Enrollment` |
| fee reminders, SMS, WhatsApp, mail | tables `fee_reminder_log`, `sms_log` | daily and weekly runs, requests for one invoice | a failure of any round trip decides what else is attempted; lists read at the start | `Reminders` |
| auth and sessions | tables `user`, `session` | login, refresh, logout, reset, change of password, confirmation of addresses | a rotating hash; rows read whole and saved whole | `Sessions` |
| Zoom | tables `zoom_credentials`, `zoom_meetings`; Zoom's tokens and meetings | connect, disconnect, refresh, make and join meetings | a refresh token is good once; a meeting exists at Zoom before its row | `Zoom` |
| users, students, parents | tables `user`, `student` | make, register, purchase, find on demand, link, remove | three unique keys that count removed rows; look-up, then creation | `Profiles` |
| submissions, performance, attendance | one table each | hand in, grade, record, work through a list | no unique key; a grading writes two tables | `Coursework` |
| files, and the settings' file driver | table `file`, two stores, the process' configuration | upload, delete, save the settings | configuration loaded lazily by whoever needs it; object and row in separate steps | `Files` |
| currency | table `currency_rate` | the day's rates | everyone fetches at once; the provider's day is not ours | `Rates` |
| fees, notifications, audit logs, learning modules, dashboard, subjects and terms, announcements, feature modules, cache | one table each | single reads and writes | - | - |

The parts interact through the tables and through direct calls in one Node.js
process. Every `await` is a point where any other request may run. No handler
opens a database transaction (the invoice number generator is the exception),
so what a handler read may be old when it writes, and an error or a restart
leaves what was written before it. A second pattern is everywhere: TypeORM's
`save` writes back the whole row that an earlier `findOne` returned, the mark of
removal included.

```
 shopper --> cart --> checkout --> enrolments (pending_payment)
                          |------> invoices (draft)        reminders --> parents
 customer --> payment session --> gateway --> webhook --> transaction, invoice,
                                                          enrolment
 staff ----> invoices (mark paid, approve, update, refund, remove), enrolments,
             students, settings ........> storage driver of every upload
 teacher --> Zoom, submissions, performance, register
```

What should hold of each part:

- payments: an invoice is only paid by a payment made for it that was really
  taken; an answered webhook has had its effect; money that was taken reaches
  its invoice; only what was taken is refunded.
- cart and checkout: one enrolment and one invoice per student and class
  whatever is clicked twice; an enrolment that waits for a payment can be paid;
  an answered checkout has enrolled the student in all of the cart.
- enrolments: enrolling charges a fee once, on one invoice, and the fee stays
  there unless two billings overlap; an update that gets through undisturbed
  leaves exactly the classes it lists; rows are as the requests asked, unless
  two overlap on one.
- reminders: what is reported as sent was sent, of what was owed, and a run gets
  to the end of its list whatever fails.
- sessions: who refreshes one at a time can go on; ended sessions stay ended,
  but for a refresh that was saving when they were; the account is what the
  requests wanted.
- Zoom: the stored token is the one Zoom takes; who disconnected stays so; one
  request makes one meeting, and it is recorded.
- profiles: a number is refused only when another student came first; an account
  has one profile; removed stays removed.
- coursework: one record each; the two tables show the last grade; the register
  is what was taken.
- files: a row has its object, in the store the settings name.
- currency: amounts are never converted with older rates than are known.

## The modules

In all modules a step is one round trip (database, gateway, provider, store)
with the synchronous code after it. A handler is a record in a slot: its
position (`pc`), and what it has read and still uses. History variables, named
as such where they are declared, remember what requests asked for and which
writes overlapped; no action's guard reads them. Where the code loses an update
because two requests overlap on one row, the properties say *only then*: the
interleavings that no overlap explains are the ones a maintainer would not
expect.

### Payments and InvoiceLedger

State: `inv`, `txns`, `enr` are the tables as far as the properties look at
them; `req` the requests in progress; `sess`, `captured`, `hooks`, `acked` the
gateway; `settled` a history variable.

| code | actions |
|---|---|
| `InvoicePaymentService.createPaymentSession` | `StartInvoiceSession`, `CreateTransaction`, `CallGateway`, `StoreTracker` |
| `PaymentTransactionsController.createPaymentSession` | `StartSession`, then `ReuseSession`, or the three steps above |
| `process...Webhook` | `ReceiveWebhook`/`WebhookNotFound`, `UpdateTransactionStatus`, `HandleSuccessfulPayment`, then `ProcessInvoicePayment` and `WritePaidInvoice` (the code processes a success twice; an invoice removed between the second one's reads is passed over in silence), `ReadInvoiceOfFailure`, `WriteInvoiceOfFailure` |
| `refundInvoicePayment` | `StartRefund`, `CreateRefund`, `WriteInvoiceOfRefund` |
| `cleanupExpiredPendingTransactions` | `StartCleanup`, `CancelExpired` per row |
| bank transfers, staff | one action each |
| errors, restarts | `RequestFails`, `WebhookDatabaseError` (answered with 2xx), `Crash` |

The gateway is external and modelled by its use: a session belongs to the
transaction it was opened for, a customer pays at most once and only in a session
whose URL was returned (`handed`), and every webhook stays in `hooks` for ever, so
that it can arrive late, again or out of order. `HookCarries` says which id the
webhook carries: the session's own (Safepay, PayFast, AbhiPay) or the one of our
transaction (Stripe, `metadata.transaction_id`). `acked` keeps, with each webhook that
was answered with 2xx, the `success` of the answer's body.

`InvoiceLedger` is the abstract specification: bills, money taken, invoices paid,
the payment each names as evidence, refunds, and no handlers. `Payments`
implements it under the mapping at its end (`Ledger`).

### Checkout

One shopper: `carts`, `items`, `enr`, `billed`, `classes` are tables, `req` the
requests, `done` the answered checkouts and `broken` the enrolments entered to wait
for a payment by a checkout that ended before the invoice, or by staff. `getCart` is
`OpenCart` and `NewCart`, or `OtherCurrency` and `SaveCurrency` when the request names
another currency; `addToCart` is
`StartAdd`, `AddCheck`, `AddInsert`; `removeFromCart` is `StartRemove`,
`RemoveRead`, `RemoveDelete`; `clearCart` is `StartClear` or `ClearGet`, then
`ClearRead`, `ClearDelete`, `ClearSave`; `createCheckout` is `StartCheckout`, then
`CheckItem`, `Enroll`, `Bill` per item, then `clearCart`. The others are staff and
payments: `StartEnroll` enrols with the status of the request; `StartRowUpdate` and
`SaveRow` are the update of an enrolment, its activation by a payment and the access
toggle, which read the row and save it later, with the status it was read with when
they are given none; `DropEnrollment` is one UPDATE; `RemoveClass` removes a class.
`SaveCurrency` saves the cart as it was read, active and with its items. `ClearSave` follows
TypeORM: `remove` takes the ids off the deleted items, so the cascade of the save
inserts them again in the cart it deactivates, and it sets the cart of any other
item of that cart to null, which the column refuses.

`EnrollmentBook` is the abstract specification that `Checkout` and `Enrollment` both
implement: a row per student and class that is entered once, in any status, and never
goes away, and a fee that entering it may leave to charge, charged once at most or
given up for good (a handler that fails, a server that restarts). Statuses are saved
from rows read earlier, so the book lets one come back that had been replaced, and an
activated enrolment wait for its payment again: the code does that. `awaited` is what
it does promise: only an enrolment that was entered to wait ever waits. It has no carts, requests,
handlers or invoices of a month. The refinement mappings read `owed` off the
handlers: a fee is owed exactly while some handler is on its way to bill it
(`AboutToBill`). That a row is entered and its fee is charged in two steps of a handler which
can fail between them is what makes `Forget` part of the book, and the code's doing.

### InvoiceNumber

`InvoicesService.create` over the numbers of one year: `issued` and `deleted` are
the table, `req` the creations, `overtaken` a history of the inserts each has seen.
`ReadNumber` is `generateInvoiceNumber`; the row lock it takes ends with its own
transaction, before the number is used, and changes no outcome, so it is left out.
`Insert` is the insert under the unique key, `TryAgain` and `GiveUp` the loop
around it, `Stop` any other error, `CustomNumber` the number without digits that
the DTO lets staff type.

### Enrollment

The enrolments of one student and the invoices that enrolling raises. `StartEnroll`
(`enrollInClass`), `StartBulk` (`bulkEnroll`), `StartClassBulk` (the class's page),
`StartCreateStudent` and `StartUpdate` begin a request; the first three enrol with the
status they are given (`NewRow`), the two in bulk without validating it, so that staff
can enter a row as `pending_payment`; `BulkCheck`, `DropNext`,
`CreateNext`, `InsertRow`/`RowRefused` are the round trips on
`student_class_enrollment`, `BillRead`, `BillUpdate`/`BillCreate`, `BillFails` those of
`generateMonthlyInvoice`, which every new row calls and whose errors are swallowed.
`StartLeave`, `LeaveParents` unenrol; `StartSetStatus`, `StartToggle` (the access, and an
update of the date alone) and `RowWrite` read a row and save all of it, with the status
it was read with when none is given; `StartGenerate`, `GenerateInvoice` are the generation on
demand. `Plus` is the addition as JavaScript does it: the fee is the string the
driver returns for a decimal, so its digits are appended to the number. `charge`
counts fees per invoice instead, and `billed`, `exposed`, `asked`, `raced`, `awaited`
are history. An update that lists a class the student has drops its row and is then
refused by the key, so it ends there: `UpdateIsExact` is about those that get through.

### Reminders

`run` holds the runs with their list, `reminder` and `smsLog` the two log tables,
`inbox` what reached the parent. `StartDaily` (the cron over `findPastDue`),
`StartWeekly`, `StartUpcoming` and `StartRequested` begin; `ReadList`, `PickBill`, `LookUp` are the
loop; `SendMail`, `CreateSmsLog`, `CallProvider`, `UpdateSmsLog` a channel, in the code's
order; `LogReminder` and `LogFailure` write the row, and `LogReminderFails` (taken for a
failure of the message), `LogFailureFails` (skips the invoice's other channels) are
the nested catches. Invoices are settled and removed, contacts change, and
`CrashRuns` stops the process.

### Sessions

One account and its sessions. `StartLogin`, `CreateSession`; `StartRefresh`,
`RefreshUser`, `RefreshRead`, `RefreshSave`, `RefreshAnswer`: `refreshToken` compares the
hash, then reads the user, then the repository reads the session again and saves
all of it; `Logout`, `StartReset`, `StartChangePassword`, `DeleteByUserId`,
`StartConfirmEmail`, `StartConfirmNewEmail`; `HashNewPassword`, `AccountRead`,
`AccountSave` are `usersService.update`, which hashes whatever differs from the stored
hash; `RemoveUser` is the removal, `CallFails` an error anywhere.

### Zoom

A teacher's `credential` rows, `grant` (the refresh token Zoom gave last and alone
takes), `meeting` rows. `StartCreateCredentials`, `StartUpdateCredentials`,
`DeleteCredentials`, `StartExchange` (the callback), `ReadRefreshToken`, `CallRefresh`,
`StoreFind`, `StoreSave`; `StartMeeting`, `ReadTokens`, `Post` (one retry after a
refresh), `RecordMeeting`; `SetMeetingStatus`; `StartJoin`, `JoinList`, `JoinFind`,
`JoinSave`. A `findOne` without an order may return any active row.

### Profiles

`owner` is table `user` by address, `profile` table `student` in the order of its
ids. Creation is `StartCreateProfile` or `StartRegisterParent` (registration and
public purchase), `GenerateStudentId`, `CheckUser`, `CheckEmail`, `CreateUser`,
`InsertProfile` or `ProfileRefused`; `StartEnsure`, `EnsureUser`, `EnsureEmail` are
`ensureStudentProfileForUser`; the update is `StartUpdateProfile` to
`UpdateSaveProfile`. Rows are only ever marked as removed; all three keys
(address, user, number) count removed rows, the look-ups do not see them.

### Coursework

Tables `submission`, `performance` (one student and assignment) and `attendance`
(one day). Handing in, updating, removing and grading of submissions;
`GradeRelations`, `RecordCheck`, `RecordInsert`/`RecordFind`, `RecordSave` bring the score
to the performance record; `StartCreateDay`, `StartUpdateDay`, `StartBulkDays`,
`DayCheck`, `DayInsert`, `DayFind`, `DaySave` take the register, item by item. `Outdates`
marks every handler that holds an older copy of what is written.

### Files

`savedDriver` is the settings' row, `fileDriver` and `configLoaded` the fields of the
one `FileStorageService`, `stored` the objects, `file` the rows. `StartUpload` goes
through `EnsureConfigLoaded`: with a configuration straight to `Place` (name and, on
the local disk, the object, which is written synchronously), without one to
`ReadSettings` and `ApplyConfig`, or `IgnoreSettings` when they cannot be read. For the
other store `Bucket` looks it up, reads the driver again and, if a save of the
settings took the configuration away meanwhile, loads it again; `PutObject`, then
`RecordFile`. `SaveSettings` and `RefreshConfig` are `updateSettings`. `DeleteFile`,
`DeleteFilesByContext` and `DeleteRows` remove the object, then the row: they do not
load the configuration, so before the first upload nothing is removed, and
`deleteFromS3` is empty, so objects in the other store stay. Names are
`Date.now()` and the file's own, so two uploads may get one path.

### Rates

`rateDays` are the days that have a row, `providerDay` the day of the provider's
latest rates. `GetRateForDate` finds the day's row, or goes on to `FetchRates`,
`SaveRates` (under the provider's day; the unique key may refuse it) and, after
any failure, `LatestRate`. The comment at `currency.service.ts:60` speaks of one
fetch a day; the code fetches for every request until the day has a row.

### The MC modules

`MCPayments`, `MCCheckout`, `MCEnrollment` and `MCSchool` give the constants that a
configuration cannot write and the symmetry sets. `MCSchool` puts nine modules in
one run: its variable `part` is chosen once and says which of them moves and on
which instance, and `MCSpec` offers each part's actions one by one. `MCCheckout` does
the same with three baskets: two classes bought together; one class with every
operation on the cart and currencies changing; one class with staff enrolling,
updating and dropping, where an enrolment is made active or to wait for a
payment, or saved with the status it was read with.

## The runs

| run | question | bounds | result |
|---|---|---|---|
| `payments_concurrent` | do concurrent sessions, webhooks and refunds, with crashes, keep invoices and money in step, and implement the ledger? | 2 invoices, 2 sessions, 2 transactions (a refund is one), 2 requests | holds |
| `payments_staff` | the ledger against every operation, staff and database errors included; is success only answered for payments that were booked? | 1 invoice, 1 session, 2 transactions, 1 request | holds |
| `payments_live` | does money that was taken reach its invoice? | 1 invoice, 2 sessions, 1 transaction, 2 requests, crashes | holds |
| `checkout` | does every mix of cart, checkout and staff requests bill once, answer only for what is enrolled, and implement the book? | 2 classes, 2 carts, 2 items, 2 requests, in three baskets | holds |
| `school` | the components around the money, each on its own instance (below) | see below | holds |
| `payments_reuse` | is a session opened on retry known? | 2 sessions | violated |
| `payments_stripe` | is a Stripe payment matched? | 1 session | violated |
| `payments_activation` | does a payment activate the enrolment? | 1 session | violated |
| `checkout_unbilled` | can the retry of a failed checkout leave an enrolment unbilled? | 1 class | violated |
| `invoice_number_custom` | do the retries end without a race? | 2 creations, the 5 tries of the code | violated |
| `enrollment_amount` | is an amount the sum of the fees on it? | 1 class, 2 invoices | violated |
| `purchase` | does a public purchase get past the parent's account? | 1 address | violated |

The parts of `school`, each with what moves in it:

| part | instance | properties |
|---|---|---|
| invoice numbers | 3 creations, 4 numbers, 2 tries, one number a caller may bring, removals | `GivesUpOnlyWhenOvertaken`, `NoGaps` |
| billing, updates | 2 classes, 2 requests, 2 invoices; enrolling (as inactive) and billing, or replacing and dropping rows | `NoDoubleCharge`, `ChargedUnlessOverlapped`, `UpdateIsExact`, `KeepsEnrollmentBook` |
| requests, generation | 1 class; statuses and access, leaving, bulk enrolment in any status (pending_payment included), invoices on demand, removal of the class | `RowsAsAsked`, `NoDoubleCharge`, `KeepsEnrollmentBook` |
| reminder list, channels, overlap | 2 invoices by e-mail; 1 invoice on every channel; 2 runs at once | `ReportedReminderWasSent`, `RemindedWasOwed`, `EndedRunIsComplete` |
| sessions, account | 2 sessions, 3 hashes, 3 passwords, 2 requests | `HeldHashIsCurrent`, `EndedSessionStaysEnded`, `AccountAsWanted` |
| zoom connection, zoom meetings | 2 credentials, 2 tokens, 2 requests; 1 meeting, 1 participant | `StoredTokenIsCurrent`, `DisconnectedStaysSo`, `EveryMeetingIsRecorded`, `MeetingAsAsked` |
| profiles, registrations | 1 address, 2 students, 2 requests; updates and removals, or parents, purchases, errors and removals of accounts | `RefusedOnlyBehindAnother`, `OneProfilePerAccount`, `RemovedProfileStaysRemoved` |
| grading, records, register | scores to 2, 2 rows per table, 2 places, 2 marks, 2 requests | `OneRecordEach`, `GradesAgree`, `RegisterAsTaken` |
| files, storage | 2 files, 2 requests; with deletions, or with saves of the settings | `RecordedFileIsStored`, `StoredAsConfigured` |
| rates | 3 days, 2 requests | `RatesNeverGoBack` |

Each part leaves out of a module's actions what would only multiply states in it,
and another part of the same module has it: every action of every module is taken
in some part. `SchoolTypeOK` is the type invariant of the part that moves.

The bounds. Two requests at a time meet in every pair of steps; handlers share
nothing but the tables, so a third adds another writer to a row that already has
one, which the history variables count as an overlap all the same. Two rows per
table give a wrong row to write to, a duplicate, a predecessor. Two invoices and
two sessions are needed for a payment to reach the wrong invoice (the mutant that
drops the id from the lookup is found). `MaxTxn` must be 2 for a refund. `MaxCart` 2
gives the cart that is deactivated and its successor, or two active ones. Three
hashes and passwords give an old, a current and an overtaking one; three days
leave the provider behind while a midnight passes. The theorems below hold without
bounds. Symmetry is used in runs of safety properties only, over handlers, session
ids and the invoices of one student, which no definition tells apart. Deadlock is
not checked because a bounded table that is full stops the system.

Each passing property comes with a mutated definition (named `MUTANT` where it is
defined) under which TLC finds it violated: a lookup without the id, an event
answered before it is handled, the unique key left out, an amount replaced instead
of added to, a loop left early, a hash answered that was not stored, a retry of a
meeting that was made, a profile looked for by user only, a configuration that
counts as loaded while it is being loaded, any row of rates instead of the newest.

### Fairness

`FairSpec` of `Payments` assumes that a handler that was started goes on (weak
fairness of `HandlerStep`: Node.js runs the callback of every completed await, and a
step that fails is a step), that the gateway resends an event until it is answered
(strong fairness of `Redeliver`: gateways retry, and a slot is free time and again
because handlers end), and that the server stops crashing some day. Nothing is
assumed of customers, staff or the cleanup. The run leaves database errors out:
the code answers those with 2xx, and such a payment is lost (hazard at
`webhook.service.ts:251`; what `SuccessMeansSettled` says is that the answer calls it
a success only if, on top of it, the invoice was removed while the payment was booked
for the second time). No other module has a liveness property: elsewhere a
request that fails is not retried by anyone, so nothing has to happen in the end.

## What is proved

The theorems hold for every value of the constants. An invariant is rarely
inductive by itself; what each proof adds is what a handler *knows* between its
steps, and why the steps of others leave it true.

- `CheckoutProofs`: `TypeCorrect`, `AtMostOneInvoice`, `AwaitedIsBilled`,
  `AnsweredIsEnrolled`, `NeverTwoBillers`. `Inv` adds what each handler knows at each
  of its steps (`Knows`), that a checkout has left an enrolment in every class it has
  gone past (`Passed`), and that a handler about to raise an invoice holds an
  enrolment for which none was raised (`Billing`), alone (`OneBiller`). Most steps
  change one handler and nothing `Inv` says about the others: `QuietStep`; the rest
  is in `EnrollInv`, where the unique key makes the handler the only one to bill,
  and `BillInv`. `ShopKeepsBook`: every behaviour of `Checkout` is one of
  `EnrollmentBook`. `owed` is read off the handlers, so the steps to look at are
  those that change who bills what: the enrolment is an `Order`, the invoice a `Charge`,
  a handler that ends between them a `Forget`, and because of `OneBiller` no other
  handler bills what one has just charged or given up. A save of a row that was read
  earlier is a `Change`: what the handler carries waits for a payment only if the
  enrolment was entered so, whatever was written since. `BookChargesOnce` says of the
  book alone that it never charges twice, nor a fee it has given up.
- `PaymentsProofs`, all operations, crashes and database errors included:
  `TypeCorrect`, `PaymentBacked`, `RefundBacked`, and `LedgerImplemented`: every
  behaviour of `Payments` is one of `InvoiceLedger`. `TableInv` follows the chain of
  evidence: a success in `hooks` was captured, a session with a webhook was handed
  out and so opened for a transaction, a transaction names a session only if that
  was opened for it. `HandlerInv` and `OneWriter` say what handlers carry and that
  only one stores a session's id. `Evolves` says what a step may do to the tables so
  that what a handler carries stays true; every action is shown to evolve them. For
  the ledger each action is mapped to `Bill`, `Take`, `Settle`, `SettleByHand`,
  `Reopen`, `Refund` or a stutter. `AnsweredSettled` has a hypothesis, `Dependable`:
  the webhooks carry the id the server stores (Stripe's do not: run
  `payments_stripe`), and no database error is answered with 2xx (the hazard at
  `webhook.service.ts:251`). Without either the code loses payments, so the theorem
  says that nothing else does: crashes, retries, reordering, staff and cleanup are
  in. `SuccessSettled` has no hypothesis: with any gateway and any database error, an
  answer with `success: true` is one to a payment that has marked its invoice as paid,
  unless a database error lost the first of its two bookings and the invoice was
  removed between the reads of the second, which then passes over it without an error.
  Both rest on `AnswerInv`: what an answer says of its payment (`Answered`), that a
  handler works on the transaction its webhook names, and that a session's id is
  stored before its URL is handed out, so that no answer comes before it. `Kept`
  says what the steps that store no session's id leave as it was.
- `BillingProofs`, of `Enrollment`: `FeesChargedOnce`, `FeesLostByOverlapOnly`,
  `UpdatesExact`, `RowsFollowRequests`, `EnrollmentTypes`. Each says what the
  interleavings outside its stated exception do: a fee is lost only to a billing that
  overlapped, an update is exact if it gets through and nobody wrote meanwhile (not
  when a listed class is refused by the key), a row is as asked unless a late save was
  overtaken. A handler that bills a
  class holds the only insertion of that class's row (`BillingInv`); what it read of
  an invoice differs from the invoice only by what was written while two were at it
  (`ReadInv`); a handler no write disturbed knows the rows (`UpdateInv`, `RowInv`).
  `EnrollingIsByTheBook`: every behaviour of `Enrollment` is one of `EnrollmentBook`.
  It needs what the loops of a request look like between two of its classes
  (`LoopInv`), and that a fee was charged at most once, and only of a class with a row
  that no handler is about to bill (`BookInv`), and that a row that waits for a
  payment, or that a handler is about to save so, was entered so (`WaitInv`).
  Of `InvoiceNumber`: `FailsOnlyWhenOvertaken`, `NumbersAreContiguous`,
  `NumberingTypes`. The invariant counts: the tries a creation has used are at most
  the inserts it has seen (one more if its caller brought the number), and one less
  when the number it holds is in the table by now (`Budget`); and a number a creation
  holds leaves no gap (`GapInv`).
- `RemindersProofs`: `ReportsAreTrue`, `OnlyWhatIsOwed`, `RunsAreComplete`,
  `RemindersTypes`. A run reminds of an invoice in one turn and writes only its own
  rows: `TurnInv` says what is behind it, `AttemptInv` where the current attempt is.
- `SessionsProofs`: `HeldHashStaysCurrent`, `EndedStaysEnded`, `AccountStaysAsWanted`,
  `SessionsTypes`. `AccountInv` and `WholeInv` say what the handlers that will write the
  account know of it, `RefreshInv` what a refresh knows of its session, `AloneInv` that
  a client alone with its session is answered the hash that is stored. `EndedStaysEnded`
  leaves out the refresh that had read its session when it was ended and saves it after
  (`outrun`): that one brings it back; the theorem says that none but it does.
- `ProfilesProofs`: `RefusedOnlyBehind`, `RemovedStaysRemoved`, `OneProfile`,
  `ProfilesTypes`. Students are numbered in the order of their rows without a gap,
  removed ones included (`NumberInv`): a number is generated without a lock, but the key refuses all that
  do not fit. `RequestInv` says the same of what a request holds. No key keeps an
  address from being in two profiles; what does (`AccountsInv`) is that the user of a
  profile is a key (`KnownUsers`), that an address nobody linked by hand
  and that a profile has is an account's, and one live profile's at most
  (`AccountRows`), and that whoever is about to
  give a profile a user has made sure that no other profile has the address without
  it (`Serves`, `Clear`).
- `FilesRatesProofs`: `RecordedFilesStored`, `FilesPlaced`, `FilesTypes`,
  `RatesAreNewest`. `HandlerInv` says that the file of an upload is its own and, before
  the row is written, that the object is there; `CalmInv` that an upload nothing
  disturbed finds the driver the settings name at each step where it reads it,
  because while no save is under way every load in flight holds the settings as they
  are (`Settled`). `RateKnows`: the rates a request holds are no older than the newest
  row it began with, since the rows are never of a later day than the provider's.
- `TeachingProofs`, of `Coursework`: `OneRecord`, `GradesAgreed`, `RegisterTaken`,
  `CourseworkTypes`. No table has a key, so the invariant is about what is read: what
  a handler nobody overtook has found is still so when it writes (`HeldGrade`,
  `HeldRecord`, `HeldDay`), two live rows exist only where two handlers wrote at once
  (`OneOfEach`), and a grading on its way to the second table carries the score of
  the first. Of `Zoom`: `TokenIsCurrent`, `StaysDisconnected`, `MeetingsAreRecorded`,
  `MeetingsAsAsked`, `ZoomTypes`. Of two handlers that carry the connection each knows
  that it is not alone (`ApartInv`), so one that is alone carries the token Zoom takes
  and the row that is the active one (`CredInv`); after a disconnection none is left
  that would bring the teacher back (`GoneInv`). That the meetings at Zoom are those
  recorded and those about to be is a count: `MadeInv` says that the meetings the
  handlers hold are different ones, none of them recorded, and the proof counts both
  sets with the library's theorems on finite sets.

The assumptions are those named in the modules (`ConstantsAssumption`,
`FilesAssumption` and so on): the values that stand for "none" are no members of
the sets, bounds are natural numbers, fees fit the column, a register has a student
and a mark to give.

Only model-checked are `PaymentIsEventuallySettled`, because liveness under fairness
is out of the prover's reach, and `SchoolTypeOK`, the type invariant of the
composition in `MCSchool`: each of its conjuncts is a theorem about its module (for
`Rates` as a part of `RatesInvariance`), and
the composition itself only lets one module move at a time.

## Findings

Seven runs check what a comment, an answer or an error message of the repository
says, and TLC finds the code otherwise. `PROJECT.json` quotes the lines.

- `payments_reuse`: a repeated session request opens a second session at the gateway
  and does not store its id; a payment in it is not matched.
- `payments_stripe`: the lookup by gateway id throws where null is expected, so
  Stripe's events never reach the lookup by our own id.
- `payments_activation`: the updated invoice that is passed on has lost its
  description, by which the enrolment to activate is found.
- `checkout_unbilled`: a checkout that ends between enrolment and invoice leaves an
  enrolment the retry takes for done.
- `invoice_number_custom`: one invoice number without digits makes every later
  generation of the year compute the same number, and fail.
- `enrollment_amount`: the fee is added to the invoice's amount as a string: 50 and
  50.00 give 5050.
- `purchase`: the combined public purchase makes the parent's account with the
  address the student's account then needs, and fails.

## Not modelled, and simplifications

Left out of modelled parts:

- Amounts, currencies, descriptions (except whether the updated entity has one),
  notes, wording, logs and proof uploads. `isPublicForSale` is folded into the
  existence of a class. An invoice's items are detached by each update (the mapper
  gives an empty list); no property looks at items.
- Requests for payment sessions name an invoice of the student's own, or none.
- The accounts a checkout may create before its loop; `Profiles` has them.
- One read-and-write of a service (`findById` then `update` of one invoice) is one
  step in `Payments` when nothing read is used for a decision that another handler
  could falsify. Where the answer depends on whether the row is still there at the
  second read (the booking of a payment, its failure), the reads are steps of their
  own; in the first of a payment's two bookings they are not, because its result and
  its errors are both ignored and a removed invoice stays removed.
- Cleanup: no request lasts 30 minutes, so a row whose session is still being
  opened is not expired.
- `RequestFails` in `Checkout` also stands for a restart of the process.
- A checkout's enrolment is keyed by its invoice in `Payments`.
- Staff mark an invoice as paid with no reference or one to a payment outside the
  table.
- Social login, the parents' links to students and bulk imports; linking a student
  to an account by hand; the move of a record to another student or day; the change
  of a meeting's times; presigned uploads and the move of files to their owner's
  folder; the guess of a visitor's currency and its cache; who may do what.
- Files: S3, B2 and their presigned variants take the same branches and are one
  driver.

Left out as a whole, because nothing happens between two of their steps that the
patterns above do not show (a row looked for and then made, a row read and saved
whole): fees, notifications and announcements, audit logs, learning modules,
subjects and terms, annotations, feature modules. The dashboard and the statistics
only read. Controllers, entities' mappers, migrations and DTOs have no behaviour of
their own beyond what the services do with them; they are most of the repository's
lines, which is why the share of lines the definitions stand for stays small.

Hazards without a property, with the reason in `PROJECT.json`: the cleanup's limit of 100 rows,
an item added while a checkout clears its cart, a dropped enrolment that counts as
enrolled at checkout.

## Plan

Done: every module above with its runs, and proofs of every safety property a
passing run checks. What would add most from here:

1. A composition of `Checkout` and `Payments` over one invoice (both sides of it,
   the book and the ledger, have their abstract specification), with the amounts of
   refunds, and an abstract register that `Coursework` implements, with the proof
   that it does.
2. The learning modules' completions, the fees' older table, and the links between
   parents, students and teachers.
