------------------------------ MODULE Payments ------------------------------
(***************************************************************************)
(* How an invoice gets paid: payment sessions, the transactions they are   *)
(* recorded in, the gateway's webhooks, refunds, the cleanup of stale      *)
(* transactions, bank transfers and the staff operations on invoices.      *)
(*                                                                         *)
(* Every request handler is a process (a slot of "req") that yields at     *)
(* each await: one action is one database or gateway round trip together   *)
(* with the synchronous code that follows it.  Nothing in the code opens a *)
(* database transaction around a handler, so any other handler may run     *)
(* between two steps, and a process crash forgets every handler while the  *)
(* tables keep what was written.                                           *)
(***************************************************************************)
EXTENDS Naturals, FiniteSets

CONSTANTS
    Invoices,     \* invoices, each raised for one student and one class
    Students,
    Owner,        \* Owner[i]: the student invoice i is addressed to
    Trackers,     \* ids the gateway gives to its sessions
    MaxTxn,       \* bound: rows of payment_transaction
    Slots,        \* bound: requests being handled at the same time
    Batch,        \* rows one cleanup run reads (100 in the code)
    HookCarries,  \* which id a webhook carries: "tracker" or "transactionId"
    Events,       \* events the gateway sends
    Ops,          \* operations that take place in this instance
    None, External \* no value; a reference to a payment outside the table

Txns == 1..MaxTxn

InvoiceStatus == {"draft", "sent", "paid", "overdue", "cancelled"}

TxnStatus ==
    {"pending", "processing", "completed", "failed", "cancelled", "refunded"}

\* The status each gateway event is mapped to; an unknown event is 'pending'.
EventStatus ==
    [succeeded  |-> "completed", failed   |-> "failed",
     voided     |-> "cancelled", refunded |-> "refunded",
     authorized |-> "processing", other   |-> "pending"]

AllOps == {"invoiceSession", "createSession", "refund", "cleanup",
           "bankTransfer", "update", "markPaid", "approve", "remove",
           "crash", "dbError"}

ASSUME ConstantsAssumption ==
    /\ MaxTxn \in Nat /\ Batch \in Nat
    /\ Owner \in [Invoices -> Students]
    /\ HookCarries \in {"tracker", "transactionId"}
    /\ Events \subseteq DOMAIN EventStatus
    /\ Ops \subseteq AllOps
    /\ None \notin Invoices \cup Students \cup Trackers \cup Txns
    /\ External \notin Txns \cup {None}
    /\ Trackers \cap Txns = {}

VARIABLES
    inv,       \* table invoice
    txns,      \* table payment_transaction
    enr,       \* status of the enrolment an invoice was raised for
    req,       \* the handlers in progress
    sess,      \* the gateway: which transaction a session was opened for
    captured,  \* the gateway: sessions the customer's money was taken for
    hooks,     \* the gateway: webhooks sent
    acked,     \* the gateway: webhooks answered with HTTP 2xx, and the
               \* "success" of each answer
    settled    \* history: transactions that marked their invoice as paid

vars == <<inv, txns, enr, req, sess, captured, hooks, acked, settled>>
gateway == <<sess, captured, hooks, acked>>

Hooks == Trackers \X Events

\* A webhook that was answered is not sent again, whatever the answer says.
Answers == Trackers \X Events \X BOOLEAN
Acked(k, e) == \E ok \in BOOLEAN : <<k, e, ok>> \in acked

Kinds == {"absent", "online", "bank", "refund"}

PCs == {"idle",
        "updateStatus", "handleSuccess", "processSuccess", "processWrite",
        "failure", "failureWrite",
        "createTxn", "callGateway", "reuseSession", "storeTracker",
        "refundCreate", "refundWrite", "cleanup"}

WebhookPCs == {"updateStatus", "handleSuccess", "processSuccess",
               "processWrite", "failure", "failureWrite"}

IdleRequest == [pc |-> "idle", inv |-> None, student |-> None, txn |-> None,
                key |-> None, event |-> None, todo |-> {}]

NoTransaction == [kind |-> "absent", status |-> "pending", inv |-> None,
                  student |-> None, tracker |-> None, of |-> None]

InvoiceRows ==
    [live : BOOLEAN, status : InvoiceStatus, txn : Txns \cup {None, External}]

TransactionRows ==
    [kind : Kinds, status : TxnStatus, inv : Invoices \cup {None},
     student : Students \cup {None}, tracker : Trackers \cup {None},
     of : Txns \cup {None}]

Handlers ==
    [pc : PCs, inv : Invoices \cup {None}, student : Students \cup {None},
     txn : Txns \cup {None}, key : Trackers \cup {None},
     event : Events \cup {None}, todo : SUBSET Txns]

TypeOK ==
    /\ inv \in [Invoices -> InvoiceRows]
    /\ txns \in [Txns -> TransactionRows]
    /\ enr \in [Invoices -> {"pending_payment", "active"}]
    /\ req \in [Slots -> Handlers]
    /\ sess \in [Trackers -> [txn : Txns \cup {None}, handed : BOOLEAN]]
    /\ captured \in SUBSET Trackers
    /\ hooks \in SUBSET Hooks
    /\ acked \in SUBSET Answers
    /\ settled \in SUBSET Txns

\* Invoices come from checkout (draft) or have been sent by staff.
Init ==
    /\ inv \in [Invoices -> [live : {TRUE}, status : {"draft", "sent"},
                             txn : {None}]]
    /\ txns = [t \in Txns |-> NoTransaction]
    /\ enr = [i \in Invoices |-> "pending_payment"]
    /\ req = [s \in Slots |-> IdleRequest]
    /\ sess = [k \in Trackers |-> [txn |-> None, handed |-> FALSE]]
    /\ captured = {} /\ hooks = {} /\ acked = {}
    /\ settled = {}

-----------------------------------------------------------------------------
(***************************************************************************)
(* Tables.                                                                 *)
(***************************************************************************)

Recorded == {t \in Txns : txns[t].kind # "absent"}
Pending == {t \in Recorded : txns[t].status = "pending"}

\* The row the next insert creates: ids grow with createdAt.
IsNext(t) == t \notin Recorded /\ \A u \in Txns : u < t => u \in Recorded

\* MUTANT of FindByGatewayTransactionId: the id is left out of the query.
FindAnyTransaction(id) == Recorded

FindByGatewayTransactionId(id) == {t \in Recorded : txns[t].tracker = id}

\* "save" gives back the entity the payload was assigned to: a column that is
\* not in the payload is undefined in it, whatever the row holds.
SavedDescription(i, payload) == IF "description" \in payload THEN i ELSE None

\* The class is found by the name in the invoice's description; without one
\* the enrolment is left as it is.
ActivateEnrollmentsForInvoice(description) ==
    enr' = IF description = None THEN enr
           ELSE [enr EXCEPT ![description] = "active"]

-----------------------------------------------------------------------------
(***************************************************************************)
(* Requests.  "Goto" keeps what the handler has read so far.               *)
(***************************************************************************)

Idle(s) == req[s].pc = "idle"
At(s, pc) == req[s].pc = pc
Begin(s, start) == req' = [req EXCEPT ![s] = start]
Goto(s, pc) == req' = [req EXCEPT ![s].pc = pc]
Finish(s) == req' = [req EXCEPT ![s] = IdleRequest]

\* The HTTP answer to a webhook is 2xx whether it succeeded or not; the body
\* says which.
Ack(s, ok) == acked' = acked \cup {<<req[s].key, req[s].event, ok>>}

-----------------------------------------------------------------------------
(***************************************************************************)
(* Payment sessions.                                                       *)
(***************************************************************************)

\* InvoicePaymentService.createPaymentSession: refused for a paid invoice.
StartInvoiceSession(s, i) ==
    /\ "invoiceSession" \in Ops
    /\ Idle(s)
    /\ inv[i].live /\ inv[i].status # "paid"
    /\ Begin(s, [IdleRequest EXCEPT !.pc = "createTxn", !.inv = i,
                                    !.student = Owner[i]])
    /\ UNCHANGED <<inv, txns, enr, gateway, settled>>

\* findExistingPendingTransaction passes the invoice, the amount, the currency
\* and the parent, but the query only filters on status, gateway and student.
MatchesPending(student) ==
    {t \in Pending : /\ txns[t].kind = "online"
                     /\ student \in {None, txns[t].student}}

Newest(S) == {t \in S : \A u \in S : u <= t}

\* PaymentTransactionsController.createPaymentSession, by a student for an
\* invoice of theirs, or by anyone for no invoice (a parent has no student).
StartSession(s, i, student) ==
    /\ "createSession" \in Ops
    /\ Idle(s)
    /\ i # None => student = Owner[i]
    /\ \/ \E t \in Newest(MatchesPending(student)) :
             Begin(s, [IdleRequest EXCEPT !.pc = "reuseSession", !.txn = t])
       \/ /\ MatchesPending(student) = {}
          /\ student # None          \* studentId is NOT NULL
          /\ Begin(s, [IdleRequest EXCEPT !.pc = "createTxn", !.inv = i,
                                          !.student = student])
    /\ UNCHANGED <<inv, txns, enr, gateway, settled>>

CreateTransaction(s) ==
    /\ At(s, "createTxn")
    /\ \E t \in Txns :
        /\ IsNext(t)
        /\ txns' = [txns EXCEPT ![t] =
              [NoTransaction EXCEPT !.kind = "online", !.inv = req[s].inv,
                                    !.student = req[s].student]]
        /\ req' = [req EXCEPT ![s].pc = "callGateway", ![s].txn = t]
    /\ UNCHANGED <<inv, enr, gateway, settled>>

\* The gateway opens a session for the transaction.
OpenSession(t, k, handed) ==
    /\ sess[k].txn = None
    /\ sess' = [sess EXCEPT ![k] = [txn |-> t, handed |-> handed]]

CallGateway(s) ==
    /\ At(s, "callGateway")
    /\ \E k \in Trackers :
        /\ OpenSession(req[s].txn, k, FALSE)
        /\ req' = [req EXCEPT ![s].pc = "storeTracker", ![s].key = k]
    /\ UNCHANGED <<inv, txns, enr, captured, hooks, acked, settled>>

\* An existing pending transaction: a new session is opened for it and its
\* checkout URL is returned at once; the session's id is not stored.
ReuseSession(s) ==
    /\ At(s, "reuseSession")
    /\ \E k \in Trackers : OpenSession(req[s].txn, k, TRUE)
    /\ Finish(s)
    /\ UNCHANGED <<inv, txns, enr, captured, hooks, acked, settled>>

StoreTracker(s) ==
    /\ At(s, "storeTracker")
    /\ txns' = [txns EXCEPT ![req[s].txn].tracker = req[s].key]
    /\ sess' = [sess EXCEPT ![req[s].key].handed = TRUE]
    /\ Finish(s)
    /\ UNCHANGED <<inv, enr, captured, hooks, acked, settled>>

-----------------------------------------------------------------------------
(***************************************************************************)
(* The gateway, external.  A customer can only pay in a session whose URL  *)
(* was returned to them; every webhook may arrive late, twice or in any    *)
(* order.                                                                  *)
(***************************************************************************)

GatewayEvent(k, e) ==
    /\ sess[k].handed
    /\ <<k, e>> \notin hooks
    /\ (k \in captured) = (e = "refunded")
    /\ captured' = IF e = "succeeded" THEN captured \cup {k} ELSE captured
    /\ hooks' = hooks \cup {<<k, e>>}
    /\ UNCHANGED <<inv, txns, enr, req, sess, acked, settled>>

-----------------------------------------------------------------------------
(***************************************************************************)
(* Webhooks.                                                               *)
(***************************************************************************)

HookKey(k) == IF HookCarries = "tracker" THEN k ELSE sess[k].txn

\* MUTANT of ReceiveWebhook: answers first, then handles the event.
ReceiveWebhookAckFirst(s, k, e) ==
    /\ Idle(s)
    /\ <<k, e>> \in hooks
    /\ \E t \in FindByGatewayTransactionId(HookKey(k)) :
        Begin(s, [IdleRequest EXCEPT !.pc = "updateStatus", !.txn = t,
                                    !.key = k, !.event = e])
    /\ acked' = acked \cup {<<k, e, TRUE>>}
    /\ UNCHANGED <<inv, txns, enr, sess, captured, hooks, settled>>

ReceiveWebhook(s, k, e) ==
    /\ Idle(s)
    /\ <<k, e>> \in hooks
    /\ \E t \in FindByGatewayTransactionId(HookKey(k)) :
        Begin(s, [IdleRequest EXCEPT !.pc = "updateStatus", !.txn = t,
                                    !.key = k, !.event = e])
    /\ UNCHANGED <<inv, txns, enr, gateway, settled>>

\* getTransactionByGatewayTransactionId throws when there is no row, so the
\* second lookup by our own id is never reached: the handler answers
\* success: false with HTTP 2xx.
WebhookNotFound(s, k, e) ==
    /\ Idle(s)
    /\ <<k, e>> \in hooks
    /\ FindByGatewayTransactionId(HookKey(k)) = {}
    /\ acked' = acked \cup {<<k, e, FALSE>>}
    /\ UNCHANGED <<inv, txns, enr, req, sess, captured, hooks, settled>>

\* MUTANT of UpdateTransactionStatus: only a pending transaction is updated,
\* an event for any other is answered and dropped.
UpdatePendingOnly(s) ==
    LET t == req[s].txn
        e == req[s].event
    IN
    /\ At(s, "updateStatus")
    /\ txns' = IF txns[t].status = "pending"
               THEN [txns EXCEPT ![t].status = EventStatus[e]] ELSE txns
    /\ IF txns[t].status = "pending" /\ txns[t].inv # None
          /\ e \in {"succeeded", "failed"}
       THEN /\ Goto(s, IF e = "succeeded" THEN "handleSuccess" ELSE "failure")
            /\ UNCHANGED acked
       ELSE Finish(s) /\ Ack(s, TRUE)
    /\ UNCHANGED <<inv, enr, sess, captured, hooks, settled>>

\* updateTransactionStatus: whatever the status was.
UpdateTransactionStatus(s) ==
    LET t == req[s].txn
        e == req[s].event
    IN
    /\ At(s, "updateStatus")
    /\ txns' = [txns EXCEPT ![t].status = EventStatus[e]]
    /\ IF txns[t].inv # None /\ e \in {"succeeded", "failed"}
       THEN /\ Goto(s, IF e = "succeeded" THEN "handleSuccess" ELSE "failure")
            /\ UNCHANGED acked
       ELSE Finish(s) /\ Ack(s, TRUE)
    /\ UNCHANGED <<inv, enr, sess, captured, hooks, settled>>

\* processPaymentSuccess reads the invoice twice and throws when it is gone,
\* then the repository's update reads it once more, writes the columns of the
\* payload and returns it, or null when it is gone by then: no error.  An
\* invoice that is there is marked as paid whatever its status and its
\* enrolment activated.  A row removed between the last read and the write is
\* written as if it had been removed after: no other column is.
ProcessPaymentSuccess(t) ==
    LET i == txns[t].inv IN
    IF inv[i].live
    THEN /\ inv' = [inv EXCEPT ![i].status = "paid", ![i].txn = t]
         /\ settled' = settled \cup {t}
         /\ ActivateEnrollmentsForInvoice(SavedDescription(i,
                {"status", "paidDate", "paymentMethod", "transactionId"}))
    ELSE UNCHANGED <<inv, settled, enr>>

\* handleSuccessfulPayment swallows what processPaymentSuccess throws: whether
\* it throws on a removed invoice or writes to none makes no difference ...
HandleSuccessfulPayment(s) ==
    /\ At(s, "handleSuccess")
    /\ ProcessPaymentSuccess(req[s].txn)
    /\ Goto(s, "processSuccess")
    /\ UNCHANGED <<txns, gateway>>

\* ... and the webhook handler calls it a second time, outside of that catch:
\* the reads that throw on a removed invoice ...
ProcessInvoicePayment(s) ==
    /\ At(s, "processSuccess")
    /\ IF inv[txns[req[s].txn].inv].live
       THEN Goto(s, "processWrite") /\ UNCHANGED acked
       ELSE Finish(s) /\ Ack(s, FALSE)
    /\ UNCHANGED <<inv, txns, enr, sess, captured, hooks, settled>>

\* ... and the update that does not.
WritePaidInvoice(s) ==
    /\ At(s, "processWrite")
    /\ ProcessPaymentSuccess(req[s].txn)
    /\ Finish(s) /\ Ack(s, TRUE)
    /\ UNCHANGED <<txns, sess, captured, hooks>>

\* processPaymentFailure reads the invoice, throws when it was removed ...
ReadInvoiceOfFailure(s) ==
    LET i == txns[req[s].txn].inv IN
    /\ At(s, "failure")
    /\ IF inv[i].live /\ inv[i].status = "sent"
       THEN Goto(s, "failureWrite") /\ UNCHANGED acked
       ELSE Finish(s) /\ Ack(s, inv[i].live)
    /\ UNCHANGED <<inv, txns, enr, sess, captured, hooks, settled>>

\* ... and writes 'sent' in a later round trip.  Of an invoice removed
\* meanwhile the update's own first read throws, its second does not.
WriteInvoiceOfFailure(s) ==
    LET i == txns[req[s].txn].inv IN
    /\ At(s, "failureWrite")
    /\ inv' = IF inv[i].live THEN [inv EXCEPT ![i].status = "sent"] ELSE inv
    /\ Finish(s)
    /\ \E ok \in {TRUE, inv[i].live} : Ack(s, ok)
    /\ UNCHANGED <<txns, enr, sess, captured, hooks, settled>>

-----------------------------------------------------------------------------
(***************************************************************************)
(* Refunds: refundInvoicePayment checks, records a refund, then writes the *)
(* invoice.  No gateway is called and the enrolment is not touched.        *)
(***************************************************************************)

\* MUTANT of StartRefund: refunds a transaction of the invoice without asking
\* whether it paid the invoice.
StartRefundOfAny(s, i) ==
    /\ "refund" \in Ops
    /\ Idle(s)
    /\ inv[i].live
    /\ \E t \in Recorded :
        /\ txns[t].inv = i
        /\ Begin(s, [IdleRequest EXCEPT !.pc = "refundCreate", !.inv = i,
                                        !.txn = t])
    /\ UNCHANGED <<inv, txns, enr, gateway, settled>>

StartRefund(s, i) ==
    /\ "refund" \in Ops
    /\ Idle(s)
    /\ inv[i].live /\ inv[i].status = "paid" /\ inv[i].txn \in Txns
    /\ Begin(s, [IdleRequest EXCEPT !.pc = "refundCreate", !.inv = i,
                                    !.txn = inv[i].txn])
    /\ UNCHANGED <<inv, txns, enr, gateway, settled>>

\* MUTANT of CreateRefund: the invoice's id is stored as the refunded payment.
CreateRefundSwapped(s) ==
    /\ At(s, "refundCreate")
    /\ \E t \in Txns :
        /\ IsNext(t)
        /\ txns' = [txns EXCEPT ![t] =
              [NoTransaction EXCEPT !.kind = "refund", !.status = "refunded",
                                    !.inv = req[s].inv, !.of = req[s].inv,
                                    !.student = txns[req[s].txn].student]]
    /\ Goto(s, "refundWrite")
    /\ UNCHANGED <<inv, enr, gateway, settled>>

CreateRefund(s) ==
    /\ At(s, "refundCreate")
    /\ \E t \in Txns :
        /\ IsNext(t)
        /\ txns' = [txns EXCEPT ![t] =
              [NoTransaction EXCEPT !.kind = "refund", !.status = "refunded",
                                    !.inv = req[s].inv, !.of = req[s].txn,
                                    !.student = txns[req[s].txn].student]]
    /\ Goto(s, "refundWrite")
    /\ UNCHANGED <<inv, enr, gateway, settled>>

WriteInvoiceOfRefund(s) ==
    LET i == req[s].inv IN
    /\ At(s, "refundWrite")
    /\ inv' = IF inv[i].live THEN [inv EXCEPT ![i].status = "overdue"] ELSE inv
    /\ Finish(s)
    /\ UNCHANGED <<txns, enr, gateway, settled>>

-----------------------------------------------------------------------------
(***************************************************************************)
(* cleanupExpiredPendingTransactions reads the newest Batch pending rows   *)
(* and cancels, one round trip each, those of them older than 30 minutes.  *)
(***************************************************************************)

\* No request lasts 30 minutes: a row still being created is not that old.
InCreation(t) ==
    \E s \in Slots : req[s].pc \in {"callGateway", "storeTracker"} /\ req[s].txn = t

NewestPending ==
    {t \in Pending : Cardinality({u \in Pending : u > t}) < Batch}

StartCleanup(s) ==
    /\ "cleanup" \in Ops
    /\ Idle(s)
    /\ \E last \in Txns :
        LET expired == {t \in NewestPending : t <= last} IN
        /\ expired # {}
        /\ \A t \in Txns : t <= last => ~InCreation(t)
        /\ Begin(s, [IdleRequest EXCEPT !.pc = "cleanup", !.todo = expired])
    /\ UNCHANGED <<inv, txns, enr, gateway, settled>>

CancelExpired(s) ==
    /\ At(s, "cleanup")
    /\ \E t \in Newest(req[s].todo) :
        /\ txns' = [txns EXCEPT ![t].status = "cancelled"]
        /\ IF req[s].todo = {t}
           THEN Finish(s)
           ELSE req' = [req EXCEPT ![s].todo = @ \ {t}]
    /\ UNCHANGED <<inv, enr, gateway, settled>>

-----------------------------------------------------------------------------
(***************************************************************************)
(* Bank transfers and staff operations: one write each.                    *)
(***************************************************************************)

CreateBankTransferPayment(i) ==
    /\ "bankTransfer" \in Ops
    /\ \E t \in Txns :
        /\ IsNext(t)
        /\ txns' = [txns EXCEPT ![t] =
              [NoTransaction EXCEPT !.kind = "bank", !.inv = i,
                                    !.student = Owner[i]]]
    /\ UNCHANGED <<inv, enr, req, gateway, settled>>

\* Does not touch the invoice.
UpdateBankTransferStatus(t, status) ==
    /\ txns[t].kind = "bank"
    /\ txns' = [txns EXCEPT ![t].status = status]
    /\ UNCHANGED <<inv, enr, req, gateway, settled>>

\* PATCH /invoices/:id with a status: any status, from any status.
UpdateInvoice(i, status) ==
    /\ "update" \in Ops
    /\ inv[i].live
    /\ inv' = [inv EXCEPT ![i].status = status]
    /\ UNCHANGED <<txns, enr, req, gateway, settled>>

\* markAsPaid; without a transaction id the column keeps its value.
MarkAsPaid(i, ref) ==
    /\ "markPaid" \in Ops
    /\ inv[i].live
    /\ inv' = [inv EXCEPT ![i].status = "paid",
                          ![i].txn = IF ref = None THEN @ ELSE ref]
    /\ UNCHANGED <<txns, enr, req, gateway, settled>>

ApprovePayment(i) ==
    /\ "approve" \in Ops
    /\ inv[i].live
    /\ inv' = [inv EXCEPT ![i].status = "paid"]
    /\ ActivateEnrollmentsForInvoice(SavedDescription(i,
           {"status", "paidDate", "paymentMethod", "transactionId"}))
    /\ UNCHANGED <<txns, req, gateway, settled>>

RemoveInvoice(i) ==
    /\ "remove" \in Ops
    /\ inv[i].live
    /\ inv' = [inv EXCEPT ![i].live = FALSE]
    /\ UNCHANGED <<txns, enr, req, gateway, settled>>

-----------------------------------------------------------------------------
(***************************************************************************)
(* Failures.                                                               *)
(***************************************************************************)

\* A session, refund or cleanup request that fails at an await ends there
\* with an error; what it wrote before stays.
RequestFails(s) ==
    /\ req[s].pc \notin WebhookPCs \cup {"idle"}
    /\ Finish(s)
    /\ UNCHANGED <<inv, txns, enr, gateway, settled>>

\* MUTANT of WebhookDatabaseError: no second call, the error swallowed in the
\* first is answered as a success.
WebhookErrorSwallowed(s) ==
    /\ "dbError" \in Ops
    /\ req[s].pc \in WebhookPCs
    /\ Finish(s) /\ Ack(s, At(s, "handleSuccess"))
    /\ UNCHANGED <<inv, txns, enr, sess, captured, hooks, settled>>

\* A database error in a webhook handler is caught and answered with 2xx; the
\* first of the two calls of processPaymentSuccess swallows it and goes on.
WebhookDatabaseError(s) ==
    /\ "dbError" \in Ops
    /\ req[s].pc \in WebhookPCs
    /\ IF At(s, "handleSuccess")
       THEN Goto(s, "processSuccess") /\ UNCHANGED acked
       ELSE Finish(s) /\ Ack(s, FALSE)
    /\ UNCHANGED <<inv, txns, enr, sess, captured, hooks, settled>>

\* The process restarts: its handlers are gone, their webhooks unanswered.
Crash ==
    /\ "crash" \in Ops
    /\ \E s \in Slots : ~Idle(s)
    /\ req' = [s \in Slots |-> IdleRequest]
    /\ UNCHANGED <<inv, txns, enr, gateway, settled>>

-----------------------------------------------------------------------------
WebhookStep(s) ==
    \/ UpdateTransactionStatus(s)
    \/ HandleSuccessfulPayment(s) \/ ProcessInvoicePayment(s)
    \/ WritePaidInvoice(s)
    \/ ReadInvoiceOfFailure(s) \/ WriteInvoiceOfFailure(s)

SessionStep(s) ==
    \/ CreateTransaction(s) \/ CallGateway(s) \/ ReuseSession(s)
    \/ StoreTracker(s)

HandlerStep(s) ==
    \/ WebhookStep(s)
    \/ SessionStep(s)
    \/ CreateRefund(s) \/ WriteInvoiceOfRefund(s)
    \/ CancelExpired(s)
    \/ RequestFails(s)

Deliver(s, k, e) == ReceiveWebhook(s, k, e) \/ WebhookNotFound(s, k, e)

StartRequest(s) ==
    \/ \E i \in Invoices : StartInvoiceSession(s, i) \/ StartRefund(s, i)
    \/ \E i \in Invoices \cup {None}, st \in Students \cup {None} :
           StartSession(s, i, st)
    \/ \E k \in Trackers, e \in Events : Deliver(s, k, e)
    \/ StartCleanup(s)

Staff ==
    \E i \in Invoices :
       \/ \E status \in InvoiceStatus : UpdateInvoice(i, status)
       \/ \E ref \in {None, External} : MarkAsPaid(i, ref)
       \/ ApprovePayment(i) \/ RemoveInvoice(i)

BankTransfer ==
    \/ \E i \in Invoices : CreateBankTransferPayment(i)
    \/ \E t \in Txns, status \in {"completed", "pending"} :
           UpdateBankTransferStatus(t, status)

Next ==
    \/ \E s \in Slots :
          StartRequest(s) \/ HandlerStep(s) \/ WebhookDatabaseError(s)
    \/ \E k \in Trackers, e \in Events : GatewayEvent(k, e)
    \/ Staff
    \/ BankTransfer
    \/ Crash

Spec == Init /\ [][Next]_vars

\* A handler that was started goes on (the event loop runs every callback),
\* and the gateway resends a webhook until it is answered, so the server is
\* free to take it again and again.  The server stops crashing some day.
Redeliver(k, e) ==
    ~Acked(k, e) /\ \E s \in Slots : Deliver(s, k, e)

FairSpec ==
    /\ Spec
    /\ <>[][~Crash]_vars
    /\ \A s \in Slots : WF_vars(HandlerStep(s))
    /\ \A k \in Trackers, e \in Events : SF_vars(Redeliver(k, e))

-----------------------------------------------------------------------------
(***************************************************************************)
(* Properties.                                                             *)
(***************************************************************************)

\* The gateway took the customer's money for transaction t.
MoneyTaken(t) == txns[t].tracker \in captured

\* An invoice never names a transaction as its payment unless that is a
\* gateway transaction created for this very invoice, whose session the
\* customer paid in: whatever webhooks arrive late, twice or out of order,
\* whatever transaction a session request reused, whatever crashed between.
PaymentIsBacked ==
    \A i \in Invoices : inv[i].txn \in Txns =>
        /\ txns[inv[i].txn].kind = "online"
        /\ txns[inv[i].txn].inv = i
        /\ MoneyTaken(inv[i].txn)

\* A refund is only recorded against a payment the gateway did take, and for
\* the invoice that payment was for, although the invoice may have changed
\* between the check and the insert.
RefundIsBacked ==
    \A t \in Recorded : txns[t].kind = "refund" =>
        /\ txns[t].of \in Txns
        /\ txns[txns[t].of].inv = txns[t].inv
        /\ MoneyTaken(txns[t].of)

\* A payment webhook that was answered has marked its invoice as paid, unless
\* the invoice had been removed: an answered webhook is not sent again, so
\* what it missed is missed for good.
AnsweredPaymentIsSettled ==
    \A t \in Recorded, k \in Trackers :
        (txns[t].tracker = k /\ txns[t].inv # None
            /\ Acked(k, "succeeded"))
        => t \in settled \/ ~inv[txns[t].inv].live

\* "success: true" is only answered for a payment that has marked its invoice
\* as paid.  Webhooks that find no transaction, removed invoices and database
\* errors in any of the handler's steps are answered with 2xx all the same,
\* handleSuccessfulPayment swallows what goes wrong in it, and the second call
\* passes over an invoice removed between its reads: what tells a payment that
\* was lost from one that was booked is the answer's body.  It lies only when
\* both calls miss: a database error loses the first one's write, and the
\* invoice is removed while the second one reads it.
SuccessMeansSettled ==
    \A t \in Recorded, k \in Trackers :
        (txns[t].tracker = k /\ txns[t].inv # None
            /\ <<k, "succeeded", TRUE>> \in acked)
        => t \in settled \/ ("dbError" \in Ops /\ ~inv[txns[t].inv].live)

\* Money taken in a session the server knows ends up on its invoice, across
\* crashes of the server, unless the invoice is removed.
PaymentIsEventuallySettled ==
    \A t \in Txns, i \in Invoices :
        (MoneyTaken(t) /\ txns[t].inv = i) ~> (t \in settled \/ ~inv[i].live)

\* What "Return existing session if transaction is still pending" is for: a
\* customer who asks twice pays in a session the server knows.  The code
\* breaks it: a new session is opened, and its id is stored nowhere.
PaidSessionIsKnown ==
    \A k \in captured : FindByGatewayTransactionId(k) # {}

\* What "The payment verification process will activate enrollments" says: a
\* payment webhook that was answered has activated the enrolment its invoice
\* was raised for.  The code breaks it: the class is looked up by a
\* description the updated invoice does not carry.
AnsweredPaymentActivates ==
    \A t \in settled, k \in Trackers :
        (txns[t].tracker = k /\ Acked(k, "succeeded"))
        => enr[txns[t].inv] = "active"

-----------------------------------------------------------------------------
(***************************************************************************)
(* The ledger these tables keep.                                           *)
(***************************************************************************)

ledgerManual ==
    IF Ops \cap {"update", "markPaid", "approve"} = {} THEN {} ELSE Invoices

ledgerBill ==
    [t \in Txns |-> IF txns[t].kind = "online" THEN txns[t].inv ELSE None]

ledgerMoney == {t \in Recorded : MoneyTaken(t)}
ledgerPaid == {i \in Invoices : inv[i].status = "paid"}
ledgerEvidence == [i \in Invoices |-> inv[i].txn]
ledgerRefunds == {txns[t].of : t \in {u \in Recorded : txns[u].kind = "refund"}}

Ledger == INSTANCE InvoiceLedger WITH
    Payments <- Txns,         Manual <- ledgerManual,
    bill     <- ledgerBill,   money  <- ledgerMoney,
    paid     <- ledgerPaid,   evidence <- ledgerEvidence,
    refunds  <- ledgerRefunds

\* Every step of the handlers is a step of the ledger or leaves it as it is:
\* an invoice only becomes paid by a payment of its own whose money was taken
\* (or by staff), and only taken money is ever refunded.
ImplementsLedger == Ledger!Spec

=============================================================================
