----------------------------- MODULE Enrollment -----------------------------
(***************************************************************************)
(* The enrolments of one student and the invoices of the student that      *)
(* enrolling raises.  Staff enrol the student in one class, in many, or    *)
(* replace all classes by others; each new enrolment then adds the fee of  *)
(* the class to the invoice of the month, or makes that invoice.  The      *)
(* handlers yield to each other at every database round trip and none      *)
(* opens a database transaction.  The unique (student, class) key is what  *)
(* the tables are protected by; the rows of enrolments are never deleted.  *)
(***************************************************************************)
EXTENDS Integers

CONSTANTS
    Classes,
    Statuses,     \* statuses staff give to an enrolment, new or not
    MaxInvoice,   \* bound: invoices ever made for the student
    Slots,        \* bound: requests being handled at the same time
    Fee,          \* of a class, in whole units; of None: any other amount
    MaxAmount,    \* what the column of an amount can hold
    None

Invoices == 1..MaxInvoice
Entries == Classes \cup {None}

\* What the requests for one enrolment may ask for; those for several are not
\* validated, and checking out writes a status that is not in the list.
EnrollmentStatus == {"active", "inactive", "completed", "dropped"}
RowStatus == EnrollmentStatus \cup {"pending_payment"}

ASSUME EnrollmentAssumption ==
    /\ MaxInvoice \in Nat
    /\ Statuses \subseteq RowStatus
    /\ None \notin Classes
    /\ MaxAmount \in Nat \ {0} /\ MaxAmount <= 99999999
    /\ Fee \in [Entries -> 1..MaxAmount]

VARIABLES
    student,   \* the student's row
    classes,   \* table class: the classes there are
    enr,       \* table student_class_enrollment, row by class
    invoice,   \* table invoice: is the row there, and of which month
    amount,    \* the amount of an invoice
    charge,    \* history: how often the amount was given the fee of a class
    request,       \* the handlers in progress
    billed,    \* history: classes whose fee was written to an invoice
    exposed,   \* history: of these, written under the eyes of another billing
    asked,     \* history: the row as the requests so far want it
    raced,     \* history: rows written by a request another one overlapped
    awaited    \* history: classes entered to wait for a payment

enrollmentVars == <<student, classes, enr, invoice, amount, charge, request,
                    billed, exposed, asked, raced, awaited>>

tables == <<student, classes, enr, invoice, amount, charge>>
ledger == <<amount, charge>>
history == <<billed, exposed, asked, raced, awaited>>

Rows == [status : RowStatus \cup {"none"}, granted : BOOLEAN]
NoRow == [status |-> "none", granted |-> FALSE]
NewRow(status) == [status |-> status, granted |-> FALSE]
NoCharge == [c \in Entries |-> 0]

RequestPCs ==
    {"idle", "check", "insert", "billRead", "billUpdate", "billCreate",
     "drop", "create", "parents", "leave", "leaveParents", "generate",
     "rowWrite"}

RequestOps == {"enroll", "bulk", "classBulk", "create", "update",
               "leave", "generate", "setStatus", "toggle"}

Handlers ==
    [pc : RequestPCs, op : RequestOps, class : Classes \cup {None},
     todo : SUBSET Classes, next : SUBSET Classes, want : SUBSET Classes,
     inv : Invoices \cup {0}, read : [Entries -> Nat], sum : 0..MaxAmount,
     row : Rows, clean : BOOLEAN]

IdleRequest ==
    [pc |-> "idle", op |-> "enroll", class |-> None, todo |-> {}, next |-> {},
     want |-> {}, inv |-> 0, read |-> NoCharge, sum |-> 0, row |-> NoRow,
     clean |-> TRUE]

EnrollmentTypeOK ==
    /\ student \in {"absent", "live", "removed"}
    /\ classes \in SUBSET Classes
    /\ enr \in [Classes -> Rows]
    /\ invoice \in [Invoices -> {"absent", "thisMonth", "earlier", "removed"}]
    /\ amount \in [Invoices -> 0..MaxAmount]
    /\ charge \in [Invoices -> [Entries -> Nat]]
    /\ request \in [Slots -> Handlers]
    /\ billed \in SUBSET Classes /\ exposed \in SUBSET Classes
    /\ asked \in [Classes -> Rows] /\ raced \in SUBSET Classes
    /\ awaited \in SUBSET Classes

EnrollmentInit ==
    /\ student = "absent"
    /\ classes = Classes
    /\ enr = [c \in Classes |-> NoRow]
    /\ invoice = [i \in Invoices |-> "absent"]
    /\ amount = [i \in Invoices |-> 0]
    /\ charge = [i \in Invoices |-> NoCharge]
    /\ request = [r \in Slots |-> IdleRequest]
    /\ billed = {} /\ exposed = {} /\ raced = {} /\ awaited = {}
    /\ asked = [c \in Classes |-> NoRow]

-----------------------------------------------------------------------------
Enrolled == {c \in Classes : enr[c].status # "none"}
Active == {c \in Classes : enr[c].status = "active"}

Idle(r) == request[r].pc = "idle"
At(r, pc) == request[r].pc = pc
Goto(r, h) == request' = [request EXCEPT ![r] = h]
Finish(r) == Goto(r, IdleRequest)

\* A handler that writes an enrolment disturbs every other one in progress.
GotoAfterWrite(r, h) ==
    request' = [s \in Slots |-> IF s = r THEN h
                            ELSE [request[s] EXCEPT !.clean = FALSE]]

\* Where the loops of an update, of a removal and of the rest go on.
AtNext(h) ==
    CASE h.todo # {} /\ h.op = "update" -> [h EXCEPT !.pc = "drop"]
      [] h.todo = {} /\ h.op \in {"update", "create"} ->
            [h EXCEPT !.pc = IF h.next = {} THEN "parents" ELSE "create"]
      [] h.op = "leave" ->
            [h EXCEPT !.pc = IF h.todo = {} THEN "leaveParents" ELSE "leave"]
      [] h.op \in {"bulk", "classBulk"} /\ h.todo # {} ->
            [h EXCEPT !.pc = "check"]
      [] h.op = "generate" /\ h.todo # {} -> [h EXCEPT !.pc = "generate"]
      [] OTHER -> IdleRequest

AfterBill(r) ==
    AtNext([request[r] EXCEPT !.class = None, !.inv = 0, !.read = NoCharge,
                              !.sum = 0])

Skip(r, c) == AtNext([request[r] EXCEPT !.todo = @ \ {c}, !.class = None])

-----------------------------------------------------------------------------
(***************************************************************************)
(* Enrolling.                                                              *)
(***************************************************************************)

\* The row that will be inserted has the status of the request, "active" when
\* it gives none.
StartEnroll(r, c, status) ==
    /\ Idle(r) /\ student = "live" /\ c \notin Enrolled
    /\ status \in EnrollmentStatus
    /\ Goto(r, [IdleRequest EXCEPT !.pc = "insert", !.class = c,
                                   !.row = NewRow(status)])
    /\ UNCHANGED <<tables, history>>

StartBulk(r, S, status) ==
    /\ Idle(r) /\ student = "live"
    /\ Goto(r, AtNext([IdleRequest EXCEPT !.op = "bulk", !.todo = S,
                                          !.row = NewRow(status)]))
    /\ UNCHANGED <<tables, history>>

\* From the class's page: no invoice is raised, no student looked up.
StartClassBulk(r, c, status) ==
    /\ Idle(r) /\ student # "absent" /\ c \in classes
    /\ Goto(r, AtNext([IdleRequest EXCEPT !.op = "classBulk", !.todo = {c},
                                          !.row = NewRow(status)]))
    /\ UNCHANGED <<tables, history>>

StartCreateStudent(r, S) ==
    /\ Idle(r) /\ student = "absent"
    /\ student' = "live"
    /\ Goto(r, AtNext([IdleRequest EXCEPT !.op = "create", !.next = S,
                                          !.want = S,
                                          !.row = NewRow("active")]))
    /\ UNCHANGED <<classes, enr, invoice, ledger, history>>

\* MUTANT: only what changed is dropped and enrolled.
StartUpdateOfDifference(r, S) ==
    /\ Idle(r) /\ student = "live"
    /\ Goto(r, AtNext([IdleRequest EXCEPT !.op = "update",
                       !.todo = Enrolled \ S, !.next = S \ Enrolled,
                       !.want = S, !.row = NewRow("active")]))
    /\ UNCHANGED <<tables, history>>

\* The rows there are, of whatever status, are dropped one by one.
StartUpdate(r, S) ==
    /\ Idle(r) /\ student = "live"
    /\ Goto(r, AtNext([IdleRequest EXCEPT !.op = "update", !.todo = Enrolled,
                                          !.next = S, !.want = S,
                                          !.row = NewRow("active")]))
    /\ UNCHANGED <<tables, history>>

BulkCheck(r) ==
    /\ At(r, "check")
    /\ \E c \in request[r].todo :
          IF c \in Enrolled
          THEN Goto(r, Skip(r, c))
          ELSE Goto(r, [request[r] EXCEPT !.pc = "insert", !.class = c,
                                      !.todo = @ \ {c}])
    /\ UNCHANGED <<tables, history>>

CreateNext(r) ==
    /\ At(r, "create")
    /\ \E c \in request[r].next :
          Goto(r, [request[r] EXCEPT !.pc = "insert", !.class = c,
                                 !.next = @ \ {c}])
    /\ UNCHANGED <<tables, history>>

\* MUTANT: the table has no unique key.
InsertNoUniqueKey(r) ==
    LET c == request[r].class
        row == request[r].row
    IN
    /\ At(r, "insert")
    /\ enr' = [enr EXCEPT ![c] = row]
    /\ asked' = [asked EXCEPT ![c] = row]
    /\ awaited' = IF row.status = "pending_payment" THEN awaited \cup {c}
                  ELSE awaited
    /\ GotoAfterWrite(r, [request[r] EXCEPT !.pc = "billRead"])
    /\ UNCHANGED <<student, classes, invoice, ledger, billed, exposed, raced>>

InsertRow(r) ==
    LET c == request[r].class
        row == request[r].row
    IN
    /\ At(r, "insert")
    /\ c \notin Enrolled
    /\ enr' = [enr EXCEPT ![c] = row]
    /\ asked' = [asked EXCEPT ![c] = row]
    /\ awaited' = IF row.status = "pending_payment" THEN awaited \cup {c}
                  ELSE awaited
    /\ GotoAfterWrite(r, IF request[r].op = "classBulk" THEN AfterBill(r)
                         ELSE [request[r] EXCEPT !.pc = "billRead"])
    /\ UNCHANGED <<student, classes, invoice, ledger, billed, exposed, raced>>

\* The unique key refuses a second row: an error of the request, except in
\* bulk, where the class is passed over.
RowRefused(r) ==
    /\ At(r, "insert")
    /\ request[r].class \in Enrolled
    /\ Goto(r, IF request[r].op \in {"bulk", "classBulk"} THEN AfterBill(r)
               ELSE IdleRequest)
    /\ UNCHANGED <<tables, history>>

-----------------------------------------------------------------------------
(***************************************************************************)
(* generateMonthlyInvoice: every error in it is caught there.              *)
(***************************************************************************)
ThisMonth == {i \in Invoices : invoice[i] = "thisMonth"}
IsNewest(i) == i \in ThisMonth /\ \A j \in ThisMonth : j <= i

\* The amount that was read is a number, the fee a string, as the database
\* gives decimals: + writes the digits of the one after those of the other.
Powers == {10, 100, 1000, 10000, 100000, 1000000, 10000000, 100000000}
Shift(fee) == CHOOSE n \in Powers : n > fee /\ fee * 10 >= n
Plus(sum, fee) == sum * Shift(fee) + fee

IsNext(i) == invoice[i] = "absent" /\ \A j \in 1..(i - 1) : invoice[j] # "absent"

BillRead(r) ==
    /\ At(r, "billRead")
    /\ student = "live" /\ request[r].class \in classes
    /\ \/ /\ ThisMonth = {}
          /\ Goto(r, [request[r] EXCEPT !.pc = "billCreate"])
       \/ \E i \in Invoices :
            /\ IsNewest(i)
            /\ Goto(r, [request[r] EXCEPT !.pc = "billUpdate", !.inv = i,
                                      !.read = charge[i],
                                      !.sum = amount[i]])
    /\ UNCHANGED <<tables, history>>

BillNothing(r) ==
    /\ At(r, "billRead")
    /\ student # "live" \/ request[r].class \notin classes
    /\ Goto(r, AfterBill(r))
    /\ UNCHANGED <<tables, history>>

\* MUTANT: the fee replaces the amount of the invoice.
BillUpdateReplacing(r) ==
    LET h == request[r] IN
    /\ At(r, "billUpdate")
    /\ invoice[h.inv] # "removed"
    /\ amount' = [amount EXCEPT ![h.inv] = Fee[h.class]]
    /\ charge' = [charge EXCEPT ![h.inv] = [NoCharge EXCEPT ![h.class] = 1]]
    /\ billed' = billed \cup {h.class}
    /\ Goto(r, AfterBill(r))
    /\ UNCHANGED <<student, classes, enr, invoice, exposed, asked, raced,
                   awaited>>

\* The amount that was read "plus" the fee is written back, whatever was
\* written in between and whatever became of the invoice but its removal.
BillUpdate(r) ==
    LET h == request[r]
        others == {s \in Slots \ {r} :
                     At(s, "billUpdate") /\ request[s].inv = h.inv}
    IN
    /\ At(r, "billUpdate")
    /\ invoice[h.inv] # "removed"
    /\ Plus(h.sum, Fee[h.class]) <= MaxAmount
    /\ amount' = [amount EXCEPT ![h.inv] = Plus(h.sum, Fee[h.class])]
    /\ charge' = [charge EXCEPT ![h.inv] = [h.read EXCEPT ![h.class] = @ + 1]]
    /\ billed' = billed \cup {h.class}
    /\ exposed' = IF others = {} THEN exposed ELSE exposed \cup {h.class}
    /\ Goto(r, AfterBill(r))
    /\ UNCHANGED <<student, classes, enr, invoice, asked, raced, awaited>>

BillCreate(r) ==
    /\ At(r, "billCreate") /\ student = "live"
    /\ \E i \in Invoices :
          /\ IsNext(i)
          /\ invoice' = [invoice EXCEPT ![i] = "thisMonth"]
          /\ amount' = [amount EXCEPT ![i] = Fee[request[r].class]]
          /\ charge' = [charge EXCEPT ![i][request[r].class] = 1]
    /\ billed' = billed \cup {request[r].class}
    /\ Goto(r, AfterBill(r))
    /\ UNCHANGED <<student, classes, enr, exposed, asked, raced, awaited>>

\* The invoice or the student is gone, the amount has too many digits for
\* its column, or a round trip fails.
BillFails(r) ==
    /\ request[r].pc \in {"billRead", "billUpdate", "billCreate"}
    /\ Goto(r, AfterBill(r))
    /\ UNCHANGED <<tables, history>>

-----------------------------------------------------------------------------
(***************************************************************************)
(* Leaving, statuses, access.                                              *)
(***************************************************************************)
DropRow(c) ==
    /\ enr' = [enr EXCEPT ![c].status = "dropped"]
    /\ asked' = [asked EXCEPT ![c].status = "dropped"]

\* A step of the loop over the old enrolments of an update or a removal.
DropNext(r) ==
    /\ At(r, "drop") \/ At(r, "leave")
    /\ \E c \in request[r].todo :
          DropRow(c) /\ GotoAfterWrite(r, Skip(r, c))
    /\ UNCHANGED <<student, classes, invoice, ledger, billed, exposed, raced,
                   awaited>>

\* The request about a student's parents that ends an update or a creation.
Answer(r) ==
    /\ At(r, "parents")
    /\ Finish(r)
    /\ UNCHANGED <<tables, history>>

RemoveEnrollment(c) ==
    /\ c \in Enrolled
    /\ DropRow(c)
    /\ request' = [s \in Slots |-> [request[s] EXCEPT !.clean = FALSE]]
    /\ UNCHANGED <<student, classes, invoice, ledger, billed, exposed, raced,
                   awaited>>

StartLeave(r) ==
    /\ Idle(r) /\ student = "live"
    /\ Goto(r, AtNext([IdleRequest EXCEPT !.op = "leave", !.todo = Enrolled]))
    /\ UNCHANGED <<tables, history>>

\* getStudents is called with the student's id for a parent's: when there is
\* no such parent the request fails here, the enrolments dropped already.
LeaveParents(r) ==
    /\ At(r, "leaveParents")
    /\ Finish(r)
    /\ student' \in {student, "removed"}
    /\ UNCHANGED <<classes, enr, invoice, ledger, history>>

\* The row is read here and saved as a whole in RowWrite.
StartSetStatus(r, c, status) ==
    /\ Idle(r) /\ c \in Enrolled /\ status \in EnrollmentStatus
    /\ Goto(r, [IdleRequest EXCEPT !.op = "setStatus", !.pc = "rowWrite",
                                   !.class = c,
                                   !.row = [enr[c] EXCEPT !.status = status]])
    /\ UNCHANGED <<tables, history>>

\* MUTANT: the row is saved with the defaults of a new one.
StartToggleOfNewRow(r, c, enabled) ==
    /\ Idle(r) /\ c \in Enrolled
    /\ Goto(r, [IdleRequest EXCEPT !.op = "toggle", !.pc = "rowWrite",
                                   !.class = c,
                                   !.row = [NewRow("active") EXCEPT
                                              !.granted = enabled]])
    /\ UNCHANGED <<tables, history>>

\* No status in what it writes: the row keeps the one it was read with.  So
\* does an update of the date only, which keeps the access, too.
StartToggle(r, c, enabled) ==
    /\ Idle(r) /\ c \in Enrolled
    /\ Goto(r, [IdleRequest EXCEPT !.op = "toggle", !.pc = "rowWrite",
                                   !.class = c,
                                   !.row = [enr[c] EXCEPT !.granted = enabled]])
    /\ UNCHANGED <<tables, history>>

RowWrite(r) ==
    LET h == request[r] IN
    /\ At(r, "rowWrite")
    /\ enr' = [enr EXCEPT ![h.class] = h.row]
    /\ asked' = IF h.op = "toggle"
                THEN [asked EXCEPT ![h.class].granted = h.row.granted]
                ELSE [asked EXCEPT ![h.class].status = h.row.status]
    /\ raced' = IF h.clean THEN raced ELSE raced \cup {h.class}
    /\ GotoAfterWrite(r, IdleRequest)
    /\ UNCHANGED <<student, classes, invoice, ledger, billed, exposed, awaited>>

-----------------------------------------------------------------------------
(***************************************************************************)
(* Invoices from elsewhere, the calendar, and failures.                    *)
(***************************************************************************)
AddInvoice ==
    /\ \E i \in Invoices :
          /\ IsNext(i)
          /\ invoice' = [invoice EXCEPT ![i] = "thisMonth"]
          /\ amount' = [amount EXCEPT ![i] = Fee[None]]
          /\ charge' = [charge EXCEPT ![i][None] = 1]
    /\ UNCHANGED <<student, classes, enr, history>>

\* Invoice generation on demand: one invoice per enrolment that was active
\* when the run read the list; what went wrong with one is only logged.
StartGenerate(r) ==
    /\ Idle(r) /\ student = "live" /\ Active # {}
    /\ Goto(r, AtNext([IdleRequest EXCEPT !.op = "generate", !.todo = Active]))
    /\ UNCHANGED <<tables, history>>

GenerateInvoice(r) ==
    /\ At(r, "generate")
    /\ student = "live"
    /\ \E c \in request[r].todo \cap classes : Goto(r, Skip(r, c))
    /\ AddInvoice

GenerateNothing(r) ==
    /\ At(r, "generate")
    /\ \E c \in request[r].todo : Goto(r, Skip(r, c))
    /\ UNCHANGED <<tables, history>>

\* Staff make an invoice that has nothing to do with enrolling.
StaffInvoice ==
    /\ student = "live"
    /\ AddInvoice
    /\ UNCHANGED request

DeleteInvoice(i) ==
    /\ invoice[i] \in {"thisMonth", "earlier"}
    /\ invoice' = [invoice EXCEPT ![i] = "removed"]
    /\ UNCHANGED <<student, classes, enr, ledger, request, history>>

NextMonth ==
    /\ ThisMonth # {}
    /\ invoice' = [i \in Invoices |-> IF i \in ThisMonth THEN "earlier"
                                      ELSE invoice[i]]
    /\ UNCHANGED <<student, classes, enr, ledger, request, history>>

RemoveClass(c) ==
    /\ c \in classes
    /\ classes' = classes \ {c}
    /\ UNCHANGED <<student, enr, invoice, ledger, request, history>>

\* A round trip fails: in bulk the next class is tried, otherwise the request
\* ends, and what it wrote stays.  So it does when the process stops.
RequestFails(r) ==
    /\ ~Idle(r)
    /\ \/ Finish(r)
       \/ /\ request[r].op = "bulk" /\ At(r, "insert")
          /\ Goto(r, AfterBill(r))
    /\ UNCHANGED <<tables, history>>

-----------------------------------------------------------------------------
StartRequest(r) ==
    \/ \E c \in Classes, status \in Statuses \cup {"active"} :
          StartEnroll(r, c, status) \/ StartClassBulk(r, c, status)
    \/ \E S \in SUBSET Classes, status \in Statuses \cup {"active"} :
          StartBulk(r, S, status)
    \/ \E S \in SUBSET Classes : StartCreateStudent(r, S) \/ StartUpdate(r, S)
    \/ StartLeave(r) \/ StartGenerate(r)
    \/ \E c \in Classes, status \in Statuses : StartSetStatus(r, c, status)
    \/ \E c \in Classes, enabled \in BOOLEAN : StartToggle(r, c, enabled)

EnrollStep(r) ==
    BulkCheck(r) \/ CreateNext(r) \/ InsertRow(r) \/ RowRefused(r)

BillStep(r) ==
    \/ BillRead(r) \/ BillNothing(r) \/ BillUpdate(r) \/ BillCreate(r)
    \/ BillFails(r)

OtherStep(r) ==
    \/ DropNext(r) \/ Answer(r) \/ LeaveParents(r) \/ RowWrite(r)
    \/ GenerateInvoice(r) \/ GenerateNothing(r) \/ RequestFails(r)

EnrollmentNext ==
    \/ \E r \in Slots :
          StartRequest(r) \/ EnrollStep(r) \/ BillStep(r) \/ OtherStep(r)
    \/ \E c \in Classes : RemoveEnrollment(c) \/ RemoveClass(c)
    \/ \E i \in Invoices : DeleteInvoice(i)
    \/ StaffInvoice \/ NextMonth

EnrollmentSpec == EnrollmentInit /\ [][EnrollmentNext]_enrollmentVars

-----------------------------------------------------------------------------
(***************************************************************************)
(* Properties.                                                             *)
(***************************************************************************)

\* However many requests enrol the student at once, fail and are repeated,
\* enrolling charges the fee of a class once, on one invoice, also when an
\* amount that was read long ago is written back.
NoDoubleCharge ==
    \A c \in Classes, i, j \in Invoices :
        /\ charge[i][c] <= 1
        /\ charge[i][c] = 1 /\ charge[j][c] = 1 => i = j

\* A fee that was written to an invoice stays on it, unless another billing
\* had read that invoice and not yet written it: only such a write loses it.
ChargedUnlessOverlapped ==
    \A c \in billed \ exposed : \E i \in Invoices : charge[i][c] = 1

\* An update (or creation) of a student that gets past its enrolments leaves
\* the student active in exactly the classes it lists, if no other request
\* wrote an enrolment meanwhile.
UpdateIsExact ==
    \A r \in Slots :
        At(r, "parents") /\ request[r].clean => Active = request[r].want

\* A row says what the requests for it asked, status and granted access,
\* although each writes back all of the row it read, unless two overlapped.
RowsAsAsked == \A c \in Classes \ raced : enr[c] = asked[c]

\* The classes whose fee a handler is about to write to an invoice.
AboutToBill ==
    {c \in Classes : \E r \in Slots :
        /\ request[r].pc \in {"billRead", "billUpdate", "billCreate"}
        /\ request[r].class = c}

Book == INSTANCE EnrollmentBook WITH
    Entries <- Classes, Statuses <- RowStatus,
    NoRow <- "none", Awaiting <- "pending_payment",
    row <- [c \in Classes |-> enr[c].status],
    owed <- AboutToBill,
    fees <- [c \in Classes |-> IF c \in billed THEN 1 ELSE 0]

\* Enrolling by staff, in one class, in many or by an update of the student,
\* keeps the book that checkout keeps: whatever requests overlap and fail, a
\* class is entered once, with the status of the request that wins, dropping
\* and re-listing it included; its fee is charged by the request that entered
\* it or never; and no status that is written late, from a row that was read
\* before, makes an enrolment wait for a payment that was not entered to.
KeepsEnrollmentBook == Book!Spec

=============================================================================
