--------------------------- MODULE BillingProofs ----------------------------
(***************************************************************************)
(* What Enrollment guarantees for any number of classes, invoices and      *)
(* requests at once.                                                       *)
(*                                                                         *)
(* Three things tie the handlers to the tables.  A handler that bills a    *)
(* class is the only one that ever does, for it holds the only insertion   *)
(* of that class's row (BillingInv); what it read of an invoice differs    *)
(* from the invoice only by what was written while two of them were at it  *)
(* (ReadInv); and a handler no write of an enrolment disturbed knows the   *)
(* rows: the loops of an update (UpdateInv), a row about to be saved as a  *)
(* whole (RowInv).  The numbers of the invoices (InvoiceNumber) come last. *)
(***************************************************************************)
EXTENDS Enrollment, InvoiceNumber, TLAPS

BillingPCs == {"billRead", "billUpdate", "billCreate"}

\* Handler r charges the fee of class c; it has read the invoice to charge.
Bills(r, c) == request[r].pc \in BillingPCs /\ request[r].class = c
Updates(r) == request[r].pc = "billUpdate"

\* What the step that handler h is at says of its fields and of the tables.
PlaceInv(h) ==
    /\ h.pc = "insert" \/ h.pc \in BillingPCs => h.class \in Classes
    /\ h.pc = "billUpdate" => h.inv \in Invoices /\ invoice[h.inv] # "absent"
    /\ h.pc = "rowWrite" =>
          /\ h.class \in Enrolled /\ h.row.status # "none"
          /\ h.op \in {"setStatus", "toggle"}
    /\ h.pc # "idle" => student # "absent"

\* The handlers that insert rows have one to insert; updates and creations of
\* the student an active one.  How far an undisturbed one of these has come,
\* when the student is active in these classes.
UpdateInv(h, active) ==
    /\ h.row.status = "none" =>
          \/ h.pc = "idle"
          \/ h.op = "leave" /\ h.pc \in {"leave", "leaveParents"}
          \/ h.op = "generate" /\ h.pc = "generate"
    /\ h.op \in {"update", "create"} => h.row.status = "active"
    /\ h.pc = "drop" =>
          /\ h.op = "update" /\ h.next = h.want
          /\ h.clean => active \subseteq h.todo
    /\ h.pc \in {"create", "parents"} => h.op \in {"update", "create"}
    /\ h.pc = "parents" => h.next = {}
    /\ h.op \in {"update", "create"} =>
          /\ h.pc \notin {"check", "leave", "leaveParents", "generate"}
          /\ h.next \subseteq h.want
          /\ h.pc # "drop" => h.todo = {}
          /\ h.pc \in {"create", "parents"} \cup BillingPCs /\ h.clean =>
                active = h.want \ h.next
          /\ h.pc = "insert" /\ h.clean =>
                /\ h.class \in h.want \ h.next
                /\ active = h.want \ (h.next \cup {h.class})

\* A row about to be saved is the row there is, but for the field to change.
RowInv(h) ==
    h.pc = "rowWrite" /\ h.clean =>
        h.row = IF h.op = "toggle"
                THEN [enr[h.class] EXCEPT !.granted = h.row.granted]
                ELSE [enr[h.class] EXCEPT !.status = h.row.status]

HandlerInv(h) == PlaceInv(h) /\ UpdateInv(h, Active) /\ RowInv(h)

StudentInv == student = "absent" => Enrolled = {}

\* A row of an enrolment that waits for its payment.
Waits(row) == row.status = "pending_payment"

\* One handler bills a class, and its row is there by then; until it has,
\* no invoice has the fee, and no handler read an invoice that had it.
BillingInv ==
    /\ \A r \in Slots, c \in Classes : Bills(r, c) => c \in Enrolled
    /\ \A r, s \in Slots, c \in Classes : Bills(r, c) /\ Bills(s, c) => r = s
    /\ \A c \in Classes :
          c \notin Enrolled \/ (\E r \in Slots : Bills(r, c)) =>
              /\ c \notin billed
              /\ \A i \in Invoices : charge[i][c] = 0
              /\ \A r \in Slots : Updates(r) => request[r].read[c] = 0

\* The fee of a class is in one place, and so is every handler's view of it.
ReadOf(r, c) ==
    /\ request[r].read[c] <= 1
    /\ \A i \in Invoices :
          request[r].read[c] = 1 /\ charge[i][c] = 1 => request[r].inv = i
    /\ \A s \in Slots :
          Updates(s) /\ request[r].read[c] = 1 /\ request[s].read[c] = 1 =>
              request[s].inv = request[r].inv
    /\ c \notin exposed => request[r].read[c] = charge[request[r].inv][c]

ReadInv == \A r \in Slots, c \in Classes : Updates(r) => ReadOf(r, c)

MoneyInv ==
    BillingInv /\ ReadInv /\ NoDoubleCharge /\ ChargedUnlessOverlapped

EnrollmentInv ==
    /\ EnrollmentTypeOK
    /\ StudentInv
    /\ \A r \in Slots : HandlerInv(request[r])
    /\ MoneyInv
    /\ RowsAsAsked

-----------------------------------------------------------------------------
(***************************************************************************)
(* Handlers are records; AtNext and the writes of `request' in terms of    *)
(* single handlers.                                                        *)
(***************************************************************************)

\* The idle handler is one.
LEMMA IdleType == IdleRequest \in Handlers
  BY EnrollmentAssumption
  DEF IdleRequest, Handlers, RequestPCs, RequestOps, NoCharge, NoRow, Rows,
      Entries

\* The row of a new enrolment is one, and says it is there.
LEMMA NewRowType ==
  ASSUME NEW status \in Statuses \cup {"active"}
  PROVE  NewRow(status) \in Rows /\ NewRow(status).status # "none"
  BY EnrollmentAssumption DEF NewRow, Rows, RowStatus, EnrollmentStatus

\* Where AtNext leads: to the end, or to the next turn of a loop.
Turn(h, pc) ==
    /\ pc \in {"drop", "create", "parents", "leave", "leaveParents", "check",
              "generate"}
    /\ pc = "drop" => h.op = "update" /\ h.todo # {}
    /\ pc \in {"create", "parents"} =>
          h.op \in {"update", "create"} /\ h.todo = {}
    /\ pc = "parents" => h.next = {}
    /\ pc \in {"leave", "leaveParents", "check", "generate"} =>
          h.op \notin {"update", "create", "setStatus", "toggle"}
    /\ pc = "leave" => h.op = "leave"
    /\ h.op = "leave" => pc \in {"leave", "leaveParents"}
    /\ h.op = "generate" => pc = "generate"

\* AtNext leaves a handler as it is but for its place, or ends it.
LEMMA AtNextPlace ==
  ASSUME NEW h \in Handlers
  PROVE  \/ AtNext(h) = IdleRequest
         \/ \E pc \in RequestPCs :
               Turn(h, pc) /\ AtNext(h) = [h EXCEPT !.pc = pc]
  <1>1. CASE h.todo # {} /\ h.op = "update"
    <2>1. AtNext(h) = [h EXCEPT !.pc = "drop"]
      BY <1>1 DEF AtNext
    <2>2. Turn(h, "drop") /\ "drop" \in RequestPCs
      BY <1>1 DEF Turn, RequestPCs
    <2> QED BY <2>1, <2>2
  <1>2. CASE h.todo = {} /\ h.op \in {"update", "create"}
    <2>1. CASE h.next = {}
      <3>1. AtNext(h) = [h EXCEPT !.pc = "parents"]
        BY <1>2, <2>1 DEF AtNext
      <3>2. Turn(h, "parents") /\ "parents" \in RequestPCs
        BY <1>2, <2>1 DEF Turn, RequestPCs
      <3> QED BY <3>1, <3>2
    <2>2. CASE h.next # {}
      <3>1. AtNext(h) = [h EXCEPT !.pc = "create"]
        BY <1>2, <2>2 DEF AtNext
      <3>2. Turn(h, "create") /\ "create" \in RequestPCs
        BY <1>2 DEF Turn, RequestPCs
      <3> QED BY <3>1, <3>2
    <2> QED BY <2>1, <2>2
  <1>3. CASE h.op = "leave"
    <2>1. \E pc \in {"leave", "leaveParents"} : AtNext(h) = [h EXCEPT !.pc = pc]
      BY <1>3 DEF AtNext
    <2>2. \A pc \in {"leave", "leaveParents"} : Turn(h, pc) /\ pc \in RequestPCs
      BY <1>3 DEF Turn, RequestPCs
    <2> QED BY <2>1, <2>2
  <1>4. CASE h.op \in {"bulk", "classBulk"} /\ h.todo # {}
    <2>1. AtNext(h) = [h EXCEPT !.pc = "check"]
      BY <1>4 DEF AtNext
    <2>2. Turn(h, "check") /\ "check" \in RequestPCs
      BY <1>4 DEF Turn, RequestPCs
    <2> QED BY <2>1, <2>2
  <1>5. CASE h.op = "generate" /\ h.todo # {}
    <2>1. AtNext(h) = [h EXCEPT !.pc = "generate"]
      BY <1>5 DEF AtNext
    <2>2. Turn(h, "generate") /\ "generate" \in RequestPCs
      BY <1>5 DEF Turn, RequestPCs
    <2> QED BY <2>1, <2>2
  <1>6. CASE ~(\/ h.todo # {} /\ h.op = "update"
               \/ h.todo = {} /\ h.op \in {"update", "create"}
               \/ h.op = "leave"
               \/ h.op \in {"bulk", "classBulk"} /\ h.todo # {}
               \/ h.op = "generate" /\ h.todo # {})
    BY <1>6 DEF AtNext
  <1> QED BY <1>1, <1>2, <1>3, <1>4, <1>5, <1>6

\* A handler with another place is a handler.
LEMMA PlaceType ==
  ASSUME NEW h \in Handlers, NEW pc \in RequestPCs
  PROVE  [h EXCEPT !.pc = pc] \in Handlers
  BY DEF Handlers

\* So what AtNext makes of a handler is one.
LEMMA AtNextType ==
  ASSUME NEW h \in Handlers
  PROVE  AtNext(h) \in Handlers
  BY AtNextPlace, PlaceType, IdleType

\* A handler another one's write disturbed is a handler.
LEMMA DisturbedType ==
  ASSUME NEW h \in Handlers
  PROVE  [h EXCEPT !.clean = FALSE] \in Handlers
  BY DEF Handlers

\* A handler with a field replaced by a value of its type is a handler.
LEMMA HandlerField ==
  ASSUME NEW h \in Handlers
  PROVE  /\ \A x \in RequestOps : [h EXCEPT !.op = x] \in Handlers
         /\ \A x \in Classes \cup {None} : [h EXCEPT !.class = x] \in Handlers
         /\ \A x \in SUBSET Classes :
               /\ [h EXCEPT !.todo = x] \in Handlers
               /\ [h EXCEPT !.next = x] \in Handlers
               /\ [h EXCEPT !.want = x] \in Handlers
         /\ \A x \in Invoices \cup {0} : [h EXCEPT !.inv = x] \in Handlers
         /\ \A x \in [Entries -> Nat] : [h EXCEPT !.read = x] \in Handlers
         /\ \A x \in 0..MaxAmount : [h EXCEPT !.sum = x] \in Handlers
         /\ \A x \in Rows : [h EXCEPT !.row = x] \in Handlers
  BY DEF Handlers

\* One handler moves, the others stay.
LEMMA GotoMeans ==
  ASSUME EnrollmentTypeOK, NEW r \in Slots, NEW h \in Handlers, Goto(r, h)
  PROVE  /\ request' \in [Slots -> Handlers]
         /\ request'[r] = h
         /\ \A s \in Slots \ {r} : request'[s] = request[s]
  BY DEF EnrollmentTypeOK, Goto

\* One handler moves, the others know of its write.
LEMMA GotoAfterWriteMeans ==
  ASSUME EnrollmentTypeOK, NEW r \in Slots, NEW h \in Handlers,
         GotoAfterWrite(r, h)
  PROVE  /\ request' \in [Slots -> Handlers]
         /\ request'[r] = h
         /\ \A s \in Slots \ {r} :
               request'[s] = [request[s] EXCEPT !.clean = FALSE]
  <1>1. \A s \in Slots : [request[s] EXCEPT !.clean = FALSE] \in Handlers
    BY DisturbedType DEF EnrollmentTypeOK
  <1> QED BY <1>1 DEF GotoAfterWrite

\* The handlers a billing and a loop of classes go on with.
LEMMA AfterBillType ==
  ASSUME EnrollmentTypeOK, NEW r \in Slots
  PROVE  AfterBill(r) \in Handlers
  <1> DEFINE h == [request[r] EXCEPT !.class = None, !.inv = 0,
                                     !.read = NoCharge, !.sum = 0]
  <1>1. request[r] \in Handlers /\ NoCharge \in [Entries -> Nat]
        /\ 0 \in 0..MaxAmount
    BY EnrollmentAssumption DEF EnrollmentTypeOK, NoCharge
  <1>2. h \in Handlers
    BY <1>1 DEF Handlers
  <1> QED BY <1>2, AtNextType DEF AfterBill

LEMMA SkipType ==
  ASSUME EnrollmentTypeOK, NEW r \in Slots, NEW c
  PROVE  Skip(r, c) \in Handlers
  <1> DEFINE h == [request[r] EXCEPT !.todo = @ \ {c}, !.class = None]
  <1>1. request[r] \in Handlers
    BY DEF EnrollmentTypeOK
  <1>2. h \in Handlers
    BY <1>1 DEF Handlers
  <1> QED BY <1>2, AtNextType DEF Skip

\* What + makes of two decimals that fits its column is an amount.
LEMMA PlusType ==
  ASSUME NEW sum \in Nat, NEW c \in Entries,
         Plus(sum, Fee[c]) <= MaxAmount
  PROVE  Plus(sum, Fee[c]) \in 0..MaxAmount
  <1> DEFINE fee == Fee[c]
  <1>1. fee \in Nat /\ 1 <= fee /\ fee <= 99999999
    BY EnrollmentAssumption
  <1>2. \E n \in Powers : n > fee /\ fee * 10 >= n
    <2> HIDE DEF fee
    <2> QED BY <1>1 DEF Powers
  <1>3. Shift(fee) \in Powers
    <2> HIDE DEF fee
    <2> QED BY <1>2 DEF Shift
  <1>4. Shift(fee) \in Nat
    BY <1>3 DEF Powers
  <1>5. Plus(sum, fee) \in Nat
    <2> HIDE DEF fee
    <2> QED BY <1>1, <1>4 DEF Plus
  <1> QED BY <1>5, EnrollmentAssumption

-----------------------------------------------------------------------------
(***************************************************************************)
(* Type correctness.                                                       *)
(***************************************************************************)

\* The requests staff can start.
LEMMA StartType ==
  ASSUME EnrollmentTypeOK, NEW r \in Slots, StartRequest(r)
  PROVE  request' \in [Slots -> Handlers]
  <1>1. Enrolled \in SUBSET Classes /\ Active \in SUBSET Classes
    BY DEF Enrolled, Active
  <1>2. ASSUME NEW c \in Classes, NEW status \in Statuses \cup {"active"},
               StartEnroll(r, c, status)
        PROVE  \E h \in Handlers : Goto(r, h)
    <2>1. [IdleRequest EXCEPT !.pc = "insert", !.class = c,
                              !.row = NewRow(status)] \in Handlers
      BY NewRowType, IdleType DEF Handlers, RequestPCs
    <2> QED BY <1>2, <2>1 DEF StartEnroll
  <1>3. ASSUME NEW c \in Classes, NEW status \in Statuses \cup {"active"},
               StartClassBulk(r, c, status)
        PROVE  \E h \in Handlers : Goto(r, h)
    <2>1. [IdleRequest EXCEPT !.op = "classBulk", !.todo = {c},
                              !.row = NewRow(status)] \in Handlers
      BY NewRowType, IdleType DEF Handlers, RequestOps
    <2> QED BY <1>3, <2>1, AtNextType DEF StartClassBulk
  <1>4. ASSUME NEW S \in SUBSET Classes,
               NEW status \in Statuses \cup {"active"}, StartBulk(r, S, status)
        PROVE  \E h \in Handlers : Goto(r, h)
    <2>1. [IdleRequest EXCEPT !.op = "bulk", !.todo = S,
                              !.row = NewRow(status)] \in Handlers
      BY NewRowType, IdleType DEF Handlers, RequestOps
    <2> QED BY <1>4, <2>1, AtNextType DEF StartBulk
  <1>5. ASSUME NEW S \in SUBSET Classes, StartCreateStudent(r, S)
        PROVE  \E h \in Handlers : Goto(r, h)
    <2>1. [IdleRequest EXCEPT !.op = "create", !.next = S, !.want = S,
                              !.row = NewRow("active")] \in Handlers
      BY NewRowType, IdleType DEF Handlers, RequestOps
    <2> QED BY <1>5, <2>1, AtNextType DEF StartCreateStudent
  <1>6. ASSUME NEW S \in SUBSET Classes, StartUpdate(r, S)
        PROVE  \E h \in Handlers : Goto(r, h)
    <2>1. [IdleRequest EXCEPT !.op = "update", !.todo = Enrolled,
                              !.next = S, !.want = S,
                              !.row = NewRow("active")] \in Handlers
      BY <1>1, NewRowType, IdleType DEF Handlers, RequestOps
    <2> QED BY <1>6, <2>1, AtNextType DEF StartUpdate
  <1>7. ASSUME StartLeave(r)
        PROVE  \E h \in Handlers : Goto(r, h)
    <2>1. [IdleRequest EXCEPT !.op = "leave", !.todo = Enrolled] \in Handlers
      BY <1>1, IdleType DEF Handlers, RequestOps
    <2> QED BY <1>7, <2>1, AtNextType DEF StartLeave
  <1>8. ASSUME StartGenerate(r)
        PROVE  \E h \in Handlers : Goto(r, h)
    <2>1. [IdleRequest EXCEPT !.op = "generate", !.todo = Active] \in Handlers
      BY <1>1, IdleType DEF Handlers, RequestOps
    <2> QED BY <1>8, <2>1, AtNextType DEF StartGenerate
  <1>9. ASSUME NEW c \in Classes, NEW status \in Statuses,
               StartSetStatus(r, c, status)
        PROVE  \E h \in Handlers : Goto(r, h)
    <2>1. [enr[c] EXCEPT !.status = status] \in Rows
      BY EnrollmentAssumption DEF EnrollmentTypeOK, Rows
    <2>2. [IdleRequest EXCEPT !.op = "setStatus", !.pc = "rowWrite",
                     !.class = c,
                     !.row = [enr[c] EXCEPT !.status = status]] \in Handlers
      BY <2>1, IdleType DEF Handlers, RequestOps, RequestPCs
    <2> QED BY <1>9, <2>2 DEF StartSetStatus
  <1>10. ASSUME NEW c \in Classes, NEW enabled \in BOOLEAN,
                StartToggle(r, c, enabled)
         PROVE  \E h \in Handlers : Goto(r, h)
    <2>1. [enr[c] EXCEPT !.granted = enabled] \in Rows
      BY DEF EnrollmentTypeOK, Rows
    <2>2. [IdleRequest EXCEPT !.op = "toggle", !.pc = "rowWrite",
                     !.class = c,
                     !.row = [enr[c] EXCEPT !.granted = enabled]] \in Handlers
      BY <2>1, IdleType DEF Handlers, RequestOps, RequestPCs
    <2> QED BY <1>10, <2>2 DEF StartToggle
  <1>11. \E h \in Handlers : Goto(r, h)
    BY <1>2, <1>3, <1>4, <1>5, <1>6, <1>7, <1>8, <1>9, <1>10 DEF StartRequest
  <1> QED BY <1>11, GotoMeans

\* The steps of a handler that write no table.
QuietStep(r) ==
    \/ BulkCheck(r) \/ CreateNext(r) \/ RowRefused(r) \/ BillRead(r)
    \/ BillNothing(r) \/ BillFails(r) \/ Answer(r) \/ GenerateNothing(r)
    \/ RequestFails(r)

LEMMA QuietType ==
  ASSUME EnrollmentTypeOK, NEW r \in Slots, QuietStep(r)
  PROVE  request' \in [Slots -> Handlers] /\ UNCHANGED <<tables, history>>
  <1>0. request[r] \in Handlers /\ IdleRequest \in Handlers
        /\ AfterBill(r) \in Handlers /\ \A c : Skip(r, c) \in Handlers
    BY IdleType, AfterBillType, SkipType DEF EnrollmentTypeOK
  <1>1. ASSUME NEW c \in Classes
        PROVE  /\ [request[r] EXCEPT !.pc = "insert", !.class = c,
                                    !.todo = @ \ {c}] \in Handlers
               /\ [request[r] EXCEPT !.pc = "insert", !.class = c,
                                    !.next = @ \ {c}] \in Handlers
    BY <1>0 DEF Handlers, RequestPCs
  <1>2. CASE BulkCheck(r)
    <2>1. PICK c \in request[r].todo :
            IF c \in Enrolled
            THEN Goto(r, Skip(r, c))
            ELSE Goto(r, [request[r] EXCEPT !.pc = "insert", !.class = c,
                                            !.todo = @ \ {c}])
      BY <1>2 DEF BulkCheck
    <2>2. c \in Classes
      BY <1>0, <2>1 DEF Handlers
    <2> QED BY <1>0, <1>1, <1>2, <2>1, <2>2, GotoMeans DEF BulkCheck
  <1>3. CASE CreateNext(r)
    <2>1. PICK c \in request[r].next :
            Goto(r, [request[r] EXCEPT !.pc = "insert", !.class = c,
                                       !.next = @ \ {c}])
      BY <1>3 DEF CreateNext
    <2>2. c \in Classes
      BY <1>0, <2>1 DEF Handlers
    <2> QED BY <1>1, <1>3, <2>1, <2>2, GotoMeans DEF CreateNext
  <1>4. CASE RowRefused(r)
    BY <1>0, <1>4, GotoMeans DEF RowRefused
  <1>5. CASE BillRead(r)
    <2>1. CASE Goto(r, [request[r] EXCEPT !.pc = "billCreate"])
      <3>1. [request[r] EXCEPT !.pc = "billCreate"] \in Handlers
        BY <1>0, PlaceType DEF RequestPCs
      <3> QED BY <1>5, <2>1, <3>1, GotoMeans DEF BillRead
    <2>2. ASSUME NEW i \in Invoices,
                 Goto(r, [request[r] EXCEPT !.pc = "billUpdate", !.inv = i,
                                    !.read = charge[i], !.sum = amount[i]])
          PROVE  request' \in [Slots -> Handlers]
      <3>1. charge[i] \in [Entries -> Nat] /\ amount[i] \in 0..MaxAmount
        BY DEF EnrollmentTypeOK
      <3>2. [request[r] EXCEPT !.pc = "billUpdate", !.inv = i,
                         !.read = charge[i], !.sum = amount[i]] \in Handlers
        BY <1>0, <3>1 DEF Handlers, RequestPCs
      <3> QED BY <2>2, <3>2, GotoMeans
    <2> QED BY <1>5, <2>1, <2>2 DEF BillRead
  <1>6. CASE BillNothing(r)
    BY <1>0, <1>6, GotoMeans DEF BillNothing
  <1>7. CASE BillFails(r)
    BY <1>0, <1>7, GotoMeans DEF BillFails
  <1>8. CASE Answer(r)
    BY <1>0, <1>8, GotoMeans DEF Answer, Finish
  <1>9. CASE GenerateNothing(r)
    BY <1>0, <1>9, GotoMeans DEF GenerateNothing
  <1>10. CASE RequestFails(r)
    BY <1>0, <1>10, GotoMeans DEF RequestFails, Finish
  <1> QED BY <1>2, <1>3, <1>4, <1>5, <1>6, <1>7, <1>8, <1>9, <1>10
          DEF QuietStep

\* What makes an invoice, as generating one, a member of staff and billing do.
LEMMA MakesInvoice ==
  ASSUME EnrollmentTypeOK, NEW i \in Invoices, NEW c \in Entries,
         invoice' = [invoice EXCEPT ![i] = "thisMonth"],
         amount' = [amount EXCEPT ![i] = Fee[c]],
         charge' = [charge EXCEPT ![i][c] = 1]
  PROVE  /\ invoice' \in
                [Invoices -> {"absent", "thisMonth", "earlier", "removed"}]
         /\ amount' \in [Invoices -> 0..MaxAmount]
         /\ charge' \in [Invoices -> [Entries -> Nat]]
  <1>1. Fee[c] \in 0..MaxAmount
    BY EnrollmentAssumption
  <1> QED BY <1>1 DEF EnrollmentTypeOK

\* The types are kept by every step.
LEMMA TypeStep ==
  ASSUME EnrollmentTypeOK, \A r \in Slots : PlaceInv(request[r]),
         EnrollmentNext
  PROVE  EnrollmentTypeOK'
  <1> USE DEF EnrollmentTypeOK
  <1>0. ASSUME NEW r \in Slots
        PROVE  /\ request[r] \in Handlers /\ IdleRequest \in Handlers
               /\ AfterBill(r) \in Handlers /\ \A c : Skip(r, c) \in Handlers
               /\ [request[r] EXCEPT !.pc = "billRead"] \in Handlers
    BY IdleType, AfterBillType, SkipType, PlaceType DEF RequestPCs
  <1>1. ASSUME NEW r \in Slots, StartRequest(r) PROVE EnrollmentTypeOK'
    <2>1. request' \in [Slots -> Handlers]
      BY <1>1, StartType
    <2>2. student' \in {student, "live"}
          /\ UNCHANGED <<classes, enr, invoice, ledger, history>>
      BY <1>1
      DEF StartRequest, StartEnroll, StartClassBulk, StartBulk,
          StartCreateStudent, StartUpdate, StartLeave, StartGenerate,
          StartSetStatus, StartToggle, tables, ledger
    <2> QED BY <2>1, <2>2 DEF ledger, history
  <1>2. ASSUME NEW r \in Slots, QuietStep(r) PROVE EnrollmentTypeOK'
    BY <1>2, QuietType DEF tables, history
  <1>3. ASSUME NEW r \in Slots, InsertRow(r) PROVE EnrollmentTypeOK'
    <2>1. request[r].row \in Rows /\ request[r].class \in Classes
      BY <1>0, <1>3 DEF InsertRow, PlaceInv, At, Handlers
    <2>2. request' \in [Slots -> Handlers]
      BY <1>0, <1>3, GotoAfterWriteMeans DEF InsertRow
    <2> QED BY <1>3, <2>1, <2>2 DEF InsertRow, ledger
  <1>4. ASSUME NEW r \in Slots, BillUpdate(r) PROVE EnrollmentTypeOK'
    <2> DEFINE h == request[r]
    <2>1. h \in Handlers /\ h.inv \in Invoices /\ h.class \in Classes
      BY <1>0, <1>4 DEF BillUpdate, PlaceInv, At, BillingPCs
    <2>2. h.sum \in Nat /\ h.read \in [Entries -> Nat]
          /\ h.class \in Entries
      BY <2>1, EnrollmentAssumption DEF Handlers, Entries
    <2>3. Plus(h.sum, Fee[h.class]) <= MaxAmount
      BY <1>4 DEF BillUpdate
    <2>4. Plus(h.sum, Fee[h.class]) \in 0..MaxAmount
      BY <2>2, <2>3, PlusType
    <2>5. [h.read EXCEPT ![h.class] = @ + 1] \in [Entries -> Nat]
      BY <2>2
    <2>6. request' \in [Slots -> Handlers]
      BY <1>0, <1>4, GotoMeans DEF BillUpdate
    <2>7. amount' \in [Invoices -> 0..MaxAmount]
          /\ charge' \in [Invoices -> [Entries -> Nat]]
      BY <1>4, <2>1, <2>4, <2>5 DEF BillUpdate
    <2> QED BY <1>4, <2>1, <2>6, <2>7 DEF BillUpdate
  <1>5. ASSUME NEW r \in Slots, BillCreate(r) PROVE EnrollmentTypeOK'
    <2> DEFINE h == request[r]
    <2>1. h.class \in Classes /\ h.class \in Entries
      BY <1>5 DEF BillCreate, PlaceInv, At, BillingPCs, Entries
    <2>2. PICK i \in Invoices :
            /\ invoice' = [invoice EXCEPT ![i] = "thisMonth"]
            /\ amount' = [amount EXCEPT ![i] = Fee[h.class]]
            /\ charge' = [charge EXCEPT ![i][h.class] = 1]
      BY <1>5 DEF BillCreate
    <2>3. request' \in [Slots -> Handlers]
      BY <1>0, <1>5, GotoMeans DEF BillCreate
    <2> QED BY <1>5, <2>1, <2>2, <2>3, MakesInvoice DEF BillCreate
  <1>6. ASSUME NEW c \in Classes, DropRow(c)
        PROVE  enr' \in [Classes -> Rows] /\ asked' \in [Classes -> Rows]
    BY <1>6 DEF DropRow, Rows, RowStatus, EnrollmentStatus
  <1>7. ASSUME NEW r \in Slots, DropNext(r) PROVE EnrollmentTypeOK'
    <2>1. PICK c \in request[r].todo :
            DropRow(c) /\ GotoAfterWrite(r, Skip(r, c))
      BY <1>7 DEF DropNext
    <2>2. c \in Classes
      BY <1>0, <2>1 DEF Handlers
    <2>3. request' \in [Slots -> Handlers]
      BY <1>0, <2>1, GotoAfterWriteMeans
    <2> QED BY <1>6, <1>7, <2>1, <2>2, <2>3 DEF DropNext, ledger
  <1>8. ASSUME NEW r \in Slots, LeaveParents(r) PROVE EnrollmentTypeOK'
    <2>1. request' \in [Slots -> Handlers]
      BY <1>0, <1>8, GotoMeans DEF LeaveParents, Finish
    <2> QED BY <1>8, <2>1 DEF LeaveParents, ledger, history
  <1>9. ASSUME NEW r \in Slots, RowWrite(r) PROVE EnrollmentTypeOK'
    <2> DEFINE h == request[r]
    <2>1. h.row \in Rows /\ h.class \in Classes
      BY <1>0, <1>9 DEF RowWrite, PlaceInv, At, Enrolled, Handlers
    <2>2. asked' \in [Classes -> Rows]
      BY <1>9, <2>1 DEF RowWrite, Rows
    <2>3. request' \in [Slots -> Handlers]
      BY <1>0, <1>9, GotoAfterWriteMeans DEF RowWrite
    <2>4. enr' \in [Classes -> Rows] /\ raced' \in SUBSET Classes
      BY <1>9, <2>1 DEF RowWrite
    <2> QED BY <1>9, <2>2, <2>3, <2>4 DEF RowWrite, ledger
  <1>10. ASSUME AddInvoice, request' \in [Slots -> Handlers]
         PROVE  EnrollmentTypeOK'
    <2>1. PICK i \in Invoices :
            /\ invoice' = [invoice EXCEPT ![i] = "thisMonth"]
            /\ amount' = [amount EXCEPT ![i] = Fee[None]]
            /\ charge' = [charge EXCEPT ![i][None] = 1]
      BY <1>10 DEF AddInvoice
    <2>2. None \in Entries
      BY DEF Entries
    <2> QED BY <1>10, <2>1, <2>2, MakesInvoice DEF AddInvoice, history
  <1>11. ASSUME NEW r \in Slots, GenerateInvoice(r) PROVE EnrollmentTypeOK'
    <2>1. request' \in [Slots -> Handlers]
      BY <1>0, <1>11, GotoMeans DEF GenerateInvoice
    <2> QED BY <1>10, <1>11, <2>1 DEF GenerateInvoice
  <1>12. ASSUME NEW c \in Classes, RemoveEnrollment(c)
         PROVE  EnrollmentTypeOK'
    <2>1. request' \in [Slots -> Handlers]
      BY <1>12, DisturbedType DEF RemoveEnrollment
    <2> QED BY <1>6, <1>12, <2>1 DEF RemoveEnrollment, ledger
  <1>13. ASSUME NEW c \in Classes, RemoveClass(c) PROVE EnrollmentTypeOK'
    BY <1>13 DEF RemoveClass, ledger, history
  <1>14. ASSUME NEW i \in Invoices, DeleteInvoice(i) PROVE EnrollmentTypeOK'
    BY <1>14 DEF DeleteInvoice, ledger, history
  <1>15. CASE StaffInvoice
    BY <1>10, <1>15 DEF StaffInvoice
  <1>16. CASE NextMonth
    BY <1>16 DEF NextMonth, ledger, history
  <1> QED BY <1>1, <1>2, <1>3, <1>4, <1>5, <1>7, <1>8, <1>9, <1>11, <1>12,
             <1>13, <1>14, <1>15, <1>16
          DEF EnrollmentNext, EnrollStep, BillStep, OtherStep, QuietStep

-----------------------------------------------------------------------------
(***************************************************************************)
(* What the handlers rely on.                                              *)
(***************************************************************************)

\* A handler that did not move still relies on what holds, or was told of
\* the write that changed it.
LEMMA OthersKeep ==
  ASSUME EnrollmentTypeOK, NEW s \in Slots, HandlerInv(request[s]),
         student # "absent" => student' # "absent",
         Enrolled \subseteq Enrolled',
         \A i \in Invoices : invoice[i] # "absent" => invoice'[i] # "absent",
         \/ request'[s] = request[s] /\ UNCHANGED enr
         \/ request'[s] = [request[s] EXCEPT !.clean = FALSE]
  PROVE  HandlerInv(request[s])'
  <1>0. request[s] \in Handlers
    BY DEF EnrollmentTypeOK
  <1>1. CASE request'[s] = request[s] /\ UNCHANGED enr
    <2>1. PlaceInv(request[s])'
      BY <1>1 DEF HandlerInv, PlaceInv
    <2>2. RowInv(request[s])' /\ UpdateInv(request[s], Active)'
      BY <1>1 DEF HandlerInv, RowInv, UpdateInv, Active
    <2> QED BY <2>1, <2>2 DEF HandlerInv
  <1>2. CASE request'[s] = [request[s] EXCEPT !.clean = FALSE]
    <2> DEFINE h == request[s]
               k == request'[s]
    <2>1. /\ k.pc = h.pc /\ k.op = h.op /\ k.class = h.class
          /\ k.todo = h.todo /\ k.next = h.next /\ k.want = h.want
          /\ k.inv = h.inv /\ k.row = h.row /\ ~k.clean
      BY <1>0, <1>2 DEF Handlers
    <2>2. PlaceInv(request[s])'
      BY <2>1 DEF HandlerInv, PlaceInv
    <2>3. RowInv(request[s])' /\ UpdateInv(request[s], Active)'
      BY <2>1 DEF HandlerInv, RowInv, UpdateInv
    <2> QED BY <2>2, <2>3 DEF HandlerInv
  <1> QED BY <1>1, <1>2

\* What a handler that reaches the end of a turn must bring.
Ready(h, active) ==
    /\ h.row.status = "none" => h.op \in {"leave", "generate"}
    /\ h.op \in {"update", "create"} =>
        /\ h.row.status = "active"
        /\ h.next \subseteq h.want
        /\ h.op = "update" /\ h.todo # {} =>
              h.next = h.want /\ (h.clean => active \subseteq h.todo)
        /\ h.todo = {} /\ h.clean => active = h.want \ h.next

\* The places from which neither a row nor an invoice is written next.
Between == RequestPCs \ ({"insert", "rowWrite"} \cup BillingPCs)

LEMMA AtNextInv ==
  ASSUME NEW h \in Handlers, NEW active, Ready(h, active)
  PROVE  /\ AtNext(h) \in Handlers /\ AtNext(h).pc \in Between
         /\ UpdateInv(AtNext(h), active)
  <1>1. CASE AtNext(h) = IdleRequest
    BY <1>1, IdleType
    DEF IdleRequest, UpdateInv, Between, RequestPCs, BillingPCs
  <1>2. ASSUME NEW pc \in RequestPCs, Turn(h, pc),
               AtNext(h) = [h EXCEPT !.pc = pc]
        PROVE  /\ AtNext(h) \in Handlers /\ AtNext(h).pc \in Between
               /\ UpdateInv(AtNext(h), active)
    <2> DEFINE k == AtNext(h)
    <2>1. /\ k.pc = pc /\ k.op = h.op /\ k.todo = h.todo /\ k.next = h.next
          /\ k.want = h.want /\ k.clean = h.clean /\ k.row = h.row
      BY <1>2 DEF Handlers
    <2>2. k \in Handlers /\ k.pc \in Between
      BY <1>2, <2>1, AtNextType DEF Turn, Between, RequestPCs, BillingPCs
    <2>3. UpdateInv(k, active)
      <3> HIDE DEF k
      <3> QED BY <1>2, <2>1 DEF Turn, Ready, UpdateInv, BillingPCs
    <2> QED BY <2>2, <2>3
  <1> QED BY <1>1, <1>2, AtNextPlace

\* A handler between two turns relies on nothing but the student's row.
LEMMA BetweenKeeps ==
  ASSUME NEW r \in Slots, request'[r].pc \in Between,
         UpdateInv(request'[r], Active'), student' # "absent"
  PROVE  HandlerInv(request[r])'
  BY DEF HandlerInv, PlaceInv, RowInv, Between, BillingPCs

\* AfterBill and Skip, as AtNext of a handler that kept the rest.
LEMMA AfterBillMeans ==
  ASSUME EnrollmentTypeOK, NEW r \in Slots
  PROVE  \E h \in Handlers :
            /\ AfterBill(r) = AtNext(h)
            /\ h.op = request[r].op /\ h.todo = request[r].todo
            /\ h.next = request[r].next /\ h.want = request[r].want
            /\ h.clean = request[r].clean /\ h.row = request[r].row
  <1> DEFINE h == [request[r] EXCEPT !.class = None, !.inv = 0,
                                     !.read = NoCharge, !.sum = 0]
  <1>1. request[r] \in Handlers /\ NoCharge \in [Entries -> Nat]
        /\ 0 \in 0..MaxAmount
    BY EnrollmentAssumption DEF EnrollmentTypeOK, NoCharge
  <1>2. /\ h \in Handlers /\ h.op = request[r].op /\ h.todo = request[r].todo
        /\ h.next = request[r].next /\ h.want = request[r].want
        /\ h.clean = request[r].clean /\ h.row = request[r].row
    BY <1>1 DEF Handlers
  <1> QED BY <1>2 DEF AfterBill

LEMMA SkipMeans ==
  ASSUME EnrollmentTypeOK, NEW r \in Slots, NEW c
  PROVE  \E h \in Handlers :
            /\ Skip(r, c) = AtNext(h)
            /\ h.op = request[r].op /\ h.todo = request[r].todo \ {c}
            /\ h.next = request[r].next /\ h.want = request[r].want
            /\ h.clean = request[r].clean /\ h.row = request[r].row
  <1> DEFINE h == [request[r] EXCEPT !.todo = @ \ {c}, !.class = None]
  <1>1. request[r] \in Handlers
    BY DEF EnrollmentTypeOK
  <1>2. /\ h \in Handlers /\ h.op = request[r].op
        /\ h.todo = request[r].todo \ {c}
        /\ h.next = request[r].next /\ h.want = request[r].want
        /\ h.clean = request[r].clean /\ h.row = request[r].row
    BY <1>1 DEF Handlers
  <1> QED BY <1>2 DEF Skip

\* The idle handler relies on nothing.
LEMMA IdleInv ==
  ASSUME NEW active
  PROVE  /\ IdleRequest \in Handlers /\ IdleRequest.pc = "idle"
         /\ UpdateInv(IdleRequest, active)
  BY IdleType DEF IdleRequest, UpdateInv, BillingPCs

LEMMA EndKeeps ==
  ASSUME NEW r \in Slots, request'[r] = IdleRequest
  PROVE  HandlerInv(request[r])'
  <1>1. UpdateInv(request'[r], Active') /\ request'[r].pc = "idle"
    BY IdleInv
  <1> QED BY <1>1 DEF HandlerInv, PlaceInv, RowInv, BillingPCs

\* A request that starts relies on what it read.
LEMMA StartInv ==
  ASSUME EnrollmentTypeOK, NEW r \in Slots, StartRequest(r), StudentInv
  PROVE  /\ UNCHANGED <<classes, enr, invoice, ledger, history>>
         /\ student # "absent" => student' = student
         /\ student' # "absent"
         /\ \E h \in Handlers :
               /\ Goto(r, h) /\ h.pc \notin BillingPCs
               /\ UpdateInv(h, Active)
               /\ h.pc = "insert" => h.class \in Classes
               /\ h.pc = "rowWrite" =>
                     /\ h.class \in Enrolled /\ h.row.status # "none"
                     /\ h.op \in {"setStatus", "toggle"}
                     /\ Waits(h.row) => Waits(enr[h.class])
               /\ RowInv(h)
  <1> DEFINE Good(h) ==
               /\ Goto(r, h) /\ h.pc \notin BillingPCs
               /\ UpdateInv(h, Active)
               /\ h.pc = "insert" => h.class \in Classes
               /\ h.pc = "rowWrite" =>
                     /\ h.class \in Enrolled /\ h.row.status # "none"
                     /\ h.op \in {"setStatus", "toggle"}
                     /\ Waits(h.row) => Waits(enr[h.class])
               /\ RowInv(h)
  <1>0. Enrolled \in SUBSET Classes /\ Active \in SUBSET Enrolled
    BY DEF Enrolled, Active
  <1>1. UNCHANGED <<classes, enr, invoice, ledger, history>>
    BY DEF StartRequest, StartEnroll, StartClassBulk, StartBulk,
           StartCreateStudent, StartUpdate, StartLeave, StartGenerate,
           StartSetStatus, StartToggle, tables, ledger
  <1>2. /\ student # "absent" => student' = student
        /\ student' # "absent"
    <2>1. ASSUME NEW c \in Classes, c \in Enrolled
          PROVE  student # "absent"
      BY <2>1 DEF StudentInv
    <2> QED BY <2>1
        DEF StartRequest, StartEnroll, StartClassBulk, StartBulk,
           StartCreateStudent, StartUpdate, StartLeave, StartGenerate,
           StartSetStatus, StartToggle, tables
  <1>3. ASSUME NEW h \in Handlers, Ready(h, Active), Goto(r, AtNext(h))
        PROVE  \E k \in Handlers : Good(k)
    <2>1. /\ AtNext(h) \in Handlers /\ AtNext(h).pc \in Between
          /\ UpdateInv(AtNext(h), Active)
      BY <1>3, AtNextInv
    <2>2. Good(AtNext(h))
      BY <1>3, <2>1 DEF Between, BillingPCs, RowInv
    <2> QED BY <2>1, <2>2
  <1>4. ASSUME NEW c \in Classes, NEW status \in Statuses \cup {"active"},
               StartEnroll(r, c, status)
        PROVE  \E h \in Handlers : Good(h)
    <2> DEFINE row == NewRow(status)
               k == [IdleRequest EXCEPT !.pc = "insert", !.class = c,
                                        !.row = row]
    <2>a. row \in Rows /\ row.status # "none"
      BY NewRowType
    <2>1. k \in Handlers
      BY <2>a, IdleType DEF Handlers, RequestPCs
    <2>2. k.pc = "insert" /\ k.op = "enroll" /\ k.class = c /\ k.row = row
      BY IdleType DEF IdleRequest
    <2>3. Goto(r, k)
      BY <1>4 DEF StartEnroll
    <2> HIDE DEF k, row
    <2>4. Good(k)
      BY <2>a, <2>2, <2>3 DEF UpdateInv, RowInv, BillingPCs
    <2> QED BY <2>1, <2>4
  <1>5. ASSUME NEW c \in Classes, NEW status \in Statuses \cup {"active"},
               StartClassBulk(r, c, status)
        PROVE  \E h \in Handlers : Good(h)
    <2> DEFINE k == [IdleRequest EXCEPT !.op = "classBulk", !.todo = {c},
                                        !.row = NewRow(status)]
    <2>1. k \in Handlers /\ k.op = "classBulk" /\ k.row = NewRow(status)
      BY NewRowType, IdleType DEF Handlers, RequestOps, IdleRequest
    <2> QED BY <1>3, <1>5, <2>1, NewRowType DEF StartClassBulk, Ready
  <1>6. ASSUME NEW S \in SUBSET Classes,
               NEW status \in Statuses \cup {"active"}, StartBulk(r, S, status)
        PROVE  \E h \in Handlers : Good(h)
    <2> DEFINE k == [IdleRequest EXCEPT !.op = "bulk", !.todo = S,
                                        !.row = NewRow(status)]
    <2>1. k \in Handlers /\ k.op = "bulk" /\ k.row = NewRow(status)
      BY NewRowType, IdleType DEF Handlers, RequestOps, IdleRequest
    <2> QED BY <1>3, <1>6, <2>1, NewRowType DEF StartBulk, Ready
  <1>7. ASSUME NEW S \in SUBSET Classes, StartCreateStudent(r, S)
        PROVE  \E h \in Handlers : Good(h)
    <2> DEFINE k == [IdleRequest EXCEPT !.op = "create", !.next = S,
                                        !.want = S, !.row = NewRow("active")]
    <2>1. k \in Handlers
      BY NewRowType, IdleType DEF Handlers, RequestOps
    <2>2. /\ k.next = S /\ k.want = S /\ k.op = "create"
          /\ k.row.status = "active"
      BY DEF IdleRequest, NewRow
    <2>3. Active = {} /\ Goto(r, AtNext(k))
      BY <1>0, <1>7 DEF StartCreateStudent, StudentInv
    <2> HIDE DEF k
    <2>4. Ready(k, Active)
      BY <2>2, <2>3 DEF Ready
    <2> QED BY <1>3, <2>1, <2>3, <2>4
  <1>8. ASSUME NEW S \in SUBSET Classes, StartUpdate(r, S)
        PROVE  \E h \in Handlers : Good(h)
    <2> DEFINE k == [IdleRequest EXCEPT !.op = "update", !.todo = Enrolled,
                                        !.next = S, !.want = S,
                                        !.row = NewRow("active")]
    <2>1. k \in Handlers
      BY <1>0, NewRowType, IdleType DEF Handlers, RequestOps
    <2>2. /\ k.next = S /\ k.want = S /\ k.todo = Enrolled
          /\ k.row.status = "active"
      BY DEF IdleRequest, NewRow
    <2>3. Goto(r, AtNext(k))
      BY <1>8 DEF StartUpdate
    <2> HIDE DEF k
    <2>4. Ready(k, Active)
      BY <1>0, <2>2 DEF Ready
    <2> QED BY <1>3, <2>1, <2>3, <2>4
  <1>9. ASSUME StartLeave(r) PROVE \E h \in Handlers : Good(h)
    <2> DEFINE k == [IdleRequest EXCEPT !.op = "leave", !.todo = Enrolled]
    <2>1. k \in Handlers /\ k.op = "leave"
      BY <1>0, IdleType DEF Handlers, RequestOps, IdleRequest
    <2> QED BY <1>3, <1>9, <2>1 DEF StartLeave, Ready
  <1>10. ASSUME StartGenerate(r) PROVE \E h \in Handlers : Good(h)
    <2> DEFINE k == [IdleRequest EXCEPT !.op = "generate", !.todo = Active]
    <2>1. k \in Handlers /\ k.op = "generate"
      BY <1>0, IdleType DEF Handlers, RequestOps, IdleRequest
    <2> QED BY <1>3, <1>10, <2>1 DEF StartGenerate, Ready
  <1>11. ASSUME NEW c \in Classes, NEW status \in Statuses,
                StartSetStatus(r, c, status)
         PROVE  \E h \in Handlers : Good(h)
    <2> DEFINE row == [enr[c] EXCEPT !.status = status]
               k == [IdleRequest EXCEPT !.op = "setStatus", !.pc = "rowWrite",
                                        !.class = c, !.row = row]
    <2>a. /\ status \in RowStatus /\ status # "none"
          /\ status # "pending_payment"
      BY <1>11 DEF StartSetStatus, RowStatus, EnrollmentStatus
    <2>1. row \in Rows /\ row.status = status
          /\ row = [enr[c] EXCEPT !.status = row.status]
      BY <2>a DEF EnrollmentTypeOK, Rows
    <2> HIDE DEF row
    <2>2. k \in Handlers
      BY <2>1, IdleType DEF Handlers, RequestOps, RequestPCs
    <2>3. k.pc = "rowWrite" /\ k.op = "setStatus" /\ k.class = c
          /\ k.row = row
      BY DEF IdleRequest
    <2>4. Goto(r, k) /\ c \in Enrolled
      BY <1>11 DEF StartSetStatus, row
    <2> HIDE DEF k
    <2>5. Good(k)
      BY <2>a, <2>1, <2>3, <2>4 DEF UpdateInv, RowInv, Waits, BillingPCs
    <2> QED BY <2>2, <2>5
  <1>12. ASSUME NEW c \in Classes, NEW enabled \in BOOLEAN,
                StartToggle(r, c, enabled)
         PROVE  \E h \in Handlers : Good(h)
    <2> DEFINE row == [enr[c] EXCEPT !.granted = enabled]
               k == [IdleRequest EXCEPT !.op = "toggle", !.pc = "rowWrite",
                                        !.class = c, !.row = row]
    <2>1. row \in Rows /\ row.status = enr[c].status
          /\ row = [enr[c] EXCEPT !.granted = row.granted]
      BY DEF EnrollmentTypeOK, Rows
    <2> HIDE DEF row
    <2>2. k \in Handlers
      BY <2>1, IdleType DEF Handlers, RequestOps, RequestPCs
    <2>3. k.pc = "rowWrite" /\ k.op = "toggle" /\ k.class = c
          /\ k.row = row
      BY DEF IdleRequest
    <2>4. Goto(r, k) /\ c \in Enrolled
      BY <1>12 DEF StartToggle, row
    <2>5. enr[c].status # "none"
      BY <2>4 DEF Enrolled
    <2> HIDE DEF k
    <2>6. Good(k)
      BY <2>1, <2>3, <2>4, <2>5 DEF UpdateInv, RowInv, Waits, BillingPCs
    <2> QED BY <2>2, <2>6
  <1>13. \E h \in Handlers : Good(h)
    <2> HIDE DEF Good
    <2> QED BY <1>4, <1>5, <1>6, <1>7, <1>8, <1>9, <1>10, <1>11, <1>12
        DEF StartRequest
  <1> QED BY <1>1, <1>2, <1>13

\* A handler that goes on from a billing, or passes a class over.
LEMMA AfterBillKeeps ==
  ASSUME EnrollmentTypeOK, NEW r \in Slots, HandlerInv(request[r]), NEW active,
         \/ request[r].pc \in BillingPCs /\ active = Active
         \/ /\ request[r].op \notin {"update", "create"}
            /\ request[r].pc = "insert"
  PROVE  /\ AfterBill(r) \in Handlers /\ AfterBill(r).pc \in Between
         /\ UpdateInv(AfterBill(r), active)
  <1>1. PICK h \in Handlers :
            /\ AfterBill(r) = AtNext(h)
            /\ h.op = request[r].op /\ h.todo = request[r].todo
            /\ h.next = request[r].next /\ h.want = request[r].want
            /\ h.clean = request[r].clean /\ h.row = request[r].row
    BY AfterBillMeans
  <1>2. Ready(h, active)
    BY <1>1 DEF Ready, HandlerInv, UpdateInv, BillingPCs
  <1> QED BY <1>1, <1>2, AtNextInv

LEMMA SkipKeeps ==
  ASSUME EnrollmentTypeOK, NEW r \in Slots, HandlerInv(request[r]), NEW c,
         request[r].op \notin {"update", "create"}, request[r].pc # "idle",
         NEW active
  PROVE  /\ Skip(r, c) \in Handlers /\ Skip(r, c).pc \in Between
         /\ UpdateInv(Skip(r, c), active)
  <1>1. PICK h \in Handlers :
            /\ Skip(r, c) = AtNext(h)
            /\ h.op = request[r].op /\ h.row = request[r].row
    BY SkipMeans
  <1>2. Ready(h, active)
    BY <1>1 DEF Ready, HandlerInv, UpdateInv
  <1> QED BY <1>1, <1>2, AtNextInv

\* The steps that write no table: who moves, and what it relies on.
LEMMA QuietInv ==
  ASSUME EnrollmentTypeOK, NEW r \in Slots, HandlerInv(request[r]),
         QuietStep(r)
  PROVE  /\ HandlerInv(request[r])'
         /\ \A s \in Slots \ {r} : request'[s] = request[s]
         /\ BillRead(r) \/ request'[r].pc \notin BillingPCs
  <1>0. /\ request[r] \in Handlers /\ UNCHANGED <<tables, history>>
        /\ request' \in [Slots -> Handlers] /\ IdleRequest.pc = "idle"
        /\ Active' = Active /\ UNCHANGED <<student, enr, invoice>>
    BY QuietType DEF EnrollmentTypeOK, tables, Active, IdleRequest
  <1>1. ASSUME NEW h \in Handlers, Goto(r, h)
        PROVE  /\ request'[r] = h
               /\ \A s \in Slots \ {r} : request'[s] = request[s]
    BY <1>1, GotoMeans
  <1>2. ASSUME NEW h \in Handlers, Goto(r, h), h.pc \in Between,
               UpdateInv(h, Active), student # "absent"
        PROVE  /\ HandlerInv(request[r])'
               /\ \A s \in Slots \ {r} : request'[s] = request[s]
               /\ request'[r].pc \notin BillingPCs
    BY <1>0, <1>1, <1>2, BetweenKeeps DEF Between
  <1>3. ASSUME Goto(r, IdleRequest)
        PROVE  /\ HandlerInv(request[r])'
               /\ \A s \in Slots \ {r} : request'[s] = request[s]
               /\ request'[r].pc \notin BillingPCs
    BY <1>0, <1>1, <1>3, EndKeeps, IdleType DEF BillingPCs
  <1>4. request[r].pc # "idle" => student # "absent"
    BY DEF HandlerInv, PlaceInv
  <1>5. CASE BulkCheck(r)
    <2>1. request[r].op \notin {"update", "create"} /\ request[r].pc = "check"
      BY <1>5 DEF BulkCheck, At, HandlerInv, UpdateInv
    <2>2. PICK c \in request[r].todo :
            IF c \in Enrolled
            THEN Goto(r, Skip(r, c))
            ELSE Goto(r, [request[r] EXCEPT !.pc = "insert", !.class = c,
                                            !.todo = @ \ {c}])
      BY <1>5 DEF BulkCheck
    <2>3. CASE Goto(r, Skip(r, c))
      BY <1>2, <1>4, <2>1, <2>3, SkipKeeps
    <2>4. ASSUME Goto(r, [request[r] EXCEPT !.pc = "insert", !.class = c,
                                            !.todo = @ \ {c}])
          PROVE  /\ HandlerInv(request[r])'
                 /\ \A s \in Slots \ {r} : request'[s] = request[s]
                 /\ request'[r].pc \notin BillingPCs
      <3> DEFINE h == [request[r] EXCEPT !.pc = "insert", !.class = c,
                                         !.todo = @ \ {c}]
      <3>1. c \in Classes
        BY <1>0, <2>2 DEF Handlers
      <3>2. h \in Handlers
        BY <1>0, <3>1 DEF Handlers, RequestPCs
      <3>3. /\ h.pc = "insert" /\ h.class = c /\ h.op = request[r].op
            /\ h.row = request[r].row
        BY <1>0 DEF Handlers
      <3> HIDE DEF h
      <3>4. request'[r] = h
            /\ \A s \in Slots \ {r} : request'[s] = request[s]
        BY <1>1, <2>4, <3>2 DEF h
      <3> QED BY <1>0, <1>4, <2>1, <3>1, <3>3, <3>4
          DEF HandlerInv, PlaceInv, UpdateInv, RowInv, BillingPCs
    <2> QED BY <2>2, <2>3, <2>4
  <1>6. CASE CreateNext(r)
    <2>1. PICK c \in request[r].next :
            Goto(r, [request[r] EXCEPT !.pc = "insert", !.class = c,
                                       !.next = @ \ {c}])
      BY <1>6 DEF CreateNext
    <2> DEFINE g == request[r]
               h == [request[r] EXCEPT !.pc = "insert", !.class = c,
                                       !.next = @ \ {c}]
    <2>2. c \in Classes
      BY <1>0, <2>1 DEF Handlers
    <2>3. h \in Handlers
      BY <1>0, <2>2 DEF Handlers, RequestPCs
    <2>4. /\ h.pc = "insert" /\ h.class = c /\ h.op = g.op /\ h.want = g.want
          /\ h.next = g.next \ {c} /\ h.todo = g.todo /\ h.clean = g.clean
          /\ h.row = g.row
      BY <1>0 DEF Handlers
    <2>5. /\ g.op \in {"update", "create"} /\ g.todo = {}
          /\ g.next \subseteq g.want /\ g.pc = "create"
          /\ g.clean => Active = g.want \ g.next
          /\ g.row.status = "active"
      BY <1>6 DEF CreateNext, At, HandlerInv, UpdateInv
    <2> HIDE DEF h
    <2>6. request'[r] = h
          /\ \A s \in Slots \ {r} : request'[s] = request[s]
      BY <1>1, <2>1, <2>3 DEF h
    <2>7. UpdateInv(h, Active)
      BY <2>1, <2>4, <2>5 DEF UpdateInv, BillingPCs
    <2> QED BY <1>0, <1>4, <2>2, <2>4, <2>5, <2>6, <2>7
        DEF HandlerInv, PlaceInv, RowInv, BillingPCs
  <1>7. CASE RowRefused(r)
    <2>1. CASE Goto(r, IdleRequest)
      BY <1>3, <2>1
    <2>2. CASE Goto(r, AfterBill(r)) /\ request[r].op \in {"bulk", "classBulk"}
      BY <1>2, <1>4, <1>7, <2>2, AfterBillKeeps DEF RowRefused, At, BillingPCs
    <2> QED BY <1>7, <2>1, <2>2 DEF RowRefused
  <1>8. CASE BillRead(r)
    <2> DEFINE g == request[r]
    <2>1. g.pc = "billRead" /\ g.class \in Classes
      BY <1>8 DEF BillRead, At, HandlerInv, PlaceInv, BillingPCs
    <2>2. ASSUME NEW h \in Handlers, Goto(r, h), h.class = g.class,
                 h.op = g.op, h.todo = g.todo, h.next = g.next,
                 h.want = g.want, h.clean = g.clean, h.row = g.row,
                 h.pc \in {"billUpdate", "billCreate"},
                 h.pc = "billUpdate" =>
                    h.inv \in Invoices /\ invoice[h.inv] # "absent"
          PROVE  /\ HandlerInv(request[r])'
                 /\ \A s \in Slots \ {r} : request'[s] = request[s]
      <3>1. UpdateInv(h, Active)
        BY <2>1, <2>2 DEF HandlerInv, UpdateInv, BillingPCs
      <3>2. request'[r] = h
            /\ \A s \in Slots \ {r} : request'[s] = request[s]
        BY <1>1, <2>2
      <3> QED BY <1>0, <1>4, <2>1, <2>2, <3>1, <3>2
          DEF HandlerInv, PlaceInv, RowInv, BillingPCs
    <2>3. ASSUME Goto(r, [g EXCEPT !.pc = "billCreate"])
          PROVE  /\ HandlerInv(request[r])'
                 /\ \A s \in Slots \ {r} : request'[s] = request[s]
      <3> DEFINE h == [g EXCEPT !.pc = "billCreate"]
      <3>1. h \in Handlers
        BY <1>0, PlaceType DEF RequestPCs
      <3>2. /\ h.pc = "billCreate" /\ h.class = g.class /\ h.op = g.op
            /\ h.want = g.want /\ h.next = g.next /\ h.todo = g.todo
            /\ h.clean = g.clean /\ h.row = g.row
        BY <1>0 DEF Handlers
      <3> QED BY <2>2, <2>3, <3>1, <3>2
    <2>4. ASSUME NEW i \in Invoices, IsNewest(i),
                 Goto(r, [g EXCEPT !.pc = "billUpdate", !.inv = i,
                                   !.read = charge[i], !.sum = amount[i]])
          PROVE  /\ HandlerInv(request[r])'
                 /\ \A s \in Slots \ {r} : request'[s] = request[s]
      <3> DEFINE h == [g EXCEPT !.pc = "billUpdate", !.inv = i,
                                !.read = charge[i], !.sum = amount[i]]
      <3>1. charge[i] \in [Entries -> Nat] /\ amount[i] \in 0..MaxAmount
        BY DEF EnrollmentTypeOK
      <3>2. h \in Handlers
        BY <1>0, <3>1 DEF Handlers, RequestPCs
      <3>3. /\ h.pc = "billUpdate" /\ h.class = g.class /\ h.op = g.op
            /\ h.want = g.want /\ h.next = g.next /\ h.todo = g.todo
            /\ h.clean = g.clean /\ h.row = g.row /\ h.inv = i
        BY <1>0 DEF Handlers
      <3>4. invoice[i] # "absent"
        BY <2>4 DEF IsNewest, ThisMonth
      <3> QED BY <2>2, <2>4, <3>2, <3>3, <3>4
    <2> QED BY <1>8, <2>3, <2>4 DEF BillRead
  <1>9. CASE BillNothing(r)
    BY <1>2, <1>4, <1>9, AfterBillKeeps DEF BillNothing, At, BillingPCs
  <1>10. CASE BillFails(r)
    BY <1>2, <1>4, <1>10, AfterBillKeeps DEF BillFails, BillingPCs
  <1>11. CASE Answer(r)
    BY <1>3, <1>11 DEF Answer, Finish
  <1>12. CASE GenerateNothing(r)
    <2>1. request[r].op \notin {"update", "create"}
          /\ request[r].pc = "generate"
      BY <1>12 DEF GenerateNothing, At, HandlerInv, UpdateInv
    <2> QED BY <1>2, <1>4, <1>12, <2>1, SkipKeeps DEF GenerateNothing
  <1>13. CASE RequestFails(r)
    <2>1. CASE Goto(r, IdleRequest)
      BY <1>3, <2>1
    <2>2. CASE Goto(r, AfterBill(r)) /\ request[r].op = "bulk" /\ At(r, "insert")
      BY <1>2, <1>4, <2>2, AfterBillKeeps DEF At
    <2> QED BY <1>13, <2>1, <2>2 DEF RequestFails, Finish
  <1> QED BY <1>5, <1>6, <1>7, <1>8, <1>9, <1>10, <1>11, <1>12, <1>13
          DEF QuietStep

\* What every step leaves in place for the handlers that do not move.
Frame ==
    /\ student # "absent" => student' # "absent"
    /\ Enrolled \subseteq Enrolled'
    /\ \A i \in Invoices : invoice[i] # "absent" => invoice'[i] # "absent"

\* A write of an enrolment: the handler moves, the others are told.
LEMMA WriteInv ==
  ASSUME EnrollmentTypeOK, NEW r \in Slots,
         \A s \in Slots : HandlerInv(request[s]),
         InsertRow(r) \/ DropNext(r) \/ RowWrite(r)
  PROVE  /\ Frame /\ UNCHANGED <<student, classes, invoice, ledger, billed, exposed>>
         /\ HandlerInv(request[r])'
         /\ \A s \in Slots \ {r} :
               request'[s] = [request[s] EXCEPT !.clean = FALSE]
         /\ \/ request'[r].pc \notin BillingPCs
            \/ /\ request[r].class \in Classes \ Enrolled
               /\ Enrolled' = Enrolled \cup {request[r].class}
               /\ request'[r].pc = "billRead"
               /\ request'[r].class = request[r].class
  <1> DEFINE g == request[r]
             Moved(h) ==
               /\ request'[r] = h
               /\ \A s \in Slots \ {r} :
                     request'[s] = [request[s] EXCEPT !.clean = FALSE]
  <1>0. /\ g \in Handlers /\ IdleRequest \in Handlers
        /\ UNCHANGED <<student, classes, invoice, ledger, billed, exposed>>
        /\ HandlerInv(g)
    BY IdleType DEF EnrollmentTypeOK, InsertRow, DropNext, RowWrite, ledger
  <1>1. ASSUME NEW h \in Handlers, GotoAfterWrite(r, h)
        PROVE  Moved(h)
    BY <1>1, GotoAfterWriteMeans
  <1>2. g.pc # "idle" => student' # "absent"
    BY <1>0 DEF HandlerInv, PlaceInv
  <1>3. CASE InsertRow(r)
    <2> DEFINE c == g.class
    <2>1. g.pc = "insert" /\ c \in Classes \ Enrolled
          /\ enr' = [enr EXCEPT ![c] = g.row]
      BY <1>3 DEF InsertRow, At, HandlerInv, PlaceInv
    <2>2. /\ g.row.status # "none"
          /\ g.op \in {"update", "create"} => g.row.status = "active"
      BY <1>0, <2>1 DEF HandlerInv, UpdateInv
    <2>a. /\ Enrolled' = Enrolled \cup {c}
          /\ g.op \in {"update", "create"} => Active' = Active \cup {c}
      <3> HIDE DEF g, c
      <3> QED BY <2>1, <2>2 DEF Active, Enrolled, EnrollmentTypeOK
    <2>3. CASE g.op = "classBulk"
      <3>1. /\ AfterBill(r) \in Handlers /\ AfterBill(r).pc \in Between
            /\ UpdateInv(AfterBill(r), Active')
        BY <2>1, <2>3, AfterBillKeeps
      <3>2. GotoAfterWrite(r, AfterBill(r))
        BY <1>3, <2>3 DEF InsertRow
      <3>3. Moved(AfterBill(r))
        BY <1>1, <3>1, <3>2
      <3>4. HandlerInv(request[r])' /\ request'[r].pc \notin BillingPCs
        BY <1>2, <2>1, <3>1, <3>3, BetweenKeeps DEF Between
      <3> QED BY <1>0, <1>3, <2>1, <2>a, <3>3, <3>4 DEF Frame
    <2>4. CASE g.op # "classBulk"
      <3> DEFINE h == [g EXCEPT !.pc = "billRead"]
      <3>1. h \in Handlers
        BY <1>0, PlaceType DEF RequestPCs
      <3>2. /\ h.pc = "billRead" /\ h.class = g.class /\ h.op = g.op
            /\ h.want = g.want /\ h.next = g.next /\ h.todo = g.todo
            /\ h.clean = g.clean /\ h.row = g.row
        BY <1>0 DEF Handlers
      <3>3. GotoAfterWrite(r, h)
        BY <1>3, <2>4 DEF InsertRow
      <3>4. Moved(h)
        BY <1>1, <3>1, <3>3
      <3> HIDE DEF h
      <3>5. UpdateInv(h, Active')
        BY <1>0, <2>1, <2>2, <2>a, <3>2 DEF HandlerInv, UpdateInv, BillingPCs
      <3>6. HandlerInv(request[r])'
        BY <1>2, <2>1, <3>2, <3>4, <3>5
        DEF HandlerInv, PlaceInv, RowInv, BillingPCs
      <3> QED BY <1>0, <1>3, <2>1, <2>a, <3>2, <3>4, <3>6 DEF Frame
    <2> QED BY <2>3, <2>4
  <1>4. CASE DropNext(r)
    <2>1. PICK c \in g.todo : DropRow(c) /\ GotoAfterWrite(r, Skip(r, c))
      BY <1>4 DEF DropNext
    <2>2. c \in Classes /\ g.pc \in {"drop", "leave"}
      BY <1>0, <1>4, <2>1 DEF Handlers, DropNext, At
    <2>3. Active' = Active \ {c} /\ Enrolled \subseteq Enrolled'
      BY <2>1, <2>2 DEF DropRow, Active, Enrolled, EnrollmentTypeOK, Rows
    <2>4. PICK h \in Handlers :
            /\ Skip(r, c) = AtNext(h)
            /\ h.op = g.op /\ h.todo = g.todo \ {c}
            /\ h.next = g.next /\ h.want = g.want /\ h.clean = g.clean
            /\ h.row = g.row
      BY SkipMeans
    <2>5. Ready(h, Active')
      BY <1>0, <2>2, <2>3, <2>4 DEF Ready, HandlerInv, UpdateInv
    <2>6. /\ AtNext(h) \in Handlers /\ AtNext(h).pc \in Between
          /\ UpdateInv(AtNext(h), Active')
      BY <2>5, AtNextInv
    <2>7. Moved(AtNext(h))
      BY <1>1, <2>1, <2>4, <2>6
    <2>8. HandlerInv(request[r])' /\ request'[r].pc \notin BillingPCs
      BY <1>2, <2>2, <2>6, <2>7, BetweenKeeps DEF Between
    <2>9. Frame
      BY <1>0, <2>3 DEF Frame
    <2> QED BY <1>0, <2>7, <2>8, <2>9
  <1>5. CASE RowWrite(r)
    <2>1. /\ g.pc = "rowWrite" /\ g.class \in Classes
          /\ g.row.status # "none" /\ g.row \in Rows
          /\ enr' = [enr EXCEPT ![g.class] = g.row]
      BY <1>0, <1>5 DEF RowWrite, At, HandlerInv, PlaceInv, Enrolled, Handlers
    <2>2. Enrolled \subseteq Enrolled'
      BY <2>1 DEF Enrolled, EnrollmentTypeOK
    <2>3. Moved(IdleRequest)
      BY <1>0, <1>1, <1>5 DEF RowWrite
    <2>4. HandlerInv(request[r])' /\ request'[r].pc \notin BillingPCs
      BY <2>3, EndKeeps, IdleInv DEF BillingPCs
    <2>5. Frame
      BY <1>0, <2>2 DEF Frame
    <2> QED BY <1>0, <2>3, <2>4, <2>5
  <1> QED BY <1>3, <1>4, <1>5

\* A charge: the handler moves on, the others stay.
LEMMA ChargeInv ==
  ASSUME EnrollmentTypeOK, NEW r \in Slots, HandlerInv(request[r]),
         BillUpdate(r) \/ BillCreate(r)
  PROVE  /\ Frame /\ UNCHANGED <<student, enr>>
         /\ HandlerInv(request[r])' /\ request'[r].pc \notin BillingPCs
         /\ \A s \in Slots \ {r} : request'[s] = request[s]
  <1>1. request[r].pc \in BillingPCs /\ Goto(r, AfterBill(r))
    BY DEF BillUpdate, BillCreate, At, BillingPCs
  <1>2. /\ AfterBill(r) \in Handlers /\ AfterBill(r).pc \in Between
        /\ UpdateInv(AfterBill(r), Active)
    BY <1>1, AfterBillKeeps
  <1>3. UNCHANGED <<student, enr>> /\ Active' = Active /\ Enrolled' = Enrolled
    BY DEF BillUpdate, BillCreate, Active, Enrolled
  <1>4. student' # "absent"
    BY <1>1, <1>3 DEF HandlerInv, PlaceInv, BillingPCs
  <1>5. /\ request'[r] = AfterBill(r)
        /\ \A s \in Slots \ {r} : request'[s] = request[s]
    BY <1>1, <1>2, GotoMeans
  <1>6. \A i \in Invoices : invoice[i] # "absent" => invoice'[i] # "absent"
    BY DEF BillUpdate, BillCreate, EnrollmentTypeOK
  <1> QED BY <1>2, <1>3, <1>4, <1>5, <1>6, BetweenKeeps DEF Frame, Between

\* An invoice that has nothing to do with an enrolment's fee.
LEMMA AddInvoiceMeans ==
  ASSUME EnrollmentTypeOK, AddInvoice
  PROVE  /\ UNCHANGED <<student, classes, enr, history>> /\ Frame
         /\ \A i \in Invoices, c \in Classes : charge'[i][c] = charge[i][c]
  <1>1. PICK i \in Invoices :
            /\ invoice' = [invoice EXCEPT ![i] = "thisMonth"]
            /\ charge' = [charge EXCEPT ![i][None] = 1]
    BY DEF AddInvoice
  <1>2. \A j \in Invoices, c \in Classes : charge'[j][c] = charge[j][c]
    BY <1>1, EnrollmentAssumption DEF EnrollmentTypeOK
  <1>3. UNCHANGED <<student, classes, enr, history>> /\ Enrolled' = Enrolled
    BY DEF AddInvoice, Enrolled
  <1> QED BY <1>1, <1>2, <1>3 DEF Frame, EnrollmentTypeOK

\* The other steps: they raise no fee, and a handler that moves ends its
\* request or goes on with its loop.
OtherAction ==
    \/ \E r \in Slots : LeaveParents(r) \/ GenerateInvoice(r)
    \/ \E c \in Classes : RemoveEnrollment(c) \/ RemoveClass(c)
    \/ \E i \in Invoices : DeleteInvoice(i)
    \/ StaffInvoice \/ NextMonth

LEMMA OtherInv ==
  ASSUME EnrollmentTypeOK, \A s \in Slots : HandlerInv(request[s]), OtherAction
  PROVE  /\ Frame /\ UNCHANGED <<billed, exposed>>
         /\ student' = "absent" => Enrolled' = Enrolled
         /\ \A i \in Invoices, c \in Classes : charge'[i][c] = charge[i][c]
         /\ \A s \in Slots :
               \/ request'[s] = request[s] /\ UNCHANGED enr
               \/ request'[s] = [request[s] EXCEPT !.clean = FALSE]
               \/ HandlerInv(request[s])' /\ request'[s].pc \notin BillingPCs
  <1> DEFINE Kept ==
         /\ Frame /\ UNCHANGED <<billed, exposed>>
         /\ student' = "absent" => Enrolled' = Enrolled
         /\ \A i \in Invoices, c \in Classes : charge'[i][c] = charge[i][c]
         /\ \A s \in Slots :
               \/ request'[s] = request[s] /\ UNCHANGED enr
               \/ request'[s] = [request[s] EXCEPT !.clean = FALSE]
               \/ HandlerInv(request[s])' /\ request'[s].pc \notin BillingPCs
  <1>1. ASSUME NEW r \in Slots, LeaveParents(r) PROVE Kept
    <2>1. /\ request'[r] = IdleRequest
          /\ \A s \in Slots \ {r} : request'[s] = request[s]
      BY <1>1, IdleType, GotoMeans DEF LeaveParents, Finish
    <2>2. HandlerInv(request[r])' /\ request'[r].pc \notin BillingPCs
      BY <2>1, EndKeeps, IdleInv DEF BillingPCs
    <2>3. /\ student' \in {student, "removed"}
          /\ UNCHANGED <<enr, invoice, charge, billed, exposed>>
      BY <1>1 DEF LeaveParents, ledger, history
    <2> QED BY <2>1, <2>2, <2>3 DEF Frame, Enrolled
  <1>2. ASSUME NEW r \in Slots, GenerateInvoice(r) PROVE Kept
    <2>1. request[r].pc = "generate" /\ student' # "absent" /\ AddInvoice
      BY <1>2 DEF GenerateInvoice, At, AddInvoice
    <2>2. request[r].op \notin {"update", "create"}
      BY <2>1 DEF HandlerInv, UpdateInv
    <2>3. PICK c \in request[r].todo : Goto(r, Skip(r, c))
      BY <1>2 DEF GenerateInvoice
    <2>4. /\ Skip(r, c) \in Handlers /\ Skip(r, c).pc \in Between
          /\ UpdateInv(Skip(r, c), Active')
      BY <2>1, <2>2, SkipKeeps
    <2>5. /\ request'[r] = Skip(r, c)
          /\ \A s \in Slots \ {r} : request'[s] = request[s]
      BY <2>3, <2>4, GotoMeans
    <2>6. HandlerInv(request[r])' /\ request'[r].pc \notin BillingPCs
      BY <2>1, <2>4, <2>5, BetweenKeeps DEF Between
    <2> QED BY <2>1, <2>5, <2>6, AddInvoiceMeans DEF history
  <1>3. ASSUME NEW c \in Classes, RemoveEnrollment(c) PROVE Kept
    <2>1. c \in Enrolled /\ DropRow(c)
          /\ UNCHANGED <<student, invoice, charge, billed, exposed>>
      BY <1>3 DEF RemoveEnrollment, ledger
    <2>2. Enrolled' = Enrolled
      BY <2>1 DEF DropRow, Enrolled, EnrollmentTypeOK, Rows
    <2>3. \A s \in Slots : request'[s] = [request[s] EXCEPT !.clean = FALSE]
      BY <1>3 DEF RemoveEnrollment
    <2> QED BY <2>1, <2>2, <2>3 DEF Frame
  <1>4. ASSUME NEW c \in Classes, RemoveClass(c) PROVE Kept
    BY <1>4 DEF RemoveClass, ledger, history, Frame, Enrolled
  <1>5. ASSUME NEW i \in Invoices, DeleteInvoice(i) PROVE Kept
    BY <1>5
    DEF DeleteInvoice, ledger, history, Frame, Enrolled, EnrollmentTypeOK
  <1>6. CASE StaffInvoice
    BY <1>6, AddInvoiceMeans DEF StaffInvoice, history, Enrolled
  <1>7. CASE NextMonth
    BY <1>7
    DEF NextMonth, ledger, history, Frame, Enrolled, EnrollmentTypeOK
  <1> QED BY <1>1, <1>2, <1>3, <1>4, <1>5, <1>6, <1>7 DEF OtherAction

\* The five kinds of steps there are.
LEMMA NextCases ==
  ASSUME EnrollmentNext
  PROVE  \/ \E r \in Slots :
               \/ StartRequest(r) \/ QuietStep(r)
               \/ InsertRow(r) \/ DropNext(r) \/ RowWrite(r)
               \/ BillUpdate(r) \/ BillCreate(r)
         \/ OtherAction
  BY DEF EnrollmentNext, EnrollStep, BillStep, OtherStep, QuietStep,
         OtherAction

\* Every step keeps what the handlers rely on.
LEMMA HandlerStep ==
  ASSUME EnrollmentTypeOK, StudentInv,
         \A s \in Slots : HandlerInv(request[s]), EnrollmentNext
  PROVE  StudentInv' /\ \A s \in Slots : HandlerInv(request[s])'
  <1>1. ASSUME NEW r \in Slots, StartRequest(r)
        PROVE  StudentInv' /\ \A s \in Slots : HandlerInv(request[s])'
    <2>1. PICK h \in Handlers :
               /\ Goto(r, h) /\ h.pc \notin BillingPCs
               /\ UpdateInv(h, Active)
               /\ h.pc = "insert" => h.class \in Classes
               /\ h.pc = "rowWrite" =>
                     /\ h.class \in Enrolled /\ h.row.status # "none"
                     /\ h.op \in {"setStatus", "toggle"}
               /\ RowInv(h)
      BY <1>1, StartInv
    <2>2. UNCHANGED <<enr, invoice>> /\ student' # "absent"
      BY <1>1, StartInv
    <2>3. /\ request'[r] = h
          /\ \A s \in Slots \ {r} : request'[s] = request[s]
      BY <2>1, GotoMeans
    <2>4. Enrolled' = Enrolled /\ Active' = Active
      BY <2>2 DEF Enrolled, Active
    <2>5. HandlerInv(request[r])'
      BY <2>1, <2>2, <2>3, <2>4
      DEF HandlerInv, PlaceInv, RowInv, BillingPCs
    <2>6. \A s \in Slots \ {r} : HandlerInv(request[s])'
      BY <2>2, <2>3, <2>4, OthersKeep
    <2> QED BY <2>2, <2>5, <2>6 DEF StudentInv
  <1>2. ASSUME NEW r \in Slots, QuietStep(r)
        PROVE  StudentInv' /\ \A s \in Slots : HandlerInv(request[s])'
    <2>1. UNCHANGED <<student, enr, invoice>> /\ Enrolled' = Enrolled
      BY <1>2, QuietType DEF tables, Enrolled
    <2>2. HandlerInv(request[r])'
          /\ \A s \in Slots \ {r} : request'[s] = request[s]
      BY <1>2, QuietInv
    <2>3. \A s \in Slots \ {r} : HandlerInv(request[s])'
      BY <2>1, <2>2, OthersKeep
    <2> QED BY <2>1, <2>2, <2>3 DEF StudentInv
  <1>3. ASSUME NEW r \in Slots, InsertRow(r) \/ DropNext(r) \/ RowWrite(r)
        PROVE  StudentInv' /\ \A s \in Slots : HandlerInv(request[s])'
    <2>1. request[r].pc # "idle"
      BY <1>3 DEF InsertRow, DropNext, RowWrite, At
    <2>2. student # "absent"
      BY <2>1 DEF HandlerInv, PlaceInv
    <2>3. /\ Frame /\ HandlerInv(request[r])'
          /\ \A s \in Slots \ {r} :
                request'[s] = [request[s] EXCEPT !.clean = FALSE]
      BY <1>3, WriteInv
    <2>4. \A s \in Slots \ {r} : HandlerInv(request[s])'
      BY <2>3, OthersKeep DEF Frame
    <2> QED BY <2>2, <2>3, <2>4 DEF StudentInv, Frame
  <1>4. ASSUME NEW r \in Slots, BillUpdate(r) \/ BillCreate(r)
        PROVE  StudentInv' /\ \A s \in Slots : HandlerInv(request[s])'
    <2>1. /\ Frame /\ HandlerInv(request[r])' /\ UNCHANGED <<student, enr>>
          /\ \A s \in Slots \ {r} : request'[s] = request[s]
      BY <1>4, ChargeInv
    <2>2. \A s \in Slots \ {r} : HandlerInv(request[s])'
      BY <2>1, OthersKeep DEF Frame
    <2> QED BY <2>1, <2>2 DEF StudentInv, Enrolled
  <1>5. CASE OtherAction
    <2>1. /\ Frame
          /\ student' = "absent" => Enrolled' = Enrolled
          /\ \A s \in Slots :
               \/ request'[s] = request[s] /\ UNCHANGED enr
               \/ request'[s] = [request[s] EXCEPT !.clean = FALSE]
               \/ HandlerInv(request[s])'
      BY <1>5, OtherInv
    <2>2. \A s \in Slots : HandlerInv(request[s])'
      BY <2>1, OthersKeep DEF Frame
    <2> QED BY <2>1, <2>2 DEF StudentInv, Frame
  <1> QED BY <1>1, <1>2, <1>3, <1>4, <1>5, NextCases

-----------------------------------------------------------------------------
(***************************************************************************)
(* The fees.                                                               *)
(***************************************************************************)

\* The handler at s is as far with its billing as it was, or not billing.
SameBilling(s) ==
    \/ request'[s].pc \notin BillingPCs
    \/ /\ request'[s].pc = request[s].pc /\ request'[s].class = request[s].class
       /\ request'[s].inv = request[s].inv /\ request'[s].read = request[s].read

\* The fees of the classes are where they were.
SameFees ==
    /\ UNCHANGED <<billed, exposed>>
    /\ \A i \in Invoices, c \in Classes : charge'[i][c] = charge[i][c]

\* A handler a write was told to is as far with its billing as it was.
LEMMA ToldIsSame ==
  ASSUME EnrollmentTypeOK, NEW s \in Slots,
         \/ request'[s] = request[s]
         \/ request'[s] = [request[s] EXCEPT !.clean = FALSE]
  PROVE  SameBilling(s)
  <1>1. request[s] \in Handlers
    BY DEF EnrollmentTypeOK
  <1> QED BY <1>1 DEF SameBilling, Handlers

\* A step that neither charges nor lets a handler begin to bill.
LEMMA MoneyKept ==
  ASSUME EnrollmentTypeOK, MoneyInv, Enrolled \subseteq Enrolled', SameFees,
         \A s \in Slots : HandlerInv(request[s]) /\ SameBilling(s)
  PROVE  MoneyInv'
  <1>1. ASSUME NEW s \in Slots, NEW c \in Classes, Bills(s, c)'
        PROVE  Bills(s, c)
    BY <1>1 DEF Bills, SameBilling
  <1>2. ASSUME NEW s \in Slots, Updates(s)'
        PROVE  /\ Updates(s) /\ request'[s].inv = request[s].inv
               /\ request'[s].read = request[s].read
               /\ request[s].inv \in Invoices
    BY <1>2 DEF Updates, SameBilling, BillingPCs, HandlerInv, PlaceInv
  <1>3. /\ UNCHANGED <<billed, exposed>>
        /\ \A i \in Invoices, c \in Classes : charge'[i][c] = charge[i][c]
    BY DEF SameFees
  <1>4. BillingInv'
    BY <1>1, <1>2, <1>3 DEF MoneyInv, BillingInv
  <1>5. ReadInv'
    <2> SUFFICES ASSUME NEW r \in Slots, NEW c \in Classes, Updates(r)'
                 PROVE  ReadOf(r, c)'
      BY DEF ReadInv
    <2>1. Updates(r) /\ ReadOf(r, c)
      BY <1>2 DEF MoneyInv, ReadInv
    <2>2. request'[r].inv \in Invoices
      BY <1>2
    <2> QED BY <1>2, <1>3, <2>1, <2>2 DEF ReadOf
  <1>6. NoDoubleCharge'
    BY <1>3 DEF MoneyInv, NoDoubleCharge
  <1>7. ChargedUnlessOverlapped'
    BY <1>3 DEF MoneyInv, ChargedUnlessOverlapped, EnrollmentTypeOK
  <1> QED BY <1>4, <1>5, <1>6, <1>7 DEF MoneyInv

\* The one who inserted the row begins to bill: nobody billed the class yet.
LEMMA BeginToBill ==
  ASSUME EnrollmentTypeOK, MoneyInv, SameFees, NEW r \in Slots,
         NEW c \in Classes \ Enrolled, Enrolled' = Enrolled \cup {c},
         \A s \in Slots : HandlerInv(request[s]),
         \A s \in Slots \ {r} : SameBilling(s),
         request'[r].pc = "billRead", request'[r].class = c
  PROVE  MoneyInv'
  <1>1. ASSUME NEW s \in Slots, NEW d \in Classes, Bills(s, d)'
        PROVE  (Bills(s, d) /\ d # c) \/ (s = r /\ d = c)
    BY <1>1 DEF Bills, SameBilling, MoneyInv, BillingInv
  <1>2. ASSUME NEW s \in Slots, Updates(s)'
        PROVE  /\ Updates(s) /\ request'[s].inv = request[s].inv
               /\ request'[s].read = request[s].read
               /\ request[s].inv \in Invoices
    BY <1>2 DEF Updates, SameBilling, BillingPCs, HandlerInv, PlaceInv
  <1>3. /\ UNCHANGED <<billed, exposed>>
        /\ \A i \in Invoices, d \in Classes : charge'[i][d] = charge[i][d]
    BY DEF SameFees
  <1>4. BillingInv'
    BY <1>1, <1>2, <1>3 DEF MoneyInv, BillingInv
  <1>5. ReadInv'
    <2> SUFFICES ASSUME NEW s \in Slots, NEW d \in Classes, Updates(s)'
                 PROVE  ReadOf(s, d)'
      BY DEF ReadInv
    <2>1. Updates(s) /\ ReadOf(s, d)
      BY <1>2 DEF MoneyInv, ReadInv
    <2>2. request'[s].inv \in Invoices
      BY <1>2
    <2> QED BY <1>2, <1>3, <2>1, <2>2 DEF ReadOf
  <1>6. NoDoubleCharge'
    BY <1>3 DEF MoneyInv, NoDoubleCharge
  <1>7. ChargedUnlessOverlapped'
    BY <1>3 DEF MoneyInv, ChargedUnlessOverlapped, EnrollmentTypeOK
  <1> QED BY <1>4, <1>5, <1>6, <1>7 DEF MoneyInv

\* A handler reads the invoice it is about to write: it sees what is there.
LEMMA ReadsInvoice ==
  ASSUME EnrollmentTypeOK, MoneyInv, NEW r \in Slots, BillRead(r),
         \A s \in Slots : HandlerInv(request[s])
  PROVE  MoneyInv'
  <1>1. /\ UNCHANGED <<enr, charge, billed, exposed>> /\ Enrolled' = Enrolled
        /\ request[r] \in Handlers /\ request[r].pc = "billRead"
    BY DEF BillRead, tables, history, Enrolled, EnrollmentTypeOK, At
  <1>2. CASE Goto(r, [request[r] EXCEPT !.pc = "billCreate"])
    <2> DEFINE h == [request[r] EXCEPT !.pc = "billCreate"]
    <2>1. h \in Handlers /\ h.pc = "billCreate" /\ h.class = request[r].class
      BY <1>1 DEF Handlers, RequestPCs
    <2>2. /\ request'[r] = h
          /\ \A s \in Slots \ {r} : request'[s] = request[s]
      BY <1>2, <2>1, GotoMeans
    <2> HIDE DEF h
    <2>3. \A s \in Slots, c \in Classes : Bills(s, c)' <=> Bills(s, c)
      BY <1>1, <2>1, <2>2 DEF Bills, BillingPCs
    <2>4. \A s \in Slots : Updates(s)' =>
             Updates(s) /\ request'[s] = request[s]
      BY <1>1, <2>1, <2>2 DEF Updates
    <2>5. BillingInv' /\ ReadInv'
      BY <1>1, <2>3, <2>4 DEF MoneyInv, BillingInv, ReadInv, ReadOf
    <2> QED BY <1>1, <2>5
        DEF MoneyInv, NoDoubleCharge, ChargedUnlessOverlapped
  <1>3. ASSUME NEW i \in Invoices,
               Goto(r, [request[r] EXCEPT !.pc = "billUpdate", !.inv = i,
                                    !.read = charge[i], !.sum = amount[i]])
        PROVE  MoneyInv'
    <2> DEFINE h == [request[r] EXCEPT !.pc = "billUpdate", !.inv = i,
                                       !.read = charge[i], !.sum = amount[i]]
    <2>1. /\ h.pc = "billUpdate" /\ h.class = request[r].class /\ h.inv = i
          /\ h.read = charge[i] /\ h \in Handlers
      <3>1. charge[i] \in [Entries -> Nat] /\ amount[i] \in 0..MaxAmount
        BY DEF EnrollmentTypeOK
      <3> QED BY <1>1, <3>1 DEF Handlers, RequestPCs
    <2>2. /\ request'[r] = h
          /\ \A s \in Slots \ {r} : request'[s] = request[s]
      BY <1>3, <2>1, GotoMeans
    <2> HIDE DEF h
    <2>3. \A s \in Slots, c \in Classes : Bills(s, c)' <=> Bills(s, c)
      BY <1>1, <2>1, <2>2 DEF Bills, BillingPCs
    <2>4. \A s \in Slots \ {r} : Updates(s)' =>
             Updates(s) /\ request'[s] = request[s]
      BY <2>2 DEF Updates
    <2>5. BillingInv'
      BY <1>1, <2>1, <2>2, <2>3, <2>4 DEF MoneyInv, BillingInv
    <2>6. ASSUME NEW s \in Slots, NEW c \in Classes, Updates(s)'
          PROVE  ReadOf(s, c)'
      <3>1. charge[i][c] \in Nat /\ charge[i][c] <= 1
        BY DEF MoneyInv, NoDoubleCharge, EnrollmentTypeOK, Entries
      <3>2. \A j \in Invoices : charge[i][c] = 1 /\ charge[j][c] = 1 => i = j
        BY DEF MoneyInv, NoDoubleCharge
      <3>3. CASE s = r
        <4>1. \A q \in Slots \ {r} :
                 Updates(q) /\ request[q].read[c] = 1 /\ charge[i][c] = 1 =>
                    request[q].inv = i
          BY DEF MoneyInv, ReadInv, ReadOf
        <4> QED BY <1>1, <2>1, <2>2, <2>4, <3>1, <3>2, <3>3, <4>1 DEF ReadOf
      <3>4. CASE s # r
        <4>1. Updates(s) /\ ReadOf(s, c) /\ request'[s] = request[s]
          BY <2>4, <2>6, <3>4 DEF MoneyInv, ReadInv
        <4> QED BY <1>1, <2>1, <2>2, <2>4, <4>1 DEF ReadOf
      <3> QED BY <3>3, <3>4
    <2>7. ReadInv'
      BY <2>6 DEF ReadInv
    <2> QED BY <1>1, <2>5, <2>7
        DEF MoneyInv, NoDoubleCharge, ChargedUnlessOverlapped
  <1> QED BY <1>2, <1>3 DEF BillRead

\* Who bills after a charge: the others, and none the class just charged.
LEMMA BillersAfterCharge ==
  ASSUME EnrollmentTypeOK, MoneyInv, NEW r \in Slots,
         \A s \in Slots : HandlerInv(request[s]),
         BillUpdate(r) \/ BillCreate(r)
  PROVE  /\ request[r].class \in Classes /\ Bills(r, request[r].class)
         /\ Enrolled' = Enrolled
         /\ \A s \in Slots, d \in Classes :
               Bills(s, d)' => Bills(s, d) /\ d # request[r].class
         /\ \A s \in Slots : Updates(s)' =>
               s # r /\ Updates(s) /\ request'[s] = request[s]
  <1>1. request[r].pc \in BillingPCs
    BY DEF BillUpdate, BillCreate, At, BillingPCs
  <1>2. request[r].class \in Classes /\ Bills(r, request[r].class)
    BY <1>1 DEF HandlerInv, PlaceInv, Bills
  <1>3. /\ UNCHANGED enr /\ request'[r].pc \notin BillingPCs
        /\ \A s \in Slots \ {r} : request'[s] = request[s]
    BY ChargeInv
  <1>4. ASSUME NEW s \in Slots, NEW d \in Classes, Bills(s, d)'
        PROVE  Bills(s, d) /\ d # request[r].class
    <2>1. s # r /\ Bills(s, d)
      BY <1>3, <1>4 DEF Bills
    <2> QED BY <1>2, <2>1 DEF MoneyInv, BillingInv
  <1>5. ASSUME NEW s \in Slots, Updates(s)'
        PROVE  s # r /\ Updates(s) /\ request'[s] = request[s]
    BY <1>3, <1>5 DEF Updates, BillingPCs
  <1> QED BY <1>2, <1>3, <1>4, <1>5 DEF Enrolled

\* Writing back the amount that was read, with the fee.
LEMMA ChargesMore ==
  ASSUME EnrollmentTypeOK, MoneyInv, NEW r \in Slots, BillUpdate(r),
         \A s \in Slots : HandlerInv(request[s])
  PROVE  MoneyInv'
  <1> DEFINE h == request[r]
             i == h.inv
             c == h.class
  <1>1. /\ i \in Invoices /\ c \in Classes /\ h \in Handlers /\ Updates(r)
        /\ Bills(r, c) /\ h.read \in [Entries -> Nat] /\ c \in Entries
    BY BillersAfterCharge
    DEF BillUpdate, At, HandlerInv, PlaceInv, Updates, EnrollmentTypeOK,
        Handlers, Entries
  <1>2. /\ charge' = [charge EXCEPT ![i] = [h.read EXCEPT ![c] = @ + 1]]
        /\ billed' = billed \cup {c}
        /\ exposed \subseteq exposed'
        /\ \A s \in Slots \ {r} :
              Updates(s) /\ request[s].inv = i => c \in exposed'
        /\ exposed' \subseteq exposed \cup {c}
    BY DEF BillUpdate, At, Updates
  <1>3. /\ \A j \in Invoices : charge[j][c] = 0
        /\ \A s \in Slots : Updates(s) => request[s].read[c] = 0
    BY <1>1 DEF MoneyInv, BillingInv
  <1>4. /\ charge'[i][c] = 1
        /\ \A d \in Classes \ {c} : charge'[i][d] = h.read[d]
        /\ \A j \in Invoices \ {i}, d \in Classes : charge'[j][d] = charge[j][d]
    BY <1>1, <1>2, <1>3 DEF EnrollmentTypeOK, Entries
  <1>5. /\ Enrolled' = Enrolled
        /\ \A s \in Slots, d \in Classes : Bills(s, d)' => Bills(s, d) /\ d # c
        /\ \A s \in Slots : Updates(s)' =>
               s # r /\ Updates(s) /\ request'[s] = request[s]
    BY BillersAfterCharge
  <1>6. \A d \in Classes : ReadOf(r, d)
    BY <1>1 DEF MoneyInv, ReadInv
  <1>7. \A j, k \in Invoices, d \in Classes :
           /\ charge[j][d] <= 1
           /\ charge[j][d] = 1 /\ charge[k][d] = 1 => j = k
    BY DEF MoneyInv, NoDoubleCharge
  <1> HIDE DEF h, i, c
  <1>8. BillingInv'
    <2>1. ASSUME NEW s \in Slots, NEW d \in Classes, Bills(s, d)'
          PROVE  d \in Enrolled'
      BY <1>5, <2>1 DEF MoneyInv, BillingInv
    <2>2. ASSUME NEW s \in Slots, NEW q \in Slots, NEW d \in Classes,
                 Bills(s, d)', Bills(q, d)'
          PROVE  s = q
      BY <1>5, <2>2 DEF MoneyInv, BillingInv
    <2>3. ASSUME NEW d \in Classes,
                 d \notin Enrolled' \/ (\E s \in Slots : Bills(s, d)')
          PROVE  /\ d \notin billed'
                 /\ \A j \in Invoices : charge'[j][d] = 0
                 /\ \A s \in Slots : Updates(s)' => request'[s].read[d] = 0
      <3>1. d # c /\ (d \notin Enrolled \/ \E s \in Slots : Bills(s, d))
        BY <1>1, <1>5, <2>3 DEF MoneyInv, BillingInv
      <3>2. /\ d \notin billed /\ \A j \in Invoices : charge[j][d] = 0
            /\ \A s \in Slots : Updates(s) => request[s].read[d] = 0
        BY <3>1 DEF MoneyInv, BillingInv
      <3> QED BY <1>1, <1>2, <1>4, <1>5, <3>1, <3>2 DEF h
    <2> QED BY <2>1, <2>2, <2>3 DEF BillingInv
  <1>9. ReadInv'
    <2> SUFFICES ASSUME NEW s \in Slots, NEW d \in Classes, Updates(s)'
                 PROVE  ReadOf(s, d)'
      BY DEF ReadInv
    <2>1. s # r /\ Updates(s) /\ request'[s] = request[s]
      BY <1>5
    <2>2. request[s].inv \in Invoices /\ ReadOf(s, d)
      BY <2>1 DEF MoneyInv, ReadInv, HandlerInv, PlaceInv, Updates
    <2>3. CASE d = c
      BY <1>1, <1>2, <1>3, <1>4, <1>5, <2>1, <2>2, <2>3 DEF ReadOf
    <2>4. CASE d # c
      <3>1. request[s].read[d] <= 1
        BY <2>2 DEF ReadOf
      <3>2. ASSUME NEW j \in Invoices, request[s].read[d] = 1,
                   charge'[j][d] = 1
            PROVE  request[s].inv = j
        <4>1. CASE j = i
          BY <1>1, <1>4, <1>6, <2>1, <2>4, <3>2, <4>1 DEF ReadOf, h, i
        <4>2. CASE j # i
          BY <1>4, <2>2, <3>2, <4>2 DEF ReadOf
        <4> QED BY <4>1, <4>2
      <3>3. ASSUME NEW q \in Slots, Updates(q)', request[s].read[d] = 1,
                   request'[q].read[d] = 1
            PROVE  request'[q].inv = request[s].inv
        BY <1>5, <2>1, <2>2, <3>3 DEF ReadOf
      <3>4. ASSUME d \notin exposed'
            PROVE  request[s].read[d] = charge'[request[s].inv][d]
        <4>1. d \notin exposed
          BY <1>2, <3>4
        <4>2. request[s].read[d] = charge[request[s].inv][d]
          BY <2>2, <4>1 DEF ReadOf
        <4>3. h.read[d] = charge[i][d]
          BY <1>6, <4>1 DEF ReadOf, h, i
        <4> QED BY <1>4, <2>2, <2>4, <4>2, <4>3
      <3> QED BY <2>1, <3>1, <3>2, <3>3, <3>4 DEF ReadOf
    <2> QED BY <2>3, <2>4
  <1>10. NoDoubleCharge'
    <2> SUFFICES ASSUME NEW d \in Classes, NEW j \in Invoices, NEW k \in Invoices
                 PROVE  /\ charge'[j][d] <= 1
                        /\ charge'[j][d] = 1 /\ charge'[k][d] = 1 => j = k
      BY DEF NoDoubleCharge
    <2>1. CASE d = c
      BY <1>3, <1>4, <2>1
    <2>2. CASE d # c
      <3>1. h.read[d] <= 1
            /\ \A l \in Invoices : h.read[d] = 1 /\ charge[l][d] = 1 => i = l
        BY <1>6 DEF ReadOf, h, i
      <3> QED BY <1>4, <1>7, <2>2, <3>1
    <2> QED BY <2>1, <2>2
  <1>11. ChargedUnlessOverlapped'
    <2> SUFFICES ASSUME NEW d \in Classes, d \in billed' \ exposed'
                 PROVE  \E j \in Invoices : charge'[j][d] = 1
      BY <1>1, <1>2 DEF ChargedUnlessOverlapped, EnrollmentTypeOK
    <2>1. CASE d = c
      BY <1>1, <1>4, <2>1
    <2>2. CASE d # c
      <3>1. PICK j \in Invoices : charge[j][d] = 1
        BY <1>2, <2>2 DEF MoneyInv, ChargedUnlessOverlapped
      <3>2. h.read[d] = charge[i][d]
        BY <1>2, <1>6 DEF ReadOf, h, i
      <3> QED BY <1>1, <1>4, <2>2, <3>1, <3>2
    <2> QED BY <2>1, <2>2
  <1> QED BY <1>8, <1>9, <1>10, <1>11 DEF MoneyInv

\* Making the invoice of the month with the fee.
LEMMA ChargesFirst ==
  ASSUME EnrollmentTypeOK, MoneyInv, NEW r \in Slots, BillCreate(r),
         \A s \in Slots : HandlerInv(request[s])
  PROVE  MoneyInv'
  <1> DEFINE c == request[r].class
  <1>1. c \in Classes /\ Bills(r, c) /\ c \in Entries
    BY BillersAfterCharge DEF Entries
  <1>2. PICK i \in Invoices :
            invoice[i] = "absent" /\ charge' = [charge EXCEPT ![i][c] = 1]
    BY DEF BillCreate, IsNext
  <1>3. billed' = billed \cup {c} /\ exposed' = exposed
    BY DEF BillCreate
  <1>4. /\ \A j \in Invoices : charge[j][c] = 0
        /\ \A s \in Slots : Updates(s) => request[s].read[c] = 0
    BY <1>1 DEF MoneyInv, BillingInv
  <1>5. /\ charge'[i][c] = 1
        /\ \A j \in Invoices \ {i} : charge'[j][c] = 0
        /\ \A j \in Invoices, d \in Classes \ {c} : charge'[j][d] = charge[j][d]
    BY <1>1, <1>2, <1>4 DEF EnrollmentTypeOK, Entries
  <1>6. /\ Enrolled' = Enrolled
        /\ \A s \in Slots, d \in Classes : Bills(s, d)' => Bills(s, d) /\ d # c
        /\ \A s \in Slots : Updates(s)' =>
               Updates(s) /\ request'[s] = request[s]
    BY BillersAfterCharge
  <1>7. \A s \in Slots : Updates(s) =>
            request[s].inv \in Invoices /\ request[s].inv # i
    BY <1>2 DEF Updates, HandlerInv, PlaceInv
  <1>8. \A j, k \in Invoices, d \in Classes :
           /\ charge[j][d] <= 1
           /\ charge[j][d] = 1 /\ charge[k][d] = 1 => j = k
    BY DEF MoneyInv, NoDoubleCharge
  <1> HIDE DEF c
  <1>9. BillingInv'
    <2>1. ASSUME NEW s \in Slots, NEW d \in Classes, Bills(s, d)'
          PROVE  d \in Enrolled'
      BY <1>6, <2>1 DEF MoneyInv, BillingInv
    <2>2. ASSUME NEW s \in Slots, NEW q \in Slots, NEW d \in Classes,
                 Bills(s, d)', Bills(q, d)'
          PROVE  s = q
      BY <1>6, <2>2 DEF MoneyInv, BillingInv
    <2>3. ASSUME NEW d \in Classes,
                 d \notin Enrolled' \/ (\E s \in Slots : Bills(s, d)')
          PROVE  /\ d \notin billed'
                 /\ \A j \in Invoices : charge'[j][d] = 0
                 /\ \A s \in Slots : Updates(s)' => request'[s].read[d] = 0
      <3>1. d # c /\ (d \notin Enrolled \/ \E s \in Slots : Bills(s, d))
        BY <1>1, <1>6, <2>3 DEF MoneyInv, BillingInv
      <3>2. /\ d \notin billed /\ \A j \in Invoices : charge[j][d] = 0
            /\ \A s \in Slots : Updates(s) => request[s].read[d] = 0
        BY <3>1 DEF MoneyInv, BillingInv
      <3> QED BY <1>3, <1>5, <1>6, <3>1, <3>2
    <2> QED BY <2>1, <2>2, <2>3 DEF BillingInv
  <1>10. ReadInv'
    <2> SUFFICES ASSUME NEW s \in Slots, NEW d \in Classes, Updates(s)'
                 PROVE  ReadOf(s, d)'
      BY DEF ReadInv
    <2>1. /\ Updates(s) /\ request'[s] = request[s] /\ ReadOf(s, d)
          /\ request[s].inv \in Invoices \ {i}
      BY <1>6, <1>7 DEF MoneyInv, ReadInv
    <2>2. CASE d = c
      BY <1>3, <1>4, <1>5, <1>6, <2>1, <2>2 DEF ReadOf
    <2>3. CASE d # c
      BY <1>3, <1>5, <1>6, <2>1, <2>3 DEF ReadOf
    <2> QED BY <2>2, <2>3
  <1>11. NoDoubleCharge'
    <2> SUFFICES ASSUME NEW d \in Classes, NEW j \in Invoices, NEW k \in Invoices
                 PROVE  /\ charge'[j][d] <= 1
                        /\ charge'[j][d] = 1 /\ charge'[k][d] = 1 => j = k
      BY DEF NoDoubleCharge
    <2> QED BY <1>5, <1>8
  <1>12. ChargedUnlessOverlapped'
    <2> SUFFICES ASSUME NEW d \in Classes, d \in billed' \ exposed'
                 PROVE  \E j \in Invoices : charge'[j][d] = 1
      BY <1>1, <1>3 DEF ChargedUnlessOverlapped, EnrollmentTypeOK
    <2>1. CASE d = c
      BY <1>5, <2>1
    <2>2. CASE d # c
      BY <1>3, <1>5, <2>2 DEF MoneyInv, ChargedUnlessOverlapped
    <2> QED BY <2>1, <2>2
  <1> QED BY <1>9, <1>10, <1>11, <1>12 DEF MoneyInv

\* The fees are kept by every step.
LEMMA MoneyStep ==
  ASSUME EnrollmentTypeOK, StudentInv, MoneyInv,
         \A s \in Slots : HandlerInv(request[s]), EnrollmentNext
  PROVE  MoneyInv'
  <1>1. ASSUME NEW r \in Slots, StartRequest(r) PROVE MoneyInv'
    <2>1. PICK h \in Handlers : Goto(r, h) /\ h.pc \notin BillingPCs
      BY <1>1, StartInv
    <2>2. UNCHANGED <<enr, charge, billed, exposed>>
      BY <1>1, StartInv DEF ledger, history
    <2>3. \A s \in Slots : SameBilling(s)
      BY <2>1, GotoMeans DEF SameBilling
    <2>4. SameFees /\ Enrolled' = Enrolled
      BY <2>2 DEF SameFees, Enrolled
    <2> QED BY <2>3, <2>4, MoneyKept
  <1>2. ASSUME NEW r \in Slots, QuietStep(r) PROVE MoneyInv'
    <2>1. CASE BillRead(r)
      BY <2>1, ReadsInvoice
    <2>2. CASE ~BillRead(r)
      <3>1. \A s \in Slots : SameBilling(s)
        BY <1>2, <2>2, QuietInv DEF SameBilling
      <3>2. SameFees /\ Enrolled' = Enrolled
        BY <1>2, QuietType DEF SameFees, Enrolled, tables, history
      <3> QED BY <3>1, <3>2, MoneyKept
    <2> QED BY <2>1, <2>2
  <1>3. ASSUME NEW r \in Slots, InsertRow(r) \/ DropNext(r) \/ RowWrite(r)
        PROVE  MoneyInv'
    <2>1. /\ Frame
          /\ UNCHANGED <<student, classes, invoice, ledger, billed, exposed>>
          /\ \A s \in Slots \ {r} :
                request'[s] = [request[s] EXCEPT !.clean = FALSE]
          /\ \/ request'[r].pc \notin BillingPCs
             \/ /\ request[r].class \in Classes \ Enrolled
                /\ Enrolled' = Enrolled \cup {request[r].class}
                /\ request'[r].pc = "billRead"
                /\ request'[r].class = request[r].class
      BY <1>3, WriteInv
    <2>2. SameFees /\ \A s \in Slots \ {r} : SameBilling(s)
      BY <2>1, ToldIsSame DEF SameFees, ledger
    <2>3. CASE request'[r].pc \notin BillingPCs
      BY <2>1, <2>2, <2>3, MoneyKept DEF SameBilling, Frame
    <2>4. CASE request'[r].pc \in BillingPCs
      BY <2>1, <2>2, <2>4, BeginToBill
    <2> QED BY <2>3, <2>4
  <1>4. ASSUME NEW r \in Slots, BillUpdate(r) \/ BillCreate(r) PROVE MoneyInv'
    BY <1>4, ChargesMore, ChargesFirst
  <1>5. CASE OtherAction
    <2>1. \A s \in Slots : SameBilling(s)
      BY <1>5, OtherInv, ToldIsSame DEF SameBilling
    <2>2. SameFees /\ Enrolled \subseteq Enrolled'
      BY <1>5, OtherInv DEF SameFees, Frame
    <2> QED BY <2>1, <2>2, MoneyKept
  <1> QED BY <1>1, <1>2, <1>3, <1>4, <1>5, NextCases

-----------------------------------------------------------------------------
(***************************************************************************)
(* The rows.                                                               *)
(***************************************************************************)

\* Every write of a row writes what is asked of it, or the row is raced.
LEMMA RowsStep ==
  ASSUME EnrollmentTypeOK, RowsAsAsked,
         \A s \in Slots : HandlerInv(request[s]), EnrollmentNext
  PROVE  RowsAsAsked'
  <1>1. ASSUME UNCHANGED <<enr, asked, raced>> PROVE RowsAsAsked'
    BY <1>1 DEF RowsAsAsked
  <1>2. ASSUME NEW c \in Classes, DropRow(c), UNCHANGED raced
        PROVE  RowsAsAsked'
    BY <1>2 DEF DropRow, RowsAsAsked, EnrollmentTypeOK
  <1>3. ASSUME NEW r \in Slots, StartRequest(r) PROVE UNCHANGED <<enr, asked, raced>>
    BY <1>3
    DEF StartRequest, StartEnroll, StartClassBulk, StartBulk,
        StartCreateStudent, StartUpdate, StartLeave, StartGenerate,
        StartSetStatus, StartToggle, tables, history
  <1>4. ASSUME NEW r \in Slots, QuietStep(r) PROVE UNCHANGED <<enr, asked, raced>>
    BY <1>4, QuietType DEF tables, history
  <1>5. ASSUME NEW r \in Slots, InsertRow(r) PROVE RowsAsAsked'
    BY <1>5 DEF InsertRow, RowsAsAsked, EnrollmentTypeOK
  <1>6. ASSUME NEW r \in Slots, DropNext(r) PROVE RowsAsAsked'
    <2>1. PICK c \in request[r].todo : DropRow(c)
      BY <1>6 DEF DropNext
    <2>2. c \in Classes /\ UNCHANGED raced
      BY <1>6, <2>1 DEF DropNext, EnrollmentTypeOK, Handlers
    <2> QED BY <1>2, <2>1, <2>2
  <1>7. ASSUME NEW r \in Slots, RowWrite(r) PROVE RowsAsAsked'
    <2> DEFINE h == request[r]
               c == h.class
    <2>1. /\ c \in Classes /\ RowInv(h)
          /\ h.op \in {"setStatus", "toggle"} /\ h.pc = "rowWrite"
      BY <1>7 DEF RowWrite, At, HandlerInv, PlaceInv, Enrolled
    <2>2. /\ enr' = [enr EXCEPT ![c] = h.row]
          /\ asked' = IF h.op = "toggle"
                      THEN [asked EXCEPT ![c].granted = h.row.granted]
                      ELSE [asked EXCEPT ![c].status = h.row.status]
          /\ raced' = IF h.clean THEN raced ELSE raced \cup {c}
      BY <1>7 DEF RowWrite
    <2> HIDE DEF h, c
    <2>3. \A d \in Classes \ {c} : enr'[d] = enr[d] /\ asked'[d] = asked[d]
      BY <2>1, <2>2 DEF EnrollmentTypeOK
    <2>4. ASSUME c \notin raced' PROVE enr'[c] = asked'[c]
      <3>1. h.clean /\ enr[c] = asked[c]
        BY <2>1, <2>2, <2>4 DEF RowsAsAsked
      <3>2. h.row = IF h.op = "toggle"
                    THEN [enr[c] EXCEPT !.granted = h.row.granted]
                    ELSE [enr[c] EXCEPT !.status = h.row.status]
        BY <2>1, <3>1 DEF RowInv, c
      <3>3. enr'[c] = h.row
        BY <2>1, <2>2 DEF EnrollmentTypeOK
      <3>4. asked'[c] = IF h.op = "toggle"
                        THEN [asked[c] EXCEPT !.granted = h.row.granted]
                        ELSE [asked[c] EXCEPT !.status = h.row.status]
        BY <2>1, <2>2 DEF EnrollmentTypeOK
      <3> QED BY <3>1, <3>2, <3>3, <3>4
    <2>5. raced \subseteq raced'
      BY <2>2
    <2> QED BY <2>3, <2>4, <2>5 DEF RowsAsAsked
  <1>8. ASSUME NEW r \in Slots, BillUpdate(r) \/ BillCreate(r)
        PROVE  UNCHANGED <<enr, asked, raced>>
    BY <1>8 DEF BillUpdate, BillCreate
  <1>9. CASE OtherAction
    <2>1. ASSUME NEW c \in Classes, RemoveEnrollment(c) PROVE RowsAsAsked'
      BY <1>2, <2>1 DEF RemoveEnrollment
    <2>2. ASSUME \A c \in Classes : ~RemoveEnrollment(c)
          PROVE  UNCHANGED <<enr, asked, raced>>
      BY <1>9, <2>2
      DEF OtherAction, LeaveParents, GenerateInvoice, AddInvoice, RemoveClass,
          DeleteInvoice, StaffInvoice, NextMonth, history
    <2> QED BY <1>1, <2>1, <2>2
  <1> QED BY <1>1, <1>3, <1>4, <1>5, <1>6, <1>7, <1>8, <1>9, NextCases

-----------------------------------------------------------------------------
(***************************************************************************)
(* The theorems.                                                           *)
(***************************************************************************)

LEMMA InitInv == EnrollmentInit => EnrollmentInv
  <1> SUFFICES ASSUME EnrollmentInit PROVE EnrollmentInv
    OBVIOUS
  <1>1. EnrollmentTypeOK
    BY EnrollmentAssumption, IdleType
    DEF EnrollmentInit, EnrollmentTypeOK, NoRow, Rows, NoCharge
  <1>2. Enrolled = {} /\ \A r \in Slots : request[r] = IdleRequest
    BY DEF EnrollmentInit, Enrolled, NoRow
  <1>3. \A r \in Slots : request[r].pc = "idle" /\ UpdateInv(request[r], Active)
    BY <1>2, IdleInv
  <1>4. \A r \in Slots : HandlerInv(request[r])
    BY <1>3 DEF HandlerInv, PlaceInv, RowInv, BillingPCs
  <1>5. /\ \A i \in Invoices, c \in Classes : charge[i][c] = 0
        /\ billed = {} /\ enr = asked
    BY DEF EnrollmentInit, NoCharge, Entries
  <1>6. MoneyInv
    BY <1>3, <1>5
    DEF MoneyInv, BillingInv, ReadInv, NoDoubleCharge,
        ChargedUnlessOverlapped, Bills, Updates, BillingPCs
  <1> QED BY <1>1, <1>2, <1>4, <1>5, <1>6
          DEF EnrollmentInv, StudentInv, RowsAsAsked

LEMMA NextInv ==
  EnrollmentInv /\ [EnrollmentNext]_enrollmentVars => EnrollmentInv'
  <1> SUFFICES ASSUME EnrollmentInv, [EnrollmentNext]_enrollmentVars
               PROVE  EnrollmentInv'
    OBVIOUS
  <1>1. CASE EnrollmentNext
    <2>1. EnrollmentTypeOK'
      BY <1>1, TypeStep DEF EnrollmentInv, HandlerInv
    <2>2. StudentInv' /\ \A s \in Slots : HandlerInv(request[s])'
      BY <1>1, HandlerStep DEF EnrollmentInv
    <2>3. MoneyInv' /\ RowsAsAsked'
      BY <1>1, MoneyStep, RowsStep DEF EnrollmentInv
    <2> QED BY <2>1, <2>2, <2>3 DEF EnrollmentInv
  <1>2. CASE UNCHANGED enrollmentVars
    <2> USE <1>2 DEF enrollmentVars
    <2>1. EnrollmentTypeOK' /\ StudentInv' /\ RowsAsAsked'
      BY DEF EnrollmentInv, EnrollmentTypeOK, StudentInv, Enrolled, RowsAsAsked
    <2>2. Enrolled' = Enrolled /\ Active' = Active
      BY DEF Enrolled, Active
    <2>3. ASSUME NEW s \in Slots PROVE HandlerInv(request[s])'
      BY <2>2, OthersKeep DEF EnrollmentInv
    <2>4. MoneyInv'
      BY <2>2, MoneyKept DEF SameFees, SameBilling, EnrollmentInv
    <2> QED BY <2>1, <2>3, <2>4 DEF EnrollmentInv
  <1> QED BY <1>1, <1>2

\* What the tables, the handlers and the histories are.
THEOREM Invariance == EnrollmentSpec => []EnrollmentInv
  BY InitInv, NextInv, PTL DEF EnrollmentSpec

\* Every variable has its type in every state: no amount outgrows its
\* column, whatever is added to it.
THEOREM EnrollmentTypes == EnrollmentSpec => []EnrollmentTypeOK
  <1>1. EnrollmentInv => EnrollmentTypeOK
    BY DEF EnrollmentInv
  <1> QED BY <1>1, Invariance, PTL

\* However many enrolments of any number of classes overlap, fail and are
\* repeated, the fee of a class is charged once and on one invoice.
THEOREM FeesChargedOnce == EnrollmentSpec => []NoDoubleCharge
  <1>1. EnrollmentInv => NoDoubleCharge
    BY DEF EnrollmentInv, MoneyInv
  <1> QED BY <1>1, Invariance, PTL

\* A fee is lost only to a handler that had read the same invoice.
THEOREM FeesLostByOverlapOnly == EnrollmentSpec => []ChargedUnlessOverlapped
  <1>1. EnrollmentInv => ChargedUnlessOverlapped
    BY DEF EnrollmentInv, MoneyInv
  <1> QED BY <1>1, Invariance, PTL

\* An update, or a creation, that got past its enrolments, with no other
\* write of an enrolment meanwhile, left exactly the classes it lists active.
\* One that lists a class the student has a row in is refused by the unique
\* key and does not get there: of it, this says nothing.
THEOREM UpdatesExact == EnrollmentSpec => []UpdateIsExact
  <1>1. EnrollmentInv => UpdateIsExact
    <2> SUFFICES ASSUME EnrollmentInv, NEW r \in Slots,
                        At(r, "parents"), request[r].clean
                 PROVE  Active = request[r].want
      BY DEF UpdateIsExact
    <2>1. /\ request[r].op \in {"update", "create"} /\ request[r].next = {}
          /\ Active = request[r].want \ request[r].next
      BY DEF EnrollmentInv, HandlerInv, UpdateInv, At
    <2> QED BY <2>1
  <1> QED BY <1>1, Invariance, PTL

\* A row says what was asked of it, though each request saves all of the row
\* it read, except a row some request saved after another write of enrolments
\* since it read: such a save takes back what was written in between.
THEOREM RowsFollowRequests == EnrollmentSpec => []RowsAsAsked
  <1>1. EnrollmentInv => RowsAsAsked
    BY DEF EnrollmentInv
  <1> QED BY <1>1, Invariance, PTL

-----------------------------------------------------------------------------
(***************************************************************************)
(* Enrollment implements EnrollmentBook.  A fee is owed while a handler    *)
(* bills its class.  Two things are needed besides EnrollmentInv.  A loop  *)
(* over old enrolments drops rows, and does not make any: what it has      *)
(* still to drop was enrolled, and rows stay (LoopInv).  And a status that *)
(* is saved late is one the row had, or was asked to get: no row waits for *)
(* a payment that was not entered so, nor is about to be saved so          *)
(* (WaitInv).                                                              *)
(***************************************************************************)

LoopInv(h) ==
    /\ h.pc \in {"drop", "leave"} => h.op \in {"update", "leave"}
    /\ h.op \in {"update", "leave"} => h.todo \subseteq Enrolled

WaitInv ==
    /\ \A c \in Classes : Waits(enr[c]) => c \in awaited
    /\ \A s \in Slots :
          At(s, "rowWrite") /\ Waits(request[s].row) =>
              request[s].class \in awaited

BookInv ==
    /\ EnrollmentInv
    /\ \A s \in Slots : LoopInv(request[s])
    /\ WaitInv

\* A handler that goes on with less to do, or ends, keeps the loop's promise.
LEMMA LoopGoesOn ==
  ASSUME NEW h \in Handlers,
         h.op \in {"update", "leave"} => h.todo \subseteq Enrolled
  PROVE  LoopInv(AtNext(h)) /\ LoopInv(IdleRequest)
  <1>1. LoopInv(IdleRequest)
    BY DEF LoopInv, IdleRequest
  <1>2. ASSUME NEW pc \in RequestPCs, Turn(h, pc),
               AtNext(h) = [h EXCEPT !.pc = pc]
        PROVE  LoopInv(AtNext(h))
    <2>1. /\ AtNext(h).pc = pc /\ AtNext(h).op = h.op
          /\ AtNext(h).todo = h.todo
      BY <1>2 DEF Handlers
    <2> QED BY <1>2, <2>1 DEF LoopInv, Turn
  <1> QED BY <1>1, <1>2, AtNextPlace

\* So do the handlers AfterBill and Skip lead to.
LEMMA LoopAfter ==
  ASSUME EnrollmentTypeOK, NEW r \in Slots, LoopInv(request[r])
  PROVE  /\ LoopInv(AfterBill(r)) /\ LoopInv(IdleRequest)
         /\ \A c : LoopInv(Skip(r, c))
  <1>1. LoopInv(AfterBill(r)) /\ LoopInv(IdleRequest)
    BY AfterBillMeans, LoopGoesOn DEF LoopInv
  <1>2. ASSUME NEW c PROVE LoopInv(Skip(r, c))
    <2>1. PICK h \in Handlers :
            /\ Skip(r, c) = AtNext(h)
            /\ h.op = request[r].op /\ h.todo = request[r].todo \ {c}
      BY SkipMeans
    <2>2. h.op \in {"update", "leave"} => h.todo \subseteq Enrolled
      BY <2>1 DEF LoopInv
    <2> QED BY <2>1, <2>2, LoopGoesOn
  <1> QED BY <1>1, <1>2

\* A loop starts with the enrolments there are.
LEMMA LoopStarts ==
  ASSUME EnrollmentTypeOK, NEW r \in Slots, StartRequest(r)
  PROVE  LoopInv(request'[r])
  <1>0. Enrolled \in SUBSET Classes /\ Active \in SUBSET Classes
    BY DEF Enrolled, Active
  <1>1. ASSUME NEW h \in Handlers, Goto(r, AtNext(h)),
               h.op \in {"update", "leave"} => h.todo \subseteq Enrolled
        PROVE  LoopInv(request'[r])
    BY <1>1, LoopGoesOn, AtNextType, GotoMeans
  <1>2. ASSUME NEW h, Goto(r, h), h.pc \notin {"drop", "leave"},
               h.op \notin {"update", "leave"}
        PROVE  LoopInv(request'[r])
    <2>1. request'[r] = h
      BY <1>2 DEF Goto, EnrollmentTypeOK
    <2> QED BY <1>2, <2>1 DEF LoopInv
  <1>3. ASSUME NEW c \in Classes, NEW status \in Statuses \cup {"active"},
               StartEnroll(r, c, status)
        PROVE  LoopInv(request'[r])
    BY <1>2, <1>3 DEF StartEnroll, IdleRequest
  <1>4. ASSUME NEW c \in Classes, NEW status \in Statuses \cup {"active"},
               StartClassBulk(r, c, status)
        PROVE  LoopInv(request'[r])
    <2> DEFINE h == [IdleRequest EXCEPT !.op = "classBulk", !.todo = {c},
                                        !.row = NewRow(status)]
    <2>1. h \in Handlers /\ h.op = "classBulk"
      BY NewRowType, IdleType DEF Handlers, RequestOps
    <2> QED BY <1>1, <1>4, <2>1 DEF StartClassBulk
  <1>5. ASSUME NEW S \in SUBSET Classes,
               NEW status \in Statuses \cup {"active"}, StartBulk(r, S, status)
        PROVE  LoopInv(request'[r])
    <2> DEFINE h == [IdleRequest EXCEPT !.op = "bulk", !.todo = S,
                                        !.row = NewRow(status)]
    <2>1. h \in Handlers /\ h.op = "bulk"
      BY NewRowType, IdleType DEF Handlers, RequestOps
    <2> QED BY <1>1, <1>5, <2>1 DEF StartBulk
  <1>6. ASSUME NEW S \in SUBSET Classes, StartCreateStudent(r, S)
        PROVE  LoopInv(request'[r])
    <2> DEFINE h == [IdleRequest EXCEPT !.op = "create", !.next = S,
                                        !.want = S, !.row = NewRow("active")]
    <2>1. h \in Handlers /\ h.op = "create"
      BY NewRowType, IdleType DEF Handlers, RequestOps
    <2> QED BY <1>1, <1>6, <2>1 DEF StartCreateStudent
  <1>7. ASSUME NEW S \in SUBSET Classes, StartUpdate(r, S)
        PROVE  LoopInv(request'[r])
    <2> DEFINE h == [IdleRequest EXCEPT !.op = "update", !.todo = Enrolled,
                                        !.next = S, !.want = S,
                                        !.row = NewRow("active")]
    <2>1. h \in Handlers /\ h.todo = Enrolled
      BY <1>0, NewRowType, IdleType DEF Handlers, RequestOps
    <2> QED BY <1>1, <1>7, <2>1 DEF StartUpdate
  <1>8. ASSUME StartLeave(r) PROVE LoopInv(request'[r])
    <2> DEFINE h == [IdleRequest EXCEPT !.op = "leave", !.todo = Enrolled]
    <2>1. h \in Handlers /\ h.todo = Enrolled
      BY <1>0, IdleType DEF Handlers, RequestOps
    <2> QED BY <1>1, <1>8, <2>1 DEF StartLeave
  <1>9. ASSUME StartGenerate(r) PROVE LoopInv(request'[r])
    <2> DEFINE h == [IdleRequest EXCEPT !.op = "generate", !.todo = Active]
    <2>1. h \in Handlers /\ h.op = "generate"
      BY <1>0, IdleType DEF Handlers, RequestOps
    <2> QED BY <1>1, <1>9, <2>1 DEF StartGenerate
  <1>10. ASSUME NEW c \in Classes, NEW status \in Statuses,
                StartSetStatus(r, c, status)
         PROVE  LoopInv(request'[r])
    BY <1>2, <1>10 DEF StartSetStatus, IdleRequest
  <1>11. ASSUME NEW c \in Classes, NEW enabled \in BOOLEAN,
                StartToggle(r, c, enabled)
         PROVE  LoopInv(request'[r])
    BY <1>2, <1>11 DEF StartToggle, IdleRequest
  <1> QED BY <1>3, <1>4, <1>5, <1>6, <1>7, <1>8, <1>9, <1>10, <1>11
          DEF StartRequest

\* The steps of a handler leave its loop with classes that were enrolled.
LEMMA LoopMoves ==
  ASSUME EnrollmentInv, NEW r \in Slots, LoopInv(request[r]),
         \/ QuietStep(r) \/ InsertRow(r) \/ DropNext(r) \/ RowWrite(r)
         \/ BillUpdate(r) \/ BillCreate(r)
  PROVE  LoopInv(request'[r])
  <1>0. /\ EnrollmentTypeOK /\ request[r] \in Handlers
        /\ LoopInv(AfterBill(r)) /\ LoopInv(IdleRequest)
        /\ \A c : LoopInv(Skip(r, c))
    BY LoopAfter DEF EnrollmentInv, EnrollmentTypeOK
  <1>1. ASSUME NEW h, LoopInv(h), Goto(r, h) \/ GotoAfterWrite(r, h)
        PROVE  LoopInv(request'[r])
    <2>1. request'[r] = h
      BY <1>0, <1>1 DEF Goto, GotoAfterWrite, EnrollmentTypeOK
    <2> QED BY <1>1, <2>1
  <1>2. ASSUME NEW pc \in {"insert", "billRead", "billCreate", "billUpdate"},
               NEW h, h.pc = pc, h.op = request[r].op,
               h.todo \subseteq request[r].todo
        PROVE  LoopInv(h)
    BY <1>2 DEF LoopInv
  <1>3. CASE BulkCheck(r)
    <2>1. PICK c \in request[r].todo :
            \/ Goto(r, Skip(r, c))
            \/ Goto(r, [request[r] EXCEPT !.pc = "insert", !.class = c,
                                          !.todo = @ \ {c}])
      BY <1>3 DEF BulkCheck
    <2> DEFINE h == [request[r] EXCEPT !.pc = "insert", !.class = c,
                                       !.todo = @ \ {c}]
    <2>2. h.pc = "insert" /\ h.op = request[r].op
          /\ h.todo \subseteq request[r].todo
      BY <1>0 DEF Handlers
    <2>3. LoopInv(h)
      BY <1>2, <2>2
    <2> QED BY <1>0, <1>1, <2>1, <2>3
  <1>4. CASE CreateNext(r)
    <2>1. PICK c \in request[r].next :
            Goto(r, [request[r] EXCEPT !.pc = "insert", !.class = c,
                                       !.next = @ \ {c}])
      BY <1>4 DEF CreateNext
    <2> DEFINE h == [request[r] EXCEPT !.pc = "insert", !.class = c,
                                       !.next = @ \ {c}]
    <2>2. h.pc = "insert" /\ h.op = request[r].op /\ h.todo = request[r].todo
      BY <1>0 DEF Handlers
    <2>3. LoopInv(h)
      BY <1>2, <2>2
    <2> QED BY <1>1, <2>1, <2>3
  <1>5. CASE BillRead(r)
    <2>1. CASE Goto(r, [request[r] EXCEPT !.pc = "billCreate"])
      <3> DEFINE h == [request[r] EXCEPT !.pc = "billCreate"]
      <3>1. /\ h.pc = "billCreate" /\ h.op = request[r].op
            /\ h.todo = request[r].todo
        BY <1>0 DEF Handlers
      <3>2. LoopInv(h)
        BY <1>2, <3>1
      <3> QED BY <1>1, <2>1, <3>2
    <2>2. ASSUME NEW i \in Invoices,
                 Goto(r, [request[r] EXCEPT !.pc = "billUpdate", !.inv = i,
                                  !.read = charge[i], !.sum = amount[i]])
          PROVE  LoopInv(request'[r])
      <3> DEFINE h == [request[r] EXCEPT !.pc = "billUpdate", !.inv = i,
                                  !.read = charge[i], !.sum = amount[i]]
      <3>1. /\ h.pc = "billUpdate" /\ h.op = request[r].op
            /\ h.todo = request[r].todo
        BY <1>0 DEF Handlers
      <3>2. LoopInv(h)
        BY <1>2, <3>1
      <3> QED BY <1>1, <2>2, <3>2
    <2> QED BY <1>5, <2>1, <2>2 DEF BillRead
  <1>6. CASE \/ RowRefused(r) \/ BillNothing(r) \/ BillFails(r) \/ Answer(r)
             \/ GenerateNothing(r) \/ RequestFails(r)
    BY <1>0, <1>1, <1>6 DEF RowRefused, BillNothing, BillFails, Answer,
                            GenerateNothing, RequestFails, Finish
  <1>7. CASE InsertRow(r)
    <2> DEFINE h == [request[r] EXCEPT !.pc = "billRead"]
    <2>1. h.pc = "billRead" /\ h.op = request[r].op /\ h.todo = request[r].todo
      BY <1>0 DEF Handlers
    <2>2. LoopInv(h)
      BY <1>2, <2>1
    <2> QED BY <1>0, <1>1, <1>7, <2>2 DEF InsertRow
  <1>8. CASE DropNext(r) \/ RowWrite(r) \/ BillUpdate(r) \/ BillCreate(r)
    BY <1>0, <1>1, <1>8 DEF DropNext, RowWrite, BillUpdate, BillCreate
  <1> QED BY <1>3, <1>4, <1>5, <1>6, <1>7, <1>8 DEF QuietStep

\* A handler that does not move, or does so while rows only come, keeps it.
LEMMA LoopStays ==
  ASSUME EnrollmentTypeOK, NEW s \in Slots, LoopInv(request[s]),
         Enrolled \subseteq Enrolled',
         \/ request'[s] = request[s]
         \/ request'[s] = [request[s] EXCEPT !.clean = FALSE]
  PROVE  LoopInv(request[s])'
  <1>1. request[s] \in Handlers
    BY DEF EnrollmentTypeOK
  <1>2. /\ request'[s].pc = request[s].pc /\ request'[s].op = request[s].op
        /\ request'[s].todo = request[s].todo
    BY <1>1 DEF Handlers
  <1> QED BY <1>2 DEF LoopInv

\* Every step keeps what the loops over old enrolments rely on.
LEMMA LoopStep ==
  ASSUME BookInv, EnrollmentNext
  PROVE  \A s \in Slots : LoopInv(request[s])'
  <1>0. EnrollmentTypeOK /\ EnrollmentInv
        /\ \A s \in Slots : HandlerInv(request[s]) /\ LoopInv(request[s])
    BY DEF BookInv, EnrollmentInv
  <1>1. ASSUME NEW r \in Slots, LoopInv(request'[r]),
               Enrolled \subseteq Enrolled',
               \A s \in Slots \ {r} :
                  \/ request'[s] = request[s]
                  \/ request'[s] = [request[s] EXCEPT !.clean = FALSE]
        PROVE  \A s \in Slots : LoopInv(request[s])'
    <2>1. LoopInv(request[r])'
      BY <1>1 DEF LoopInv
    <2> QED BY <1>0, <1>1, <2>1, LoopStays
  <1>2. ASSUME NEW r \in Slots, StartRequest(r)
        PROVE  \A s \in Slots : LoopInv(request[s])'
    <2>1. UNCHANGED enr /\ LoopInv(request'[r])
          /\ \A s \in Slots \ {r} : request'[s] = request[s]
      <3>1. UNCHANGED enr /\ \E h : Goto(r, h)
        BY <1>0, <1>2, StartInv DEF EnrollmentInv
      <3> QED BY <1>0, <1>2, <3>1, LoopStarts DEF Goto, EnrollmentTypeOK
    <2> QED BY <1>1, <2>1 DEF Enrolled
  <1>3. ASSUME NEW r \in Slots, QuietStep(r)
        PROVE  \A s \in Slots : LoopInv(request[s])'
    <2>1. UNCHANGED enr /\ \A s \in Slots \ {r} : request'[s] = request[s]
      BY <1>0, <1>3, QuietType, QuietInv DEF tables
    <2>2. LoopInv(request'[r]) /\ Enrolled' = Enrolled
      BY <1>0, <1>3, <2>1, LoopMoves DEF Enrolled
    <2> QED BY <1>1, <2>1, <2>2
  <1>4. ASSUME NEW r \in Slots, InsertRow(r) \/ DropNext(r) \/ RowWrite(r)
        PROVE  \A s \in Slots : LoopInv(request[s])'
    <2>1. Enrolled \subseteq Enrolled' /\ \A s \in Slots \ {r} :
             request'[s] = [request[s] EXCEPT !.clean = FALSE]
      BY <1>0, <1>4, WriteInv DEF Frame
    <2>2. LoopInv(request'[r])
      BY <1>0, <1>4, LoopMoves
    <2> QED BY <1>1, <2>1, <2>2
  <1>5. ASSUME NEW r \in Slots, BillUpdate(r) \/ BillCreate(r)
        PROVE  \A s \in Slots : LoopInv(request[s])'
    <2>1. Enrolled \subseteq Enrolled'
          /\ \A s \in Slots \ {r} : request'[s] = request[s]
      BY <1>0, <1>5, ChargeInv DEF Frame
    <2>2. LoopInv(request'[r])
      BY <1>0, <1>5, LoopMoves
    <2> QED BY <1>1, <2>1, <2>2
  <1>6. CASE OtherAction
    <2>1. Enrolled \subseteq Enrolled'
      BY <1>0, <1>6, OtherInv DEF Frame
    <2>2. ASSUME NEW r \in Slots, LeaveParents(r) \/ GenerateInvoice(r)
          PROVE  \A s \in Slots : LoopInv(request[s])'
      <3>1. PICK h : Goto(r, h) /\ (h = IdleRequest \/ \E c : h = Skip(r, c))
        BY <2>2 DEF LeaveParents, GenerateInvoice, Finish
      <3>2. request'[r] = h /\ \A s \in Slots \ {r} : request'[s] = request[s]
        BY <1>0, <3>1 DEF Goto, EnrollmentTypeOK
      <3>3. LoopInv(h)
        BY <1>0, <3>1, LoopAfter
      <3> QED BY <1>1, <2>1, <3>2, <3>3
    <2>3. ASSUME \/ UNCHANGED request
                 \/ request' = [s \in Slots |->
                                  [request[s] EXCEPT !.clean = FALSE]]
          PROVE  \A s \in Slots : LoopInv(request[s])'
      BY <1>0, <2>1, <2>3, LoopStays
    <2> QED BY <1>6, <2>2, <2>3 DEF OtherAction, RemoveEnrollment,
               RemoveClass, DeleteInvoice, StaffInvoice, NextMonth
  <1> QED BY <1>2, <1>3, <1>4, <1>5, <1>6, NextCases

\* What a step may do without making an enrolment wait that was not entered
\* so: a row that comes to wait is entered in the step, and a handler that
\* comes to save a waiting row has read it so.
LEMMA WaitKept ==
  ASSUME EnrollmentTypeOK, WaitInv, awaited \subseteq awaited',
         \A c \in Classes :
            Waits(enr'[c]) => Waits(enr[c]) \/ c \in awaited',
         \A s \in Slots :
            \/ request'[s].pc # "rowWrite"
            \/ request'[s] = request[s]
            \/ request'[s] = [request[s] EXCEPT !.clean = FALSE]
            \/ /\ request'[s].class \in Classes
               /\ Waits(request'[s].row) => Waits(enr[request'[s].class])
  PROVE  WaitInv'
  <1>1. ASSUME NEW s \in Slots, request'[s].pc = "rowWrite",
               Waits(request'[s].row)
        PROVE  request'[s].class \in awaited'
    <2>1. request[s] \in Handlers
      BY DEF EnrollmentTypeOK
    <2>2. CASE \/ request'[s] = request[s]
               \/ request'[s] = [request[s] EXCEPT !.clean = FALSE]
      <3>1. /\ request'[s].pc = request[s].pc
            /\ request'[s].row = request[s].row
            /\ request'[s].class = request[s].class
        BY <2>1, <2>2 DEF Handlers
      <3> QED BY <1>1, <3>1 DEF WaitInv, At
    <2>3. CASE /\ request'[s].class \in Classes
               /\ Waits(request'[s].row) => Waits(enr[request'[s].class])
      BY <1>1, <2>3 DEF WaitInv
    <2> QED BY <1>1, <2>2, <2>3
  <1>2. \A c \in Classes : Waits(enr'[c]) => c \in awaited'
    BY DEF WaitInv
  <1> QED BY <1>1, <1>2 DEF WaitInv, At, Waits

\* A handler at the end of a turn is not about to save a row.
LEMMA AtNextSavesNone ==
  ASSUME NEW h \in Handlers
  PROVE  AtNext(h).pc # "rowWrite" /\ IdleRequest.pc # "rowWrite"
  BY AtNextPlace DEF Turn, Handlers, IdleRequest

\* Nor is one after a step that writes no table.
LEMMA QuietSavesNone ==
  ASSUME EnrollmentTypeOK, NEW r \in Slots, QuietStep(r)
  PROVE  request'[r].pc # "rowWrite"
  <1>0. /\ request[r] \in Handlers
        /\ AfterBill(r).pc # "rowWrite" /\ IdleRequest.pc # "rowWrite"
        /\ \A c : Skip(r, c).pc # "rowWrite"
    BY AfterBillMeans, SkipMeans, AtNextSavesNone, IdleType
    DEF EnrollmentTypeOK
  <1>1. ASSUME NEW h, Goto(r, h), h.pc # "rowWrite"
        PROVE  request'[r].pc # "rowWrite"
    BY <1>1 DEF Goto, EnrollmentTypeOK
  <1>2. CASE BulkCheck(r) \/ CreateNext(r)
    <2>1. PICK c, S, T :
            \/ Goto(r, Skip(r, c))
            \/ Goto(r, [request[r] EXCEPT !.pc = "insert", !.class = c,
                                          !.todo = S])
            \/ Goto(r, [request[r] EXCEPT !.pc = "insert", !.class = c,
                                          !.next = T])
      BY <1>2 DEF BulkCheck, CreateNext
    <2>2. /\ [request[r] EXCEPT !.pc = "insert", !.class = c,
                                !.todo = S].pc = "insert"
          /\ [request[r] EXCEPT !.pc = "insert", !.class = c,
                                !.next = T].pc = "insert"
      BY <1>0 DEF Handlers
    <2> QED BY <1>0, <1>1, <2>1, <2>2
  <1>3. CASE BillRead(r)
    <2>1. [request[r] EXCEPT !.pc = "billCreate"].pc = "billCreate"
      BY <1>0 DEF Handlers
    <2>2. \A i \in Invoices :
             [request[r] EXCEPT !.pc = "billUpdate", !.inv = i,
                                !.read = charge[i],
                                !.sum = amount[i]].pc = "billUpdate"
      BY <1>0 DEF Handlers
    <2> QED BY <1>1, <1>3, <2>1, <2>2 DEF BillRead
  <1>4. CASE \/ RowRefused(r) \/ BillNothing(r) \/ BillFails(r) \/ Answer(r)
             \/ GenerateNothing(r) \/ RequestFails(r)
    BY <1>0, <1>1, <1>4
    DEF RowRefused, BillNothing, BillFails, Answer, GenerateNothing,
        RequestFails, Finish
  <1> QED BY <1>2, <1>3, <1>4 DEF QuietStep

\* Every step keeps it: rows are only saved by handlers that read them.
LEMMA WaitStep ==
  ASSUME BookInv, EnrollmentNext
  PROVE  WaitInv'
  <1>0. /\ EnrollmentTypeOK /\ EnrollmentInv /\ WaitInv
        /\ \A s \in Slots : HandlerInv(request[s])
        /\ \A s \in Slots : request[s] \in Handlers
    BY DEF BookInv, EnrollmentInv, EnrollmentTypeOK
  <1>1. ASSUME NEW r \in Slots, StartRequest(r) PROVE WaitInv'
    <2>1. UNCHANGED <<enr, awaited>>
      BY <1>0, <1>1, StartInv DEF EnrollmentInv, history
    <2>2. PICK h \in Handlers :
             /\ Goto(r, h)
             /\ h.pc = "rowWrite" =>
                   /\ h.class \in Enrolled
                   /\ Waits(h.row) => Waits(enr[h.class])
      BY <1>0, <1>1, StartInv DEF EnrollmentInv
    <2>3. /\ request'[r] = h
          /\ \A s \in Slots \ {r} : request'[s] = request[s]
      BY <1>0, <2>2, GotoMeans
    <2>4. \/ request'[r].pc # "rowWrite"
          \/ /\ request'[r].class \in Classes
             /\ Waits(request'[r].row) => Waits(enr[request'[r].class])
      BY <2>2, <2>3 DEF Enrolled
    <2> QED BY <1>0, <2>1, <2>3, <2>4, WaitKept
  <1>2. ASSUME NEW r \in Slots, request'[r].pc # "rowWrite",
               awaited \subseteq awaited',
               \A c \in Classes :
                  Waits(enr'[c]) => Waits(enr[c]) \/ c \in awaited',
               \A s \in Slots \ {r} :
                  \/ request'[s] = request[s]
                  \/ request'[s] = [request[s] EXCEPT !.clean = FALSE]
        PROVE  WaitInv'
    BY <1>0, <1>2, WaitKept
  <1>3. ASSUME NEW r \in Slots, QuietStep(r) PROVE WaitInv'
    <2>1. /\ UNCHANGED <<enr, awaited>>
          /\ \A s \in Slots \ {r} : request'[s] = request[s]
      BY <1>0, <1>3, QuietType, QuietInv DEF tables, history
    <2>2. request'[r].pc # "rowWrite"
      BY <1>0, <1>3, QuietSavesNone
    <2> QED BY <1>2, <2>1, <2>2
  <1>4. ASSUME NEW r \in Slots, InsertRow(r) \/ DropNext(r) \/ RowWrite(r)
        PROVE  WaitInv'
    <2>1. \A s \in Slots \ {r} :
             request'[s] = [request[s] EXCEPT !.clean = FALSE]
      BY <1>0, <1>4, WriteInv
    <2>2. request'[r].pc # "rowWrite"
      <3>1. CASE InsertRow(r)
        <4>1. \/ request'[r] = AfterBill(r)
              \/ request'[r] = [request[r] EXCEPT !.pc = "billRead"]
          BY <1>0, <3>1 DEF InsertRow, GotoAfterWrite
        <4>2. AfterBill(r).pc # "rowWrite"
          BY <1>0, AfterBillMeans, AtNextSavesNone
        <4> QED BY <1>0, <4>1, <4>2 DEF Handlers
      <3>2. CASE DropNext(r)
        <4>1. PICK c : request'[r] = Skip(r, c)
          BY <1>0, <3>2 DEF DropNext, GotoAfterWrite
        <4> QED BY <1>0, <4>1, SkipMeans, AtNextSavesNone
      <3>3. CASE RowWrite(r)
        BY <1>0, <3>3 DEF RowWrite, GotoAfterWrite, IdleRequest
      <3> QED BY <1>4, <3>1, <3>2, <3>3
    <2>3. CASE InsertRow(r)
      BY <1>0, <1>2, <2>1, <2>2, <2>3
      DEF InsertRow, EnrollmentTypeOK, HandlerInv, PlaceInv, Waits
    <2>4. CASE DropNext(r)
      <3>1. PICK c \in request[r].todo : DropRow(c)
        BY <2>4 DEF DropNext
      <3>2. UNCHANGED awaited
        BY <2>4 DEF DropNext
      <3>3. \A d \in Classes : Waits(enr'[d]) => Waits(enr[d])
        BY <1>0, <3>1 DEF DropRow, EnrollmentTypeOK, Rows, Waits
      <3> QED BY <1>2, <2>1, <2>2, <3>2, <3>3
    <2>5. CASE RowWrite(r)
      BY <1>0, <1>2, <2>1, <2>2, <2>5
      DEF RowWrite, WaitInv, At, EnrollmentTypeOK, Waits
    <2> QED BY <1>4, <2>3, <2>4, <2>5
  <1>5. ASSUME NEW r \in Slots, BillUpdate(r) \/ BillCreate(r) PROVE WaitInv'
    <2>1. UNCHANGED <<enr, awaited>> /\ request'[r] = AfterBill(r)
          /\ \A s \in Slots \ {r} : request'[s] = request[s]
      BY <1>0, <1>5 DEF BillUpdate, BillCreate, Goto, EnrollmentTypeOK
    <2>2. AfterBill(r).pc # "rowWrite"
      BY <1>0, AfterBillMeans, AtNextSavesNone
    <2> QED BY <1>2, <2>1, <2>2
  <1>6. CASE OtherAction
    <2>1. ASSUME NEW r \in Slots, LeaveParents(r) \/ GenerateInvoice(r)
          PROVE  WaitInv'
      <3>1. PICK h : Goto(r, h) /\ (h = IdleRequest \/ \E c : h = Skip(r, c))
        BY <2>1 DEF LeaveParents, GenerateInvoice, Finish
      <3>2. request'[r] = h /\ \A s \in Slots \ {r} : request'[s] = request[s]
        BY <1>0, <3>1 DEF Goto, EnrollmentTypeOK
      <3>3. h.pc # "rowWrite"
        BY <1>0, <3>1, SkipMeans, AtNextSavesNone, IdleType
      <3>4. UNCHANGED <<enr, awaited>>
        BY <2>1 DEF LeaveParents, GenerateInvoice, AddInvoice, history
      <3> QED BY <1>2, <3>2, <3>3, <3>4
    <2>2. ASSUME NEW c \in Classes, RemoveEnrollment(c) PROVE WaitInv'
      <3>1. UNCHANGED awaited /\ \A s \in Slots :
               request'[s] = [request[s] EXCEPT !.clean = FALSE]
        BY <2>2 DEF RemoveEnrollment
      <3>2. \A d \in Classes : Waits(enr'[d]) => Waits(enr[d])
        BY <1>0, <2>2 DEF RemoveEnrollment, DropRow, EnrollmentTypeOK, Rows,
                          Waits
      <3> QED BY <1>0, <3>1, <3>2, WaitKept
    <2>3. ASSUME UNCHANGED <<enr, awaited, request>> PROVE WaitInv'
      BY <1>0, <2>3, WaitKept
    <2> QED BY <1>6, <2>1, <2>2, <2>3
        DEF OtherAction, RemoveClass, DeleteInvoice, StaffInvoice, AddInvoice,
            NextMonth, history
  <1> QED BY <1>1, <1>3, <1>4, <1>5, <1>6, NextCases

LEMMA BookInvariance == EnrollmentSpec => []BookInv
  <1>1. EnrollmentInit => WaitInv /\ \A s \in Slots : LoopInv(request[s])
    BY DEF EnrollmentInit, LoopInv, IdleRequest, WaitInv, At, NoRow, Waits
  <1>2. BookInv /\ [EnrollmentNext]_enrollmentVars => BookInv'
    <2>1. CASE UNCHANGED enrollmentVars
      <3>1. BookInv => WaitInv' /\ \A s \in Slots : LoopInv(request[s])'
        BY <2>1 DEF BookInv, LoopInv, WaitInv, At, Enrolled, enrollmentVars
      <3> QED BY <2>1, <3>1, NextInv DEF BookInv
    <2>2. CASE EnrollmentNext
      BY <2>2, LoopStep, WaitStep, NextInv DEF BookInv
    <2> QED BY <2>1, <2>2
  <1> QED BY <1>1, <1>2, InitInv, PTL DEF EnrollmentSpec, BookInv

\* Handler s bills what it billed before.
BillsAsBefore(s) == \A c \in Classes : Bills(s, c)' <=> Bills(s, c)

LEMMA OthersBillAsBefore ==
  ASSUME EnrollmentTypeOK, NEW s \in Slots,
         \/ request'[s] = request[s]
         \/ request'[s] = [request[s] EXCEPT !.clean = FALSE]
  PROVE  BillsAsBefore(s)
  <1>1. request[s] \in Handlers
    BY DEF EnrollmentTypeOK
  <1>2. request'[s].pc = request[s].pc /\ request'[s].class = request[s].class
    BY <1>1 DEF Handlers
  <1> QED BY <1>2 DEF BillsAsBefore, Bills

\* What is owed, as the handlers that bill it.
LEMMA OwedIsBilled ==
  /\ AboutToBill = {c \in Classes : \E r \in Slots : Bills(r, c)}
  /\ AboutToBill' = {c \in Classes : \E r \in Slots : Bills(r, c)'}
  BY DEF AboutToBill, Bills, BillingPCs

\* Nobody begins or ends to bill, and no row changes: the book stays.
LEMMA BookStays ==
  ASSUME UNCHANGED billed, \A s \in Slots : BillsAsBefore(s),
         \A c \in Classes : enr'[c].status = enr[c].status,
         UNCHANGED awaited
  PROVE  UNCHANGED Book!book
  <1>1. AboutToBill' = AboutToBill
    BY OwedIsBilled DEF BillsAsBefore
  <1> QED BY <1>1 DEF Book!book

\* A row is written; who bills what stays as it is.
LEMMA RowChanges ==
  ASSUME EnrollmentTypeOK, NEW c \in Classes, NEW status \in RowStatus,
         c \in Enrolled, UNCHANGED <<billed, awaited>>,
         \A s \in Slots : BillsAsBefore(s),
         status = "pending_payment" => c \in awaited,
         enr'[c].status = status,
         \A d \in Classes \ {c} : enr'[d] = enr[d]
  PROVE  [Book!Next]_(Book!book)
  <1>1. AboutToBill' = AboutToBill
    BY OwedIsBilled DEF BillsAsBefore
  <1> DEFINE row == [d \in Classes |-> enr[d].status]
  <1>2. row' = [row EXCEPT ![c] = status]
    OBVIOUS
  <1>3. row[c] # "none"
    BY DEF Enrolled
  <1>4. Book!Change(c, status)
    BY <1>1, <1>2, <1>3 DEF Book!Change
  <1>5. CASE row' = row
    BY <1>1, <1>5 DEF Book!book
  <1>6. CASE row' # row
    BY <1>4, <1>6 DEF Book!Next
  <1> QED BY <1>5, <1>6

\* A handler that ends to bill was the only one to bill its class.
LEMMA BillingEnds ==
  ASSUME EnrollmentInv, NEW r \in Slots, NEW c \in Classes, Bills(r, c),
         request'[r].pc \notin BillingPCs,
         \A s \in Slots \ {r} : request'[s] = request[s]
  PROVE  c \in AboutToBill /\ AboutToBill' = AboutToBill \ {c}
  <1>1. \A s \in Slots \ {r} : ~Bills(s, c) /\ BillsAsBefore(s)
    BY DEF EnrollmentInv, MoneyInv, BillingInv, BillsAsBefore, Bills
  <1>2. \A d \in Classes : ~Bills(r, d)' /\ (Bills(r, d) => d = c)
    BY DEF Bills
  <1> QED BY <1>1, <1>2, OwedIsBilled DEF BillsAsBefore

\* The steps of a billing that write no invoice: it goes on, or is given up.
LEMMA QuietKeepsBook ==
  ASSUME EnrollmentInv, NEW r \in Slots, QuietStep(r)
  PROVE  [Book!Next]_(Book!book)
  <1>0. EnrollmentTypeOK /\ request[r] \in Handlers /\ HandlerInv(request[r])
    BY DEF EnrollmentInv, EnrollmentTypeOK
  <1>1. /\ UNCHANGED <<enr, billed, awaited>>
        /\ \A s \in Slots \ {r} : request'[s] = request[s]
        /\ BillRead(r) \/ request'[r].pc \notin BillingPCs
    BY <1>0, QuietType, QuietInv DEF tables, history
  <1>2. \A s \in Slots \ {r} : BillsAsBefore(s)
    BY <1>0, <1>1, OthersBillAsBefore
  <1>3. CASE BillRead(r)
    <2>1. /\ request[r].pc \in BillingPCs /\ request'[r].pc \in BillingPCs
          /\ request'[r].class = request[r].class
      <3>1. CASE Goto(r, [request[r] EXCEPT !.pc = "billCreate"])
        BY <1>0, <1>3, <3>1
        DEF Goto, BillRead, At, BillingPCs, Handlers, EnrollmentTypeOK
      <3>2. ASSUME NEW i \in Invoices,
                   Goto(r, [request[r] EXCEPT !.pc = "billUpdate", !.inv = i,
                                    !.read = charge[i], !.sum = amount[i]])
            PROVE  /\ request[r].pc \in BillingPCs
                   /\ request'[r].pc \in BillingPCs
                   /\ request'[r].class = request[r].class
        BY <1>0, <1>3, <3>2
        DEF Goto, BillRead, At, BillingPCs, Handlers, EnrollmentTypeOK
      <3> QED BY <1>3, <3>1, <3>2 DEF BillRead
    <2>2. BillsAsBefore(r)
      BY <2>1 DEF BillsAsBefore, Bills
    <2> QED BY <1>1, <1>2, <2>2, BookStays
  <1>4. CASE request[r].pc \notin BillingPCs /\ request'[r].pc \notin BillingPCs
    <2>1. BillsAsBefore(r)
      BY <1>4 DEF BillsAsBefore, Bills
    <2> QED BY <1>1, <1>2, <2>1, BookStays
  <1>5. CASE request[r].pc \in BillingPCs /\ request'[r].pc \notin BillingPCs
    <2>1. PICK c \in Classes : Bills(r, c)
      BY <1>0, <1>5 DEF HandlerInv, PlaceInv, Bills
    <2>2. c \in AboutToBill /\ AboutToBill' = AboutToBill \ {c}
      BY <1>1, <1>5, <2>1, BillingEnds
    <2>3. Book!Forget(c)
      BY <1>1, <2>2 DEF Book!Forget
    <2> QED BY <2>3 DEF Book!Next
  <1> QED BY <1>1, <1>3, <1>4, <1>5 DEF BillRead, At, BillingPCs

\* A new row is entered; all but the class's page then owe the fee.
LEMMA InsertKeepsBook ==
  ASSUME EnrollmentInv, NEW r \in Slots, InsertRow(r)
  PROVE  [Book!Next]_(Book!book)
  <1> DEFINE row == [d \in Classes |-> enr[d].status]
  <1>a. /\ EnrollmentTypeOK /\ request[r] \in Handlers /\ HandlerInv(request[r])
        /\ request[r].pc = "insert" /\ UNCHANGED billed
    BY DEF EnrollmentInv, EnrollmentTypeOK, InsertRow, At
  <1>b. PICK c \in Classes : c = request[r].class
    BY <1>a DEF HandlerInv, PlaceInv
  <1>c. PICK status \in RowStatus : status = request[r].row.status
    BY <1>a DEF HandlerInv, UpdateInv, Handlers, Rows
  <1>0. /\ c \notin Enrolled /\ enr' = [enr EXCEPT ![c] = request[r].row]
        /\ awaited' = IF status = "pending_payment" THEN awaited \cup {c}
                      ELSE awaited
    BY <1>b, <1>c DEF InsertRow
  <1>d. row[c] = "none" /\ row' = [row EXCEPT ![c] = status]
    BY <1>a, <1>c, <1>0 DEF Enrolled, EnrollmentTypeOK
  <1>1. Book!NewRow(c, status) /\ row' # row
    BY <1>c, <1>d, <1>0 DEF Book!NewRow, RowStatus, EnrollmentStatus
  <1>2. \A s \in Slots \ {r} :
           request'[s] = [request[s] EXCEPT !.clean = FALSE]
    BY WriteInv DEF EnrollmentInv
  <1>3. \A s \in Slots \ {r} : BillsAsBefore(s)
    BY <1>a, <1>2, OthersBillAsBefore
  <1>4. CASE request[r].op = "classBulk"
    <2>1. request'[r] = AfterBill(r)
      BY <1>a, <1>4 DEF InsertRow, GotoAfterWrite
    <2>2. request'[r].pc \notin BillingPCs
      BY <1>a, <1>4, <2>1, AfterBillKeeps DEF Between
    <2>3. BillsAsBefore(r)
      BY <1>a, <2>2 DEF BillsAsBefore, Bills, BillingPCs
    <2>4. AboutToBill' = AboutToBill
      BY <1>3, <2>3, OwedIsBilled DEF BillsAsBefore
    <2>5. Book!Enter(c, status)
      BY <1>a, <1>1, <2>4 DEF Book!Enter
    <2> QED BY <1>1, <2>5 DEF Book!Next
  <1>5. CASE request[r].op # "classBulk"
    <2>1. request'[r] = [request[r] EXCEPT !.pc = "billRead"]
      BY <1>a, <1>5 DEF InsertRow, GotoAfterWrite
    <2>2. request'[r].pc = "billRead" /\ request'[r].class = c
      BY <1>a, <1>b, <2>1 DEF Handlers
    <2>3. \A d \in Classes : ~Bills(r, d) /\ (Bills(r, d)' <=> d = c)
      BY <1>a, <2>2 DEF Bills, BillingPCs
    <2>4. AboutToBill' = AboutToBill \cup {c}
      BY <1>3, <2>3, OwedIsBilled DEF BillsAsBefore
    <2>5. Book!Order(c, status)
      BY <1>a, <1>1, <2>4 DEF Book!Order
    <2> QED BY <1>1, <2>5 DEF Book!Next
  <1> QED BY <1>4, <1>5

\* A row that is dropped or saved as a whole was there.
LEMMA WriteKeepsBook ==
  ASSUME BookInv, NEW r \in Slots, DropNext(r) \/ RowWrite(r)
  PROVE  [Book!Next]_(Book!book)
  <1>0. /\ EnrollmentInv /\ EnrollmentTypeOK /\ request[r] \in Handlers
        /\ HandlerInv(request[r]) /\ LoopInv(request[r]) /\ WaitInv
        /\ UNCHANGED awaited
    BY DEF BookInv, EnrollmentInv, EnrollmentTypeOK, DropNext, RowWrite
  <1>1. /\ UNCHANGED billed
        /\ \A s \in Slots \ {r} :
              request'[s] = [request[s] EXCEPT !.clean = FALSE]
        /\ \/ request'[r].pc \notin BillingPCs
           \/ request[r].class \in Classes \ Enrolled
    BY <1>0, WriteInv DEF EnrollmentInv
  <1>2. request[r].pc \in {"drop", "leave", "rowWrite"}
    BY DEF DropNext, RowWrite, At
  <1>3. request'[r].pc \notin BillingPCs
    <2>1. CASE RowWrite(r)
      BY <1>0, <1>1, <1>2, <2>1 DEF RowWrite, At, HandlerInv, PlaceInv
    <2>2. CASE DropNext(r)
      <3>1. PICK c : GotoAfterWrite(r, Skip(r, c))
        BY <2>2 DEF DropNext
      <3>2. request'[r] = Skip(r, c)
        BY <1>0, <3>1 DEF GotoAfterWrite
      <3>3. PICK h \in Handlers : Skip(r, c) = AtNext(h)
        BY <1>0, SkipMeans
      <3>4. AtNext(h).pc \notin BillingPCs
        BY AtNextPlace DEF Turn, BillingPCs, Handlers, IdleRequest
      <3> QED BY <3>2, <3>3, <3>4
    <2> QED BY <2>1, <2>2
  <1>4. \A s \in Slots : BillsAsBefore(s)
    <2>1. BillsAsBefore(r)
      BY <1>2, <1>3 DEF BillsAsBefore, Bills, BillingPCs
    <2> QED BY <1>0, <1>1, <2>1, OthersBillAsBefore
  <1>5. CASE DropNext(r)
    <2>1. PICK c \in request[r].todo : DropRow(c)
      BY <1>5 DEF DropNext
    <2>2. c \in Enrolled /\ c \in Classes
      BY <1>0, <1>5, <2>1 DEF DropNext, At, LoopInv, Handlers
    <2>3. /\ enr'[c].status = "dropped"
          /\ \A d \in Classes \ {c} : enr'[d] = enr[d]
      BY <1>0, <2>1, <2>2 DEF DropRow, EnrollmentTypeOK, Rows
    <2> QED BY <1>0, <1>1, <1>4, <2>2, <2>3, RowChanges
            DEF RowStatus, EnrollmentStatus
  <1>6. CASE RowWrite(r)
    <2>1. PICK c \in Enrolled, status \in RowStatus :
             /\ c = request[r].class /\ status = request[r].row.status
             /\ status = "pending_payment" => c \in awaited
      BY <1>0, <1>6 DEF RowWrite, At, HandlerInv, PlaceInv, Handlers, Rows,
                        WaitInv, Waits
    <2>2. c \in Classes
      BY DEF Enrolled
    <2>3. /\ enr'[c].status = status
          /\ \A d \in Classes \ {c} : enr'[d] = enr[d]
      BY <1>0, <1>6, <2>1, <2>2 DEF RowWrite, EnrollmentTypeOK
    <2> QED BY <1>0, <1>1, <1>4, <2>1, <2>2, <2>3, RowChanges
  <1> QED BY <1>5, <1>6

\* Writing the fee to an invoice charges it: for the first time, because the
\* class was being billed.
LEMMA ChargeKeepsBook ==
  ASSUME EnrollmentInv, NEW r \in Slots, BillUpdate(r) \/ BillCreate(r)
  PROVE  [Book!Next]_(Book!book)
  <1> DEFINE fees == [d \in Classes |-> IF d \in billed THEN 1 ELSE 0]
  <1>1. /\ EnrollmentTypeOK /\ HandlerInv(request[r])
        /\ request[r].pc \in BillingPCs
    BY DEF EnrollmentInv, BillUpdate, BillCreate, At, BillingPCs
  <1>2. PICK c \in Classes : c = request[r].class
    BY <1>1 DEF HandlerInv, PlaceInv
  <1>3. Bills(r, c) /\ billed' = billed \cup {c}
    BY <1>1, <1>2 DEF Bills, BillUpdate, BillCreate
  <1>4. /\ UNCHANGED <<enr, awaited>> /\ request'[r].pc \notin BillingPCs
        /\ \A s \in Slots \ {r} : request'[s] = request[s]
    BY <1>1, ChargeInv DEF BillUpdate, BillCreate
  <1>5. c \in AboutToBill /\ AboutToBill' = AboutToBill \ {c}
    BY <1>3, <1>4, BillingEnds
  <1>6. c \notin billed
    BY <1>3 DEF EnrollmentInv, MoneyInv, BillingInv
  <1>7. fees' = [fees EXCEPT ![c] = @ + 1]
    BY <1>2, <1>3, <1>6
  <1>8. Book!Charge(c)
    BY <1>4, <1>5, <1>7 DEF Book!Charge
  <1> QED BY <1>8 DEF Book!Next

\* The rest drops a row that is there, or has nothing to do with the book.
LEMMA OtherKeepsBook ==
  ASSUME EnrollmentInv, OtherAction
  PROVE  [Book!Next]_(Book!book)
  <1>0. EnrollmentTypeOK
    BY DEF EnrollmentInv
  <1>1. ASSUME NEW r \in Slots, LeaveParents(r) \/ GenerateInvoice(r)
        PROVE  [Book!Next]_(Book!book)
    <2>1. request[r].pc \in {"leaveParents", "generate"}
          /\ UNCHANGED <<enr, billed, awaited>>
      BY <1>1 DEF LeaveParents, GenerateInvoice, AddInvoice, history, At
    <2>2. PICK h : Goto(r, h) /\ (h = IdleRequest \/ \E c : h = Skip(r, c))
      BY <1>1 DEF LeaveParents, GenerateInvoice, Finish
    <2>3. request'[r] = h /\ \A s \in Slots \ {r} : request'[s] = request[s]
      BY <1>0, <2>2 DEF Goto, EnrollmentTypeOK
    <2>4. h.pc \notin BillingPCs
      <3>1. ASSUME NEW c PROVE Skip(r, c).pc \notin BillingPCs
        <4>1. PICK k \in Handlers : Skip(r, c) = AtNext(k)
          BY <1>0, SkipMeans
        <4>2. AtNext(k).pc \notin BillingPCs
          BY AtNextPlace DEF Turn, BillingPCs, Handlers, IdleRequest
        <4> QED BY <4>1, <4>2
      <3> QED BY <2>2, <3>1 DEF IdleRequest, BillingPCs
    <2>5. BillsAsBefore(r)
      BY <2>1, <2>3, <2>4 DEF BillsAsBefore, Bills, BillingPCs
    <2>6. \A s \in Slots : BillsAsBefore(s)
      BY <1>0, <2>3, <2>5, OthersBillAsBefore
    <2> QED BY <2>1, <2>6, BookStays
  <1>2. ASSUME NEW c \in Classes, RemoveEnrollment(c)
        PROVE  [Book!Next]_(Book!book)
    <2>1. \A s \in Slots : request'[s] = [request[s] EXCEPT !.clean = FALSE]
      BY <1>2 DEF RemoveEnrollment
    <2>2. \A s \in Slots : BillsAsBefore(s)
      BY <1>0, <2>1, OthersBillAsBefore
    <2>3. /\ c \in Enrolled /\ UNCHANGED <<billed, awaited>>
          /\ enr'[c].status = "dropped"
          /\ \A d \in Classes \ {c} : enr'[d] = enr[d]
      BY <1>0, <1>2 DEF RemoveEnrollment, DropRow, EnrollmentTypeOK, Rows
    <2> QED BY <1>0, <2>2, <2>3, RowChanges DEF RowStatus, EnrollmentStatus
  <1>3. ASSUME UNCHANGED <<enr, billed, awaited, request>>
        PROVE  [Book!Next]_(Book!book)
    BY <1>0, <1>3, OthersBillAsBefore, BookStays
  <1>4. CASE \/ \E c \in Classes : RemoveClass(c)
             \/ \E i \in Invoices : DeleteInvoice(i)
             \/ StaffInvoice \/ NextMonth
    BY <1>3, <1>4 DEF RemoveClass, DeleteInvoice, StaffInvoice, AddInvoice,
                      NextMonth, history
  <1> QED BY <1>1, <1>2, <1>4 DEF OtherAction

\* Every step of the requests that enrol is a step of the book, or none.
LEMMA EnrollingKeepsBook ==
  ASSUME BookInv, [EnrollmentNext]_enrollmentVars
  PROVE  [Book!Next]_(Book!book)
  <1>0. EnrollmentInv /\ EnrollmentTypeOK
    BY DEF BookInv, EnrollmentInv
  <1>1. ASSUME NEW r \in Slots, StartRequest(r) PROVE [Book!Next]_(Book!book)
    <2>1. PICK h : Goto(r, h) /\ h.pc \notin BillingPCs
      BY <1>0, <1>1, StartInv DEF EnrollmentInv
    <2>2. request'[r] = h /\ \A s \in Slots \ {r} : request'[s] = request[s]
      BY <1>0, <2>1 DEF Goto, EnrollmentTypeOK
    <2>3. UNCHANGED <<enr, billed, awaited>> /\ Idle(r)
      <3>1. UNCHANGED <<enr, billed, awaited>>
        BY <1>0, <1>1, StartInv DEF EnrollmentInv, history
      <3> QED BY <1>1, <3>1
          DEF StartRequest, StartEnroll, StartClassBulk, StartBulk,
              StartCreateStudent, StartUpdate, StartLeave, StartGenerate,
              StartSetStatus, StartToggle
    <2>4. BillsAsBefore(r)
      BY <2>1, <2>2, <2>3 DEF BillsAsBefore, Bills, BillingPCs, Idle
    <2>5. \A s \in Slots : BillsAsBefore(s)
      BY <1>0, <2>2, <2>4, OthersBillAsBefore
    <2> QED BY <2>3, <2>5, BookStays
  <1>2. CASE UNCHANGED enrollmentVars
    BY <1>0, <1>2, OthersBillAsBefore, BookStays DEF enrollmentVars
  <1> QED BY <1>0, <1>1, <1>2, NextCases, QuietKeepsBook, InsertKeepsBook,
             WriteKeepsBook, ChargeKeepsBook, OtherKeepsBook

\* Staff who enrol students in any number of classes and with any status,
\* replace, drop and change their enrolments, at once and failing anywhere,
\* keep the enrolment book: what a row saved late may bring back is in it.
THEOREM EnrollingIsByTheBook == EnrollmentSpec => KeepsEnrollmentBook
  <1>1. EnrollmentInit => Book!Init
    <2> SUFFICES ASSUME EnrollmentInit PROVE Book!Init
      OBVIOUS
    <2>1. AboutToBill = {}
      BY DEF EnrollmentInit, AboutToBill, IdleRequest
    <2> QED BY <2>1 DEF EnrollmentInit, NoRow, Book!Init
  <1>2. BookInv /\ [EnrollmentNext]_enrollmentVars => [Book!Next]_(Book!book)
    BY EnrollingKeepsBook
  <1> QED BY <1>1, <1>2, BookInvariance, PTL
          DEF EnrollmentSpec, KeepsEnrollmentBook, Book!Spec

-----------------------------------------------------------------------------
(***************************************************************************)
(* Invoice numbers: creations that race for the numbers of a year, for any *)
(* number of them, any supply of numbers and any number of tries.          *)
(*                                                                         *)
(* Budget ties the tries a creation has used to the inserts it has seen;   *)
(* GapFree is NoGaps for one number, and has to hold of a number that was  *)
(* read or brought as well as of those in the table.                       *)
(***************************************************************************)
\* The inserts of others a creation can blame, and the number it was given.
Excuse(r) == overtaken[r] + (IF req[r].given THEN 1 ELSE 0)

Budget(r) ==
    /\ req[r].pc \in {"idle", "read", "insert"} => req[r].tries <= Excuse(r)
    /\ req[r].pc = "insert" /\ req[r].number \in issued =>
          req[r].tries + 1 <= Excuse(r)
    /\ req[r].pc = "failed" => MaxRetries <= Excuse(r)
    /\ req[r].pc = "idle" => req[r].tries = 0 /\ ~req[r].given

GapFree(n) ==
    \A m \in Numbers : m < n /\ m \notin issued =>
        \E g \in Given : m < g /\ g <= n

BudgetInv == ~custom => \A r \in Requests : Budget(r)

\* Without such a number in the table none is made.
DigitsInv ==
    ~custom => /\ NaN \notin issued
               /\ \A r \in Requests : req[r].pc = "insert" => req[r].number # NaN

GapInv ==
    /\ \A n \in issued : GapFree(n)
    /\ \A r \in Requests : req[r].pc = "insert" => GapFree(req[r].number)

NumberingInv == TypeOK /\ BudgetInv /\ DigitsInv /\ GapInv

-----------------------------------------------------------------------------
USE ConstantsAssumption

LEMMA NumberingInit == Init => NumberingInv
  <1> SUFFICES ASSUME Init PROVE NumberingInv
    OBVIOUS
  <1>0. /\ 0 \in 0..(MaxRetries - 1) /\ 0 \in Nat
        /\ "idle" \in PCs /\ NaN \in Numbers \cup {NaN}
    BY DEF PCs
  <1>1. TypeOK
    <2>1. req \in [Requests -> [pc : PCs, number : Numbers \cup {NaN},
                                tries : 0..(MaxRetries - 1), given : BOOLEAN]]
      BY <1>0 DEF Init
    <2> QED
      BY <2>1, <1>0 DEF Init, TypeOK
  <1>2. DigitsInv /\ GapInv
    BY DEF Init, DigitsInv, GapInv
  <1>3. BudgetInv
    <2> SUFFICES ASSUME NEW r \in Requests PROVE Budget(r)
      BY DEF BudgetInv
    <2>1. req[r] = [pc |-> "idle", number |-> NaN, tries |-> 0, given |-> FALSE]
          /\ overtaken[r] = 0
      BY DEF Init
    <2>2. Excuse(r) = 0
      BY <2>1 DEF Excuse
    <2> QED
      BY <2>1, <2>2 DEF Budget
  <1> QED
    BY <1>1, <1>2, <1>3 DEF NumberingInv

\* Every step keeps the types.
LEMMA NumberingTypeStep == TypeOK /\ [Next]_vars => TypeOK'
  <1> SUFFICES ASSUME TypeOK, [Next]_vars PROVE TypeOK'
    OBVIOUS
  <1> USE DEF TypeOK, PCs, Numbers, NaN
  <1>1. ASSUME NEW r \in Requests, StartCreate(r) PROVE TypeOK'
    BY <1>1 DEF StartCreate
  <1>2. ASSUME NEW r \in Requests, NEW n \in Given, StartNumbered(r, n)
        PROVE TypeOK'
    <2>1. n \in Numbers \cup {NaN} /\ "insert" \in PCs
      OBVIOUS
    <2>2. req' = [req EXCEPT ![r] = [@ EXCEPT !.pc = "insert", !.number = n,
                                               !.given = TRUE]]
      BY <1>2 DEF StartNumbered
    <2> QED
      BY <1>2, <2>1, <2>2 DEF StartNumbered
  <1>3. ASSUME NEW r \in Requests, ReadNumber(r) PROVE TypeOK'
    <2>1. PICK n \in Numbers \cup {NaN} :
             req' = [req EXCEPT ![r].pc = "insert", ![r].number = n]
      BY <1>3 DEF ReadNumber
    <2>2. /\ n \in Numbers \cup {NaN} /\ "insert" \in PCs
          /\ req' = [req EXCEPT ![r] = [@ EXCEPT !.pc = "insert", !.number = n]]
      BY <2>1
    <2>3. UNCHANGED <<issued, deleted, custom, overtaken>>
      BY <1>3 DEF ReadNumber
    <2> QED
      BY <2>2, <2>3
  <1>4. ASSUME NEW r \in Requests, Insert(r) PROVE TypeOK'
    BY <1>4 DEF Insert
  <1>5. ASSUME NEW r \in Requests, TryAgain(r) PROVE TypeOK'
    BY <1>5 DEF TryAgain
  <1>6. ASSUME NEW r \in Requests, GiveUp(r) PROVE TypeOK'
    BY <1>6 DEF GiveUp
  <1>7. ASSUME NEW r \in Requests, Stop(r) PROVE TypeOK'
    BY <1>7 DEF Stop
  <1>8. ASSUME NEW n \in Numbers, RemoveInvoice(n) PROVE TypeOK'
    BY <1>8 DEF RemoveInvoice
  <1>9. ASSUME CustomNumber PROVE TypeOK'
    BY <1>9 DEF CustomNumber
  <1>10. ASSUME UNCHANGED vars PROVE TypeOK'
    BY <1>10 DEF vars
  <1> QED
    BY <1>1, <1>2, <1>3, <1>4, <1>5, <1>6, <1>7, <1>8, <1>9, <1>10 DEF Next

\* A number once issued stays so: its gaps are not reopened.
LEMMA GapFreeStays ==
    ASSUME NEW n, GapFree(n), issued \subseteq issued' PROVE GapFree(n)'
  BY DEF GapFree, Numbers

\* The next number opens no gap and is not in the table.
LEMMA NextNumber ==
    ASSUME TypeOK, DigitsInv, GapInv,
           NEW n \in Numbers \cup {NaN}, IsNextNumber(n)
    PROVE  GapFree(n) /\ (~custom => n # NaN /\ n \notin issued)
  <1>1. CASE custom \/ NaN \in issued
    BY <1>1 DEF IsNextNumber, DigitsInv, GapFree, Numbers, NaN
  <1>2. CASE ~(custom \/ NaN \in issued)
    <2>1. Follows(n, issued) /\ issued \subseteq Numbers
      BY <1>2 DEF IsNextNumber, TypeOK
    <2>2. n \in Nat /\ n \notin issued
      BY <2>1 DEF Follows, Numbers, NaN
    <2>3. n # NaN
      BY <2>1, <1>2 DEF Follows, Numbers, NaN
    <2>4. GapFree(n)
      <3> SUFFICES ASSUME NEW m \in Numbers, m < n, m \notin issued
                   PROVE  \E g \in Given : m < g /\ g <= n
        BY DEF GapFree
      <3>1. n - 1 \in issued /\ GapFree(n - 1)
        BY <2>1, <2>2 DEF Follows, GapInv, Numbers
      <3>2. m < n - 1
        BY <3>1, <2>2 DEF Numbers
      <3>3. PICK g \in Given : m < g /\ g <= n - 1
        BY <3>1, <3>2 DEF GapFree
      <3> QED
        BY <3>3, <2>2 DEF Numbers
    <2> QED
      BY <2>2, <2>3, <2>4
  <1> QED
    BY <1>1, <1>2

LEMMA DigitsStep == NumberingInv /\ [Next]_vars => DigitsInv'
  <1> SUFFICES ASSUME NumberingInv, [Next]_vars, ~custom' PROVE
               /\ NaN \notin issued'
               /\ \A r \in Requests : req'[r].pc = "insert" => req'[r].number # NaN
    BY DEF DigitsInv
  <1> USE DEF NumberingInv, TypeOK, DigitsInv
  <1>1. ASSUME NEW r \in Requests, StartCreate(r) PROVE DigitsInv'
    BY <1>1 DEF StartCreate
  <1>2. ASSUME NEW r \in Requests, NEW n \in Given, StartNumbered(r, n)
        PROVE DigitsInv'
    BY <1>2 DEF StartNumbered, Numbers, NaN
  <1>3. ASSUME NEW r \in Requests, ReadNumber(r) PROVE DigitsInv'
    BY <1>3, NextNumber DEF ReadNumber
  <1>4. ASSUME NEW r \in Requests, Insert(r) PROVE DigitsInv'
    BY <1>4 DEF Insert
  <1>5. ASSUME NEW r \in Requests, TryAgain(r) \/ GiveUp(r) \/ Stop(r)
        PROVE DigitsInv'
    BY <1>5 DEF TryAgain, GiveUp, Stop
  <1>6. ASSUME CustomNumber PROVE DigitsInv'
    BY <1>6 DEF CustomNumber
  <1>7. ASSUME \/ \E n \in Numbers : RemoveInvoice(n)
               \/ UNCHANGED vars
        PROVE DigitsInv'
    BY <1>7 DEF RemoveInvoice, vars
  <1> QED
    BY <1>1, <1>2, <1>3, <1>4, <1>5, <1>6, <1>7 DEF Next

LEMMA GapStep == NumberingInv /\ [Next]_vars => GapInv'
  <1> SUFFICES ASSUME NumberingInv, [Next]_vars PROVE GapInv'
    OBVIOUS
  <1> USE DEF NumberingInv, TypeOK, GapInv
  <1>0. ASSUME NEW n, GapFree(n), UNCHANGED issued PROVE GapFree(n)'
    BY <1>0, GapFreeStays
  <1>1. ASSUME NEW r \in Requests, StartCreate(r) PROVE GapInv'
    BY <1>1, <1>0 DEF StartCreate
  <1>2. ASSUME NEW r \in Requests, NEW n \in Given, StartNumbered(r, n)
        PROVE GapInv'
    <2>1. GapFree(n)
      BY DEF GapFree, Numbers
    <2> QED
      BY <1>2, <1>0, <2>1 DEF StartNumbered
  <1>3. ASSUME NEW r \in Requests, ReadNumber(r) PROVE GapInv'
    <2>1. PICK n \in Numbers \cup {NaN} :
             IsNextNumber(n)
             /\ req' = [req EXCEPT ![r].pc = "insert", ![r].number = n]
      BY <1>3 DEF ReadNumber
    <2>2. GapFree(n)
      BY <2>1, NextNumber
    <2> QED
      BY <1>3, <1>0, <2>1, <2>2 DEF ReadNumber
  <1>4. ASSUME NEW r \in Requests, Insert(r) PROVE GapInv'
    BY <1>4, GapFreeStays DEF Insert
  <1>5. ASSUME NEW r \in Requests, TryAgain(r) \/ GiveUp(r) \/ Stop(r)
        PROVE GapInv'
    BY <1>5, <1>0 DEF TryAgain, GiveUp, Stop
  <1>6. ASSUME \/ \E n \in Numbers : RemoveInvoice(n)
               \/ CustomNumber
               \/ UNCHANGED vars
        PROVE GapInv'
    BY <1>6, <1>0 DEF RemoveInvoice, CustomNumber, vars
  <1> QED
    BY <1>1, <1>2, <1>3, <1>4, <1>5, <1>6 DEF Next

LEMMA BudgetStep == NumberingInv /\ [Next]_vars => BudgetInv'
  <1> SUFFICES ASSUME NumberingInv, [Next]_vars, ~custom',
                      NEW q \in Requests
               PROVE  Budget(q)'
    BY DEF BudgetInv
  <1>a. ~custom
    BY DEF Next, StartCreate, StartNumbered, ReadNumber, Insert, TryAgain,
           GiveUp, Stop, RemoveInvoice, CustomNumber, vars
  <1>b. Budget(q)
    BY <1>a DEF NumberingInv, BudgetInv
  <1> USE <1>b DEF NumberingInv, TypeOK, Budget, Excuse
  <1>1. ASSUME NEW r \in Requests, StartCreate(r) PROVE Budget(q)'
    BY <1>1 DEF StartCreate
  <1>2. ASSUME NEW r \in Requests, NEW n \in Given, StartNumbered(r, n)
        PROVE Budget(q)'
    BY <1>2 DEF StartNumbered
  <1>3. ASSUME NEW r \in Requests, ReadNumber(r) PROVE Budget(q)'
    <2>1. PICK n \in Numbers \cup {NaN} :
             IsNextNumber(n)
             /\ req' = [req EXCEPT ![r].pc = "insert", ![r].number = n]
      BY <1>3 DEF ReadNumber
    <2>2. n \notin issued
      BY <2>1, <1>a, NextNumber
    <2> QED
      BY <1>3, <2>1, <2>2 DEF ReadNumber
  <1>4. ASSUME NEW r \in Requests, Insert(r) PROVE Budget(q)'
    BY <1>4 DEF Insert, Pending
  <1>5. ASSUME NEW r \in Requests, TryAgain(r) PROVE Budget(q)'
    BY <1>5 DEF TryAgain
  <1>6. ASSUME NEW r \in Requests, GiveUp(r) PROVE Budget(q)'
    BY <1>6 DEF GiveUp
  <1>7. ASSUME NEW r \in Requests, Stop(r) PROVE Budget(q)'
    BY <1>7 DEF Stop
  <1>8. ASSUME \/ \E n \in Numbers : RemoveInvoice(n)
               \/ CustomNumber
               \/ UNCHANGED vars
        PROVE Budget(q)'
    BY <1>8 DEF RemoveInvoice, CustomNumber, vars
  <1> QED
    BY <1>1, <1>2, <1>3, <1>4, <1>5, <1>6, <1>7, <1>8 DEF Next

\* All of the invariant, from the four parts.
LEMMA NumberingInvariance == Spec => []NumberingInv
  <1>1. NumberingInv /\ [Next]_vars => NumberingInv'
    BY NumberingTypeStep, DigitsStep, GapStep, BudgetStep DEF NumberingInv
  <1> QED
    BY NumberingInit, <1>1, PTL DEF Spec

\* The columns and the handlers' data always have their types; no creation
\* counts as many tries as it may have.
THEOREM NumberingTypes == Spec => []TypeOK
  BY NumberingInvariance, PTL DEF NumberingInv

\* However many creations race, one fails only if others got their invoices
\* while it tried: InvoicesService.create's retries are enough.
THEOREM FailsOnlyWhenOvertaken == Spec => []GivesUpOnlyWhenOvertaken
  <1>1. NumberingInv => GivesUpOnlyWhenOvertaken
    BY DEF NumberingInv, BudgetInv, Budget, Excuse, GivesUpOnlyWhenOvertaken,
           GivesUpOnlyInRaces, TypeOK
  <1> QED
    BY NumberingInvariance, <1>1, PTL

\* The numbers of a year have no gaps but those a given number leaves.
THEOREM NumbersAreContiguous == Spec => []NoGaps
  <1>1. NumberingInv => NoGaps
    BY DEF NumberingInv, GapInv, GapFree, NoGaps
  <1> QED
    BY NumberingInvariance, <1>1, PTL

=============================================================================
