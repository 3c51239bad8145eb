--------------------------- MODULE CheckoutProofs ---------------------------
(***************************************************************************)
(* What Checkout guarantees for any number of requests, carts, classes and *)
(* students.                                                               *)
(*                                                                         *)
(* The inductive invariant Inv adds to the properties what every handler   *)
(* relies on at each of its steps (Knows, Passed), what ties a handler     *)
(* that is about to raise an invoice to the tables (Billing), and what one *)
(* that is about to save a row read of it (Saving).                        *)
(***************************************************************************)
EXTENDS Checkout, TLAPS

ClearPCs == {"newCart", "saveCurrency", "clearGet", "clearRead", "clearDelete",
             "clearSave"}

\* What a handler h knows about its own data.
Knows(h) ==
    /\ h.pc # "idle" /\ h.op = "checkout" =>
          h.student \in Students /\ h.todo \subseteq h.bought
    /\ h.pc = "checkItem" => h.op = "checkout"
    /\ h.pc = "enroll" => /\ h.student \in Students /\ h.class \in Classes
                          /\ h.op # "checkout" => h.status \in RowStatus
    /\ h.pc = "rowSave" => /\ h.student \in Students /\ h.class \in Classes
                           /\ h.status \in RowStatus
    /\ h.pc = "bill" => /\ h.op = "checkout"
                        /\ h.student \in Students /\ h.class \in Classes
    /\ h.op = "checkout" /\ h.pc \in ClearPCs => h.todo = {}

\* A checkout left an enrolment in every class it has gone past.
Passed(h) ==
    h.pc # "idle" /\ h.op = "checkout" =>
        \A c \in h.bought \ h.todo : enr[<<h.student, c>>] # "none"

\* A handler that is about to raise an invoice has its enrolment, and no
\* invoice was raised for it.
Billing(h) ==
    h.pc = "bill" =>
        /\ enr[<<h.student, h.class>>] # "none"
        /\ billed[<<h.student, h.class>>] = 0

\* A handler that is about to save a row read it from the table, and lets it
\* wait for a payment only if it was entered to.
Saving(h) ==
    h.pc = "rowSave" =>
        /\ enr[<<h.student, h.class>>] # "none"
        /\ h.status = "pending_payment" =>
              <<h.student, h.class>> \in EnteredAwaiting

HandlerInv(h) == Knows(h) /\ Passed(h) /\ Billing(h) /\ Saving(h)

\* Two handlers never hold the same enrolment between its insert and its
\* invoice.
OneBiller ==
    \A r1, r2 \in Slots :
        At(r1, "bill") /\ At(r2, "bill") /\ PairOf(r1) = PairOf(r2) => r1 = r2

Inv ==
    /\ TypeOK
    /\ \A r \in Slots : HandlerInv(req[r])
    /\ OneBiller
    /\ OneInvoicePerEnrollment
    /\ AwaitedPaymentIsBilled
    /\ AnsweredCheckoutIsEnrolled

-----------------------------------------------------------------------------
(***************************************************************************)
(* Handlers are records; changing a field keeps them handlers.             *)
(***************************************************************************)

\* The empty handler is one.
LEMMA IdleType == IdleRequest \in Handlers
  BY DEF IdleRequest, Handlers, PCs, RequestOps

\* A handler with one field replaced by a value of its type is a handler.
LEMMA HandlerUpdate ==
  ASSUME NEW h \in Handlers
  PROVE  /\ \A x \in PCs : [h EXCEPT !.pc = x] \in Handlers
         /\ \A x \in RequestOps : [h EXCEPT !.op = x] \in Handlers
         /\ \A x \in Students \cup {None} : [h EXCEPT !.student = x] \in Handlers
         /\ \A x \in Classes \cup {None} : [h EXCEPT !.class = x] \in Handlers
         /\ \A x \in Carts \cup {None} : [h EXCEPT !.cart = x] \in Handlers
         /\ \A x \in SUBSET Classes : [h EXCEPT !.bought = x] \in Handlers
         /\ \A x \in SUBSET Classes : [h EXCEPT !.todo = x] \in Handlers
         /\ \A x \in SUBSET Items : [h EXCEPT !.rows = x] \in Handlers
         /\ \A x \in RowStatus \cup {None} : [h EXCEPT !.status = x] \in Handlers
  BY DEF Handlers

\* A handler is replaced by h: what the actions do to "req".
Replaces(r, h) == h \in Handlers /\ req' = [req EXCEPT ![r] = h]

\* Before it saves the cart for another currency, too.
LEMMA OtherCurrencyEffect ==
  ASSUME NEW r \in Slots, NEW start \in Handlers, OtherCurrency(r, start)
  PROVE  \E h : /\ Replaces(r, h)
                /\ h.pc = "saveCurrency"
                /\ h.op = start.op /\ h.student = start.student
                /\ h.bought = start.bought /\ h.todo = start.todo
<1>1. PICK k \in ActiveCarts :
        Begin(r, [start EXCEPT !.pc = "saveCurrency", !.cart = k,
                               !.rows = LiveRows(k)])
  BY DEF OtherCurrency
<1> DEFINE h1 == [start EXCEPT !.pc = "saveCurrency"]
           h2 == [h1 EXCEPT !.cart = k]
           h  == [h2 EXCEPT !.rows = LiveRows(k)]
<1>2. h1 \in Handlers /\ k \in Carts \cup {None} /\ LiveRows(k) \in SUBSET Items
  BY HandlerUpdate DEF PCs, ActiveCarts, LiveRows
<1>3. h2 \in Handlers
  BY <1>2, HandlerUpdate
<1>4. h \in Handlers
  BY <1>2, <1>3, HandlerUpdate
<1>5. Replaces(r, h)
  BY <1>1, <1>4 DEF Replaces, Begin
<1>6. /\ h.pc = "saveCurrency" /\ h.op = start.op /\ h.student = start.student
      /\ h.bought = start.bought /\ h.todo = start.todo
  BY DEF Handlers
<1>. QED BY <1>5, <1>6

\* getCart keeps the data of the request it is called for.
LEMMA OpenCartEffect ==
  ASSUME NEW r \in Slots, NEW start \in Handlers, OpenCart(r, start)
  PROVE  \E h : /\ Replaces(r, h)
                /\ h.pc \in {start.pc, "newCart", "saveCurrency"}
                /\ h.op = start.op /\ h.student = start.student
                /\ h.bought = start.bought /\ h.todo = start.todo
<1>1. CASE \E k \in ActiveCarts : Begin(r, [start EXCEPT !.cart = k])
  <2>1. PICK k \in ActiveCarts : Begin(r, [start EXCEPT !.cart = k])
    BY <1>1
  <2> DEFINE h == [start EXCEPT !.cart = k]
  <2>2. k \in Carts \cup {None}
    BY DEF ActiveCarts
  <2>3. Replaces(r, h)
    BY <2>1, <2>2, HandlerUpdate DEF Replaces, Begin
  <2>4. /\ h.pc = start.pc /\ h.op = start.op /\ h.student = start.student
        /\ h.bought = start.bought /\ h.todo = start.todo
    BY DEF Handlers
  <2>. QED BY <2>3, <2>4
<1>2. CASE Begin(r, [start EXCEPT !.pc = "newCart"])
  <2> DEFINE h == [start EXCEPT !.pc = "newCart"]
  <2>1. Replaces(r, h)
    BY <1>2, HandlerUpdate DEF Replaces, Begin, PCs
  <2>2. /\ h.pc = "newCart" /\ h.op = start.op /\ h.student = start.student
        /\ h.bought = start.bought /\ h.todo = start.todo
    BY DEF Handlers
  <2>. QED BY <2>1, <2>2
<1>. QED BY <1>1, <1>2, OtherCurrencyEffect DEF OpenCart

-----------------------------------------------------------------------------
(***************************************************************************)
(* Most steps change one handler that is not about to raise an invoice,    *)
(* and neither enrolments nor invoices.                                    *)
(***************************************************************************)

\* What was entered to wait for a payment stays so: a handler that goes on from
\* "bill" has raised the invoice, or is on record.
LEMMA AwaitingStays ==
  ASSUME NEW r \in Slots, \A q \in Slots \ {r} : req'[q] = req[q],
         broken \subseteq broken',
         \A x \in Pairs : billed[x] > 0 => billed'[x] > 0,
         req[r].pc = "bill" => \/ billed'[PairOf(r)] > 0
                               \/ PairOf(r) \in broken'
  PROVE  EnteredAwaiting \subseteq EnteredAwaiting'
<1> SUFFICES ASSUME NEW x \in EnteredAwaiting PROVE x \in EnteredAwaiting'
  OBVIOUS
<1>1. x \in Pairs
  BY DEF EnteredAwaiting
<1>2. CASE billed[x] > 0 \/ x \in broken
  BY <1>1, <1>2 DEF EnteredAwaiting
<1>3. ASSUME NEW q \in Slots, req[q].pc = "bill", PairOf(q) = x
      PROVE  x \in EnteredAwaiting'
  <2>1. CASE q = r
    BY <1>1, <1>3, <2>1 DEF EnteredAwaiting
  <2>2. CASE q # r
    BY <1>1, <1>3, <2>2 DEF EnteredAwaiting, AboutToBill, At, PairOf
  <2>. QED BY <2>1, <2>2
<1>. QED BY <1>2, <1>3 DEF EnteredAwaiting, AboutToBill, At

\* Another handler's row and what it waits for do not vanish.
LEMMA SavingStays ==
  ASSUME NEW h \in Handlers, Saving(h), Knows(h),
         EnteredAwaiting \subseteq EnteredAwaiting',
         \A x \in Pairs : enr[x] # "none" => enr'[x] # "none"
  PROVE  Saving(h)'
  BY DEF Saving, Knows, Pairs

\* Such a step keeps the invariant if the handler's new data is right.
LEMMA QuietStep ==
  ASSUME Inv, NEW r \in Slots, NEW h, Replaces(r, h),
         Knows(h), Passed(h), Saving(h),
         h.pc # "bill", req[r].pc # "bill",
         UNCHANGED <<enr, billed, classes, broken>>,
         carts' \in [Carts -> {"absent", "active", "inactive"}],
         items' \in [Items -> [cart : Carts \cup {None},
                               class : Classes \cup {None}, live : BOOLEAN]],
         done' \in SUBSET Pairs,
         \A p \in done' \ done : enr[p] # "none"
  PROVE  Inv'
<1>1. TypeOK'
  BY DEF Inv, TypeOK, Replaces
<1>2. /\ req'[r] = h
      /\ \A q \in Slots \ {r} : req'[q] = req[q]
  BY DEF Inv, TypeOK, Replaces
<1>3. ASSUME NEW q \in Slots PROVE HandlerInv(req[q])'
  <2>1. /\ req[q] \in Handlers /\ HandlerInv(req[q])
        /\ billed \in [Pairs -> Nat] /\ broken \subseteq broken'
    BY DEF Inv, TypeOK
  <2>2. EnteredAwaiting \subseteq EnteredAwaiting'
    BY <1>2, <2>1, AwaitingStays
  <2>3. CASE q = r
    <3>1. Saving(h)'
      BY <2>2, SavingStays DEF Replaces
    <3>. QED BY <1>2, <2>3, <3>1 DEF HandlerInv, Knows, Passed, Billing
  <2>4. CASE q # r
    <3>1. req'[q] = req[q]
      BY <1>2, <2>4
    <3>2. Saving(req[q])'
      BY <2>1, <2>2, <3>1, SavingStays DEF HandlerInv, Saving
    <3>. QED BY <2>1, <3>1, <3>2 DEF HandlerInv, Knows, Passed, Billing
  <2>. QED BY <2>3, <2>4
<1>4. OneBiller'
  BY <1>2 DEF Inv, OneBiller, At, PairOf
<1>5. OneInvoicePerEnrollment'
  BY DEF Inv, OneInvoicePerEnrollment
<1>6. AwaitedPaymentIsBilled'
  BY <1>2 DEF Inv, AwaitedPaymentIsBilled, At, PairOf
<1>7. AnsweredCheckoutIsEnrolled'
  BY DEF Inv, AnsweredCheckoutIsEnrolled
<1>. QED BY <1>1, <1>3, <1>4, <1>5, <1>6, <1>7 DEF Inv

\* The handler ends.
LEMMA QuietFinish ==
  ASSUME Inv, NEW r \in Slots, Finish(r), req[r].pc # "bill",
         UNCHANGED <<enr, billed, classes, broken>>,
         carts' \in [Carts -> {"absent", "active", "inactive"}],
         items' \in [Items -> [cart : Carts \cup {None},
                               class : Classes \cup {None}, live : BOOLEAN]],
         done' \in SUBSET Pairs,
         \A p \in done' \ done : enr[p] # "none"
  PROVE  Inv'
<1>1. Replaces(r, IdleRequest)
  BY IdleType DEF Finish, Replaces
<1>2. /\ Knows(IdleRequest) /\ Passed(IdleRequest) /\ Saving(IdleRequest)
      /\ IdleRequest.pc # "bill"
  BY DEF Knows, Passed, Saving, IdleRequest, ClearPCs
<1>. QED BY <1>1, <1>2, QuietStep

\* A step that only moves the handler of a cart request on.
LEMMA QuietGoto ==
  ASSUME Inv, NEW r \in Slots, NEW pc \in PCs, Goto(r, pc),
         req[r].pc \notin {"idle", "bill"},
         pc \notin {"idle", "checkItem", "enroll", "bill", "rowSave"},
         pc \in ClearPCs /\ req[r].op = "checkout" => req[r].pc \in ClearPCs,
         UNCHANGED <<carts, enr, billed, classes, done, broken>>,
         items' \in [Items -> [cart : Carts \cup {None},
                               class : Classes \cup {None}, live : BOOLEAN]]
  PROVE  Inv'
<1> DEFINE h == [req[r] EXCEPT !.pc = pc]
<1>1. req[r] \in Handlers /\ HandlerInv(req[r])
  BY DEF Inv, TypeOK
<1>2. Replaces(r, h)
  BY <1>1, HandlerUpdate DEF Replaces, Goto, Inv, TypeOK
<1>3. /\ h.pc = pc /\ h.op = req[r].op /\ h.student = req[r].student
      /\ h.bought = req[r].bought /\ h.todo = req[r].todo
  BY <1>1 DEF Handlers
<1>4. Knows(h) /\ Passed(h) /\ Saving(h)
  BY <1>1, <1>3 DEF HandlerInv, Knows, Passed, Saving, ClearPCs
<1> HIDE DEF h
<1>. QED BY <1>2, <1>3, <1>4, QuietStep DEF Inv, TypeOK

-----------------------------------------------------------------------------
(***************************************************************************)
(* The requests and the steps of the cart.                                 *)
(***************************************************************************)

\* A cart that is about to be saved for another currency.
LEMMA BeginSaveCurrency ==
  ASSUME Inv, NEW r \in Slots, NEW start \in Handlers, OtherCurrency(r, start),
         Idle(r), start.op = "checkout" => start.student \in Students,
         start.bought = {}, start.todo = {},
         UNCHANGED <<carts, items, enr, billed, classes, done, broken>>
  PROVE  Inv'
<1>1. PICK h : /\ Replaces(r, h)
               /\ h.pc = "saveCurrency"
               /\ h.op = start.op /\ h.student = start.student
               /\ h.bought = start.bought /\ h.todo = start.todo
  BY OtherCurrencyEffect
<1>2. Knows(h) /\ Passed(h) /\ Saving(h) /\ h.pc # "bill"
  BY <1>1 DEF Knows, Passed, Saving
<1>. QED BY <1>1, <1>2, QuietStep DEF Idle, Inv, TypeOK

\* A checkout that has its cart.
LEMMA BuyRowsInv ==
  ASSUME Inv, NEW r \in Slots, NEW k \in Carts \cup {None},
         NEW rows \in SUBSET Items,
         NEW st \in Students, BuyRows(r, k, rows, st), req[r].pc # "bill",
         UNCHANGED <<enr, billed, classes, done, broken>>,
         carts' \in [Carts -> {"absent", "active", "inactive"}],
         items' \in [Items -> [cart : Carts \cup {None},
                               class : Classes \cup {None}, live : BOOLEAN]]
  PROVE  Inv'
<1> DEFINE bought == {items[j].class : j \in rows} \cap classes
<1>1. CASE bought = {}
  BY <1>1, QuietFinish DEF BuyRows, Inv, TypeOK
<1>2. CASE bought # {}
  <2> DEFINE s1 == [IdleRequest EXCEPT !.op = "checkout"]
             s2 == [s1 EXCEPT !.pc = "checkItem"]
             s3 == [s2 EXCEPT !.student = st]
             s4 == [s3 EXCEPT !.cart = k]
             s5 == [s4 EXCEPT !.bought = bought]
             h  == [s5 EXCEPT !.todo = bought]
  <2>1. bought \in SUBSET Classes
    BY DEF Inv, TypeOK
  <2>2. s1 \in Handlers /\ s2 \in Handlers
    BY IdleType, HandlerUpdate DEF PCs, RequestOps
  <2>3. s3 \in Handlers /\ s4 \in Handlers
    BY <2>1, <2>2, HandlerUpdate
  <2>4. s5 \in Handlers /\ h \in Handlers
    BY <2>1, <2>3, HandlerUpdate
  <2>5. Replaces(r, h)
    BY <1>2, <2>4 DEF BuyRows, Begin, Replaces
  <2>6. /\ h.op = "checkout" /\ h.pc = "checkItem" /\ h.student = st
        /\ h.bought = bought /\ h.todo = bought
    BY DEF IdleRequest
  <2>7. Knows(h) /\ Passed(h) /\ Saving(h) /\ h.pc # "bill"
    BY <2>6 DEF Knows, Passed, Saving, ClearPCs
  <2> HIDE DEF h
  <2>. QED BY <2>5, <2>7, QuietStep DEF Inv, TypeOK
<1>. QED BY <1>1, <1>2

\* A row that waits for a payment was entered to.
LEMMA PendingWasEntered ==
  ASSUME Inv, NEW p \in Pairs, enr[p] = "pending_payment"
  PROVE  p \in EnteredAwaiting
  BY DEF Inv, TypeOK, AwaitedPaymentIsBilled, EnteredAwaiting, AboutToBill

\* A request starts from a handler that knows nothing of the tables yet, or
\* only what it has just read.
LEMMA StartRequestInv ==
  ASSUME Inv, NEW r \in Slots, StartRequest(r)
  PROVE  Inv'
<1> USE DEF Inv
<1>0. TypeOK /\ req[r] \in Handlers
  BY DEF TypeOK
<1>1. CASE StartGet(r)
  <2>1. CASE Begin(r, [IdleRequest EXCEPT !.pc = "newCart"])
    <3> DEFINE h == [IdleRequest EXCEPT !.pc = "newCart"]
    <3>1. Replaces(r, h)
      BY <2>1, IdleType, HandlerUpdate DEF Begin, Replaces, PCs
    <3>2. Knows(h) /\ Passed(h) /\ Saving(h) /\ h.pc # "bill"
      BY DEF IdleRequest, Knows, Passed, Saving
    <3> HIDE DEF h
    <3>. QED BY <1>0, <1>1, <3>1, <3>2, QuietStep DEF StartGet, Idle, TypeOK
  <2>2. CASE OtherCurrency(r, IdleRequest)
    BY <1>1, <2>2, IdleType, BeginSaveCurrency DEF IdleRequest, StartGet
  <2>. QED BY <1>1, <2>1, <2>2 DEF StartGet
<1>2. ASSUME NEW start \in Handlers, OpenCart(r, start), Idle(r),
             start.op # "checkout",
             start.pc \in {"addCheck", "removeRead", "clearRead"},
             UNCHANGED <<carts, items, enr, billed, classes, done, broken>>
      PROVE  Inv'
  <2>1. PICK h : /\ Replaces(r, h)
                 /\ h.pc \in {start.pc, "newCart", "saveCurrency"} /\ h.op = start.op
    BY <1>2, OpenCartEffect
  <2>2. Knows(h) /\ Passed(h) /\ Saving(h) /\ h.pc # "bill"
    BY <1>2, <2>1 DEF Knows, Passed, Saving
  <2>. QED BY <1>0, <1>2, <2>1, <2>2, QuietStep DEF Idle, TypeOK
<1>3. CASE StartClear(r)
  <2> DEFINE s1 == [IdleRequest EXCEPT !.op = "clear"]
             s2 == [s1 EXCEPT !.pc = "clearRead"]
  <2>1. s1 \in Handlers /\ s2 \in Handlers
    BY IdleType, HandlerUpdate DEF PCs, RequestOps
  <2>2. s2.op = "clear" /\ s2.pc = "clearRead"
    BY DEF IdleRequest
  <2>3. OpenCart(r, s2)
    BY <1>3 DEF StartClear
  <2> HIDE DEF s2
  <2>. QED BY <1>2, <1>3, <2>1, <2>2, <2>3 DEF StartClear
<1>4. ASSUME NEW c \in Classes, StartAdd(r, c) PROVE Inv'
  <2> DEFINE s1 == [IdleRequest EXCEPT !.op = "add"]
             s2 == [s1 EXCEPT !.pc = "addCheck"]
             s3 == [s2 EXCEPT !.class = c]
  <2>1. s1 \in Handlers /\ s2 \in Handlers /\ s3 \in Handlers
    BY IdleType, HandlerUpdate DEF PCs, RequestOps
  <2>2. s3.op = "add" /\ s3.pc = "addCheck"
    BY DEF IdleRequest
  <2>3. OpenCart(r, s3)
    BY <1>4 DEF StartAdd
  <2> HIDE DEF s3
  <2>. QED BY <1>2, <1>4, <2>1, <2>2, <2>3 DEF StartAdd
<1>5. ASSUME NEW c \in Classes, StartRemove(r, c) PROVE Inv'
  <2> DEFINE s1 == [IdleRequest EXCEPT !.op = "remove"]
             s2 == [s1 EXCEPT !.pc = "removeRead"]
             s3 == [s2 EXCEPT !.class = c]
  <2>1. s1 \in Handlers /\ s2 \in Handlers /\ s3 \in Handlers
    BY IdleType, HandlerUpdate DEF PCs, RequestOps
  <2>2. s3.op = "remove" /\ s3.pc = "removeRead"
    BY DEF IdleRequest
  <2>3. OpenCart(r, s3)
    BY <1>5 DEF StartRemove
  <2> HIDE DEF s3
  <2>. QED BY <1>2, <1>5, <2>1, <2>2, <2>3 DEF StartRemove
<1>6. ASSUME NEW st \in Students, StartCheckout(r, st) PROVE Inv'
  <2>1. ASSUME NEW k \in ActiveCarts, BuyRows(r, k, LiveRows(k), st)
        PROVE  Inv'
    BY <1>0, <1>6, <2>1, BuyRowsInv
       DEF StartCheckout, Idle, TypeOK, ActiveCarts, LiveRows
  <2>2. CASE OtherCurrency(r, [IdleRequest EXCEPT !.op = "checkout",
                                                  !.student = st])
    <3> DEFINE s1 == [IdleRequest EXCEPT !.op = "checkout"]
               start == [s1 EXCEPT !.student = st]
    <3>1. s1 \in Handlers
      BY IdleType, HandlerUpdate DEF RequestOps
    <3>2. start \in Handlers
      BY <3>1, HandlerUpdate
    <3>3. /\ start.op = "checkout" /\ start.student = st
          /\ start.bought = {} /\ start.todo = {}
      BY DEF IdleRequest
    <3>4. OtherCurrency(r, start)
      BY <2>2
    <3> HIDE DEF start
    <3>. QED BY <1>6, <3>2, <3>3, <3>4, BeginSaveCurrency DEF StartCheckout
  <2>. QED BY <1>6, <2>1, <2>2 DEF StartCheckout
<1>7. ASSUME NEW st \in Students, NEW c \in Classes,
             NEW status \in Statuses \cup {"active"},
             StartEnroll(r, st, c, status)
      PROVE Inv'
  <2> DEFINE s1 == [IdleRequest EXCEPT !.op = "enroll"]
             s2 == [s1 EXCEPT !.pc = "enroll"]
             s3 == [s2 EXCEPT !.student = st]
             s4 == [s3 EXCEPT !.class = c]
             h  == [s4 EXCEPT !.status = status]
  <2>1. s1 \in Handlers /\ s2 \in Handlers
    BY IdleType, HandlerUpdate DEF PCs, RequestOps
  <2>2. s3 \in Handlers /\ s4 \in Handlers
    BY <2>1, HandlerUpdate
  <2>3. status \in RowStatus
    BY ConstantsAssumption DEF RowStatus, EnrollmentStatus
  <2>4. h \in Handlers
    BY <2>2, <2>3, HandlerUpdate
  <2>5. Replaces(r, h)
    BY <1>7, <2>4 DEF StartEnroll, Begin, Replaces
  <2>6. /\ h.op = "enroll" /\ h.pc = "enroll"
        /\ h.student = st /\ h.class = c /\ h.status = status
    BY DEF IdleRequest
  <2>7. Knows(h) /\ Passed(h) /\ Saving(h) /\ h.pc # "bill"
    BY <2>3, <2>6 DEF Knows, Passed, Saving
  <2> HIDE DEF h
  <2>. QED BY <1>0, <1>7, <2>5, <2>7, QuietStep DEF StartEnroll, Idle, TypeOK
<1>8. ASSUME NEW st \in Students, NEW c \in Classes,
             NEW status \in Statuses \cup {"active", enr[<<st, c>>]},
             StartRowUpdate(r, st, c, status)
      PROVE Inv'
  <2> DEFINE s1 == [IdleRequest EXCEPT !.op = "update"]
             s2 == [s1 EXCEPT !.pc = "rowSave"]
             s3 == [s2 EXCEPT !.student = st]
             s4 == [s3 EXCEPT !.class = c]
             h  == [s4 EXCEPT !.status = status]
             p  == <<st, c>>
  <2>1. s1 \in Handlers /\ s2 \in Handlers
    BY IdleType, HandlerUpdate DEF PCs, RequestOps
  <2>2. s3 \in Handlers /\ s4 \in Handlers
    BY <2>1, HandlerUpdate
  <2>3. /\ p \in Pairs /\ enr[p] # "none" /\ enr[p] \in RowStatus
        /\ status \in EnrollmentStatus \cup {enr[p]} /\ status \in RowStatus
    BY <1>0, <1>8 DEF StartRowUpdate, Pairs, TypeOK, RowStatus
  <2>4. h \in Handlers
    BY <2>2, <2>3, HandlerUpdate
  <2>5. Replaces(r, h)
    BY <1>8, <2>4 DEF StartRowUpdate, Begin, Replaces
  <2>6. /\ h.op = "update" /\ h.pc = "rowSave"
        /\ h.student = st /\ h.class = c /\ h.status = status
    BY DEF IdleRequest
  <2>7. status = "pending_payment" => p \in EnteredAwaiting
    BY <2>3, PendingWasEntered DEF EnrollmentStatus
  <2>8. Knows(h) /\ Passed(h) /\ Saving(h) /\ h.pc # "bill"
    BY <2>3, <2>6, <2>7 DEF Knows, Passed, Saving
  <2> HIDE DEF h
  <2>. QED BY <1>0, <1>8, <2>5, <2>8, QuietStep
       DEF StartRowUpdate, Idle, TypeOK
<1>. QED BY <1>1, <1>3, <1>4, <1>5, <1>6, <1>7, <1>8, StartRequest(r)
     DEF StartRequest

\* Every step on the cart, those of a checkout that clears it included.
LEMMA CartStepInv ==
  ASSUME Inv, NEW r \in Slots, CartStep(r)
  PROVE  Inv'
<1> USE DEF Inv
<1>0. /\ TypeOK /\ req[r] \in Handlers
      /\ Knows(req[r]) /\ Passed(req[r])
  BY DEF TypeOK, HandlerInv
<1>1. CASE NewCart(r)
  <2>0. PICK k \in Carts :
          /\ carts' = [carts EXCEPT ![k] = "active"]
          /\ \/ req[r].op = "get" /\ Finish(r)
             \/ /\ req[r].op # "get"
                /\ req' = [req EXCEPT ![r].cart = k,
                                      ![r].pc = AfterGetCart(req[r].op)]
    BY <1>1 DEF NewCart
  <2>1. carts' \in [Carts -> {"absent", "active", "inactive"}]
    BY <1>0, <2>0 DEF TypeOK
  <2>2. CASE Finish(r)
    BY <1>0, <1>1, <2>1, <2>2, QuietFinish DEF NewCart, At, TypeOK
  <2>3. CASE req' = [req EXCEPT ![r].cart = k,
                                ![r].pc = AfterGetCart(req[r].op)]
    <3> DEFINE h1 == [req[r] EXCEPT !.cart = k]
               h  == [h1 EXCEPT !.pc = AfterGetCart(req[r].op)]
    <3>1. h1 \in Handlers
      BY <1>0, HandlerUpdate
    <3>2. h \in Handlers
      BY <3>1, HandlerUpdate DEF AfterGetCart, PCs
    <3>3. Replaces(r, h)
      BY <1>0, <2>3, <3>2 DEF Replaces, TypeOK
    <3>4. /\ h.pc \in {"addCheck", "removeRead", "clearRead"}
          /\ h.op = req[r].op /\ h.student = req[r].student
          /\ h.bought = req[r].bought /\ h.todo = req[r].todo
      BY <1>0 DEF Handlers, AfterGetCart
    <3>5. Knows(h) /\ Passed(h) /\ Saving(h)
      BY <1>0, <1>1, <3>4 DEF Knows, Passed, Saving, NewCart, At, ClearPCs
    <3> HIDE DEF h
    <3>. QED BY <1>0, <1>1, <2>1, <3>3, <3>4, <3>5, QuietStep
         DEF NewCart, At, TypeOK
  <2>. QED BY <2>0, <2>2, <2>3
<1>2. CASE AddCheck(r)
  <2>1. CASE Finish(r)
    BY <1>0, <1>2, <2>1, QuietFinish DEF AddCheck, At, TypeOK
  <2>2. CASE Goto(r, "addInsert")
    BY <1>0, <1>2, <2>2, QuietGoto DEF AddCheck, At, TypeOK, PCs, ClearPCs
  <2>. QED BY <1>2, <2>1, <2>2 DEF AddCheck
<1>3. CASE AddInsert(r)
  <2>1. PICK j \in Items : items' = [items EXCEPT ![j] =
               [cart |-> req[r].cart, class |-> req[r].class, live |-> TRUE]]
    BY <1>3 DEF AddInsert
  <2>2. items' \in [Items -> [cart : Carts \cup {None},
                              class : Classes \cup {None}, live : BOOLEAN]]
    BY <1>0, <2>1 DEF TypeOK, Handlers
  <2>. QED BY <1>0, <1>3, <2>2, QuietFinish DEF AddInsert, At, TypeOK
<1>4. CASE RemoveRead(r)
  <2>1. ASSUME NEW j \in LiveRows(req[r].cart),
               req' = [req EXCEPT ![r].pc = "removeDelete", ![r].rows = {j}]
        PROVE  Inv'
    <3> DEFINE h1 == [req[r] EXCEPT !.pc = "removeDelete"]
               h  == [h1 EXCEPT !.rows = {j}]
    <3>1. h1 \in Handlers /\ {j} \in SUBSET Items
      BY <1>0, HandlerUpdate DEF PCs, LiveRows
    <3>2. h \in Handlers
      BY <3>1, HandlerUpdate
    <3>3. Replaces(r, h)
      BY <1>0, <2>1, <3>2 DEF Replaces, TypeOK
    <3>4. /\ h.pc = "removeDelete"
          /\ h.op = req[r].op /\ h.student = req[r].student
          /\ h.bought = req[r].bought /\ h.todo = req[r].todo
      BY <1>0 DEF Handlers
    <3>5. Knows(h) /\ Passed(h) /\ Saving(h)
      BY <1>0, <1>4, <3>4 DEF Knows, Passed, Saving, RemoveRead, At, ClearPCs
    <3> HIDE DEF h
    <3>. QED BY <1>0, <1>4, <3>3, <3>4, <3>5, QuietStep
         DEF RemoveRead, At, TypeOK
  <2>2. CASE Finish(r)
    BY <1>0, <1>4, <2>2, QuietFinish DEF RemoveRead, At, TypeOK
  <2>. QED BY <1>4, <2>1, <2>2 DEF RemoveRead
<1>5. ASSUME NEW rows, DeleteRows(rows)
      PROVE  items' \in [Items -> [cart : Carts \cup {None},
                                   class : Classes \cup {None}, live : BOOLEAN]]
  <2> SUFFICES ASSUME NEW j \in Items
               PROVE  [items[j] EXCEPT !.live = @ /\ j \notin rows]
                      \in [cart : Carts \cup {None},
                          class : Classes \cup {None}, live : BOOLEAN]
    BY <1>5 DEF DeleteRows
  <2>. QED BY <1>0, Zenon DEF TypeOK
<1>6. CASE RemoveDelete(r)
  BY <1>0, <1>5, <1>6, QuietFinish DEF RemoveDelete, At, TypeOK
<1>7. CASE ClearGet(r)
  <2> DEFINE start == [req[r] EXCEPT !.pc = "clearRead"]
  <2>1. start \in Handlers
    BY <1>0, HandlerUpdate DEF PCs
  <2>2. /\ start.pc = "clearRead"
        /\ start.op = req[r].op /\ start.student = req[r].student
        /\ start.bought = req[r].bought /\ start.todo = req[r].todo
    BY <1>0 DEF Handlers
  <2>3. OpenCart(r, start)
    BY <1>7 DEF ClearGet
  <2> HIDE DEF start
  <2>4. PICK h : /\ Replaces(r, h)
                 /\ h.pc \in {start.pc, "newCart", "saveCurrency"}
                 /\ h.op = start.op /\ h.student = start.student
                 /\ h.bought = start.bought /\ h.todo = start.todo
    BY <2>1, <2>3, OpenCartEffect
  <2>5. Knows(h) /\ Passed(h) /\ Saving(h) /\ h.pc # "bill"
    BY <1>0, <1>7, <2>2, <2>4 DEF Knows, Passed, Saving, ClearGet, At, ClearPCs
  <2>. QED BY <1>0, <1>7, <2>4, <2>5, QuietStep DEF ClearGet, At, TypeOK
<1>8. CASE ClearRead(r)
  <2> DEFINE h1 == [req[r] EXCEPT !.pc = "clearDelete"]
             h  == [h1 EXCEPT !.rows = LiveRows(req[r].cart)]
  <2>1. h1 \in Handlers /\ LiveRows(req[r].cart) \in SUBSET Items
    BY <1>0, HandlerUpdate DEF PCs, LiveRows
  <2>2. h \in Handlers
    BY <2>1, HandlerUpdate
  <2>3. Replaces(r, h)
    BY <1>0, <1>8, <2>2 DEF Replaces, ClearRead, TypeOK
  <2>4. /\ h.pc = "clearDelete"
        /\ h.op = req[r].op /\ h.student = req[r].student
        /\ h.bought = req[r].bought /\ h.todo = req[r].todo
    BY <1>0 DEF Handlers
  <2>5. Knows(h) /\ Passed(h) /\ Saving(h)
    BY <1>0, <1>8, <2>4 DEF Knows, Passed, Saving, ClearRead, At, ClearPCs
  <2> HIDE DEF h
  <2>. QED BY <1>0, <1>8, <2>3, <2>4, <2>5, QuietStep DEF ClearRead, At, TypeOK
<1>9. CASE ClearDelete(r)
  BY <1>0, <1>5, <1>9, QuietGoto DEF ClearDelete, At, TypeOK, PCs, ClearPCs
<1>10. CASE ClearSave(r)
  <2>1. ASSUME LiveRows(req[r].cart) = {}
        PROVE  /\ carts' \in [Carts -> {"absent", "active", "inactive"}]
               /\ items' \in [Items -> [cart : Carts \cup {None},
                                  class : Classes \cup {None}, live : BOOLEAN]]
    <3>1. \A j \in Items :
            [items[j] EXCEPT !.live = @ \/ j \in req[r].rows]
              \in [cart : Carts \cup {None},
                  class : Classes \cup {None}, live : BOOLEAN]
      BY <1>0, Zenon DEF TypeOK
    <3>2. items' \in [Items -> [cart : Carts \cup {None},
                                class : Classes \cup {None}, live : BOOLEAN]]
      <4>1. items' = [j \in Items |->
                        [items[j] EXCEPT !.live = @ \/ j \in req[r].rows]]
        BY <1>10, <2>1, Zenon DEF ClearSave
      <4>. QED BY <3>1, <4>1, Zenon
    <3>3. carts' \in [Carts -> {"absent", "active", "inactive"}]
      BY <1>0, <1>10, <2>1 DEF ClearSave, TypeOK
    <3>. QED BY <3>2, <3>3
  <2>2. ASSUME req[r].op = "checkout"
        PROVE  /\ {req[r].student} \X req[r].bought \in SUBSET Pairs
               /\ \A p \in {req[r].student} \X req[r].bought : enr[p] # "none"
    BY <1>0, <1>10, <2>2
       DEF ClearSave, At, Knows, Passed, Saving, ClearPCs, Pairs, Handlers
  <2>3. /\ done' \in SUBSET Pairs
        /\ \A p \in done' \ done : enr[p] # "none"
    BY <1>0, <1>10, <2>2 DEF ClearSave, TypeOK
  <2>4. /\ carts' \in [Carts -> {"absent", "active", "inactive"}]
        /\ items' \in [Items -> [cart : Carts \cup {None},
                               class : Classes \cup {None}, live : BOOLEAN]]
    BY <1>0, <1>10, <2>1 DEF ClearSave, TypeOK
  <2>. QED BY <1>0, <1>10, <2>3, <2>4, QuietFinish DEF ClearSave, At
<1>11. CASE SaveCurrency(r)
  <2>1. /\ carts' \in [Carts -> {"absent", "active", "inactive"}]
        /\ UNCHANGED <<enr, billed, classes, done, broken>>
        /\ req[r].pc = "saveCurrency" /\ done \in SUBSET Pairs
    BY <1>0, <1>11 DEF SaveCurrency, At, TypeOK
  <2>2. items' \in [Items -> [cart : Carts \cup {None},
                              class : Classes \cup {None}, live : BOOLEAN]]
    <3>1. \A j \in Items :
            [items[j] EXCEPT !.live = @ \/ j \in req[r].rows]
              \in [cart : Carts \cup {None},
                  class : Classes \cup {None}, live : BOOLEAN]
      BY <1>0, Zenon DEF TypeOK
    <3>2. \/ items' = [j \in Items |->
                         [items[j] EXCEPT !.live = @ \/ j \in req[r].rows]]
          \/ items' = items
      BY <1>11, Zenon DEF SaveCurrency
    <3>. QED BY <1>0, <3>1, <3>2, Zenon DEF TypeOK
  <2>3. CASE Finish(r)
    BY <2>1, <2>2, <2>3, QuietFinish
  <2>4. CASE /\ req[r].op = "checkout"
             /\ BuyRows(r, req[r].cart, req[r].rows, req[r].student)
    <3>1. /\ req[r].student \in Students /\ req[r].rows \in SUBSET Items
          /\ req[r].cart \in Carts \cup {None}
      BY <1>0, <2>1, <2>4 DEF Knows, Handlers
    <3>. QED BY <2>1, <2>2, <2>4, <3>1, BuyRowsInv
  <2>5. CASE req' = [req EXCEPT ![r].rows = {},
                                ![r].pc = AfterGetCart(req[r].op)]
    <3> DEFINE h1 == [req[r] EXCEPT !.rows = {}]
               h  == [h1 EXCEPT !.pc = AfterGetCart(req[r].op)]
    <3>1. h1 \in Handlers
      BY <1>0, HandlerUpdate
    <3>2. h \in Handlers
      BY <3>1, HandlerUpdate DEF AfterGetCart, PCs
    <3>3. Replaces(r, h)
      BY <1>0, <2>5, <3>2 DEF Replaces, TypeOK
    <3>4. /\ h.pc \in {"addCheck", "removeRead", "clearRead"}
          /\ h.op = req[r].op /\ h.student = req[r].student
          /\ h.bought = req[r].bought /\ h.todo = req[r].todo
      BY <1>0 DEF Handlers, AfterGetCart
    <3>5. Knows(h) /\ Passed(h) /\ Saving(h)
      BY <1>0, <2>1, <3>4 DEF Knows, Passed, Saving, ClearPCs
    <3> HIDE DEF h
    <3>. QED BY <2>1, <2>2, <3>3, <3>4, <3>5, QuietStep
  <2>. QED BY <1>11, <2>3, <2>4, <2>5 DEF SaveCurrency
<1>. QED BY <1>1, <1>2, <1>3, <1>4, <1>6, <1>7, <1>8, <1>9, <1>10, <1>11
     DEF CartStep

-----------------------------------------------------------------------------
(***************************************************************************)
(* The steps of a checkout.                                                *)
(***************************************************************************)

\* Going on from class c to the rest of the basket.
LEMMA AdvanceEffect ==
  ASSUME Inv, NEW r \in Slots, NEW c, Advance(r, c)
  PROVE  \E h : /\ Replaces(r, h)
                /\ h.pc = IF req[r].todo = {c} THEN "clearGet" ELSE "checkItem"
                /\ h.op = req[r].op /\ h.student = req[r].student
                /\ h.bought = req[r].bought /\ h.todo = req[r].todo \ {c}
<1> DEFINE pc == IF req[r].todo = {c} THEN "clearGet" ELSE "checkItem"
           h1 == [req[r] EXCEPT !.class = None]
           h2 == [h1 EXCEPT !.todo = req[r].todo \ {c}]
           h  == [h2 EXCEPT !.pc = pc]
<1>1. req[r] \in Handlers /\ TypeOK
  BY DEF Inv, TypeOK
<1>2. h1 \in Handlers /\ req[r].todo \ {c} \in SUBSET Classes
  BY <1>1, HandlerUpdate DEF Handlers
<1>3. h2 \in Handlers
  BY <1>2, HandlerUpdate
<1>4. h \in Handlers
  BY <1>3, HandlerUpdate DEF PCs
<1>5. Replaces(r, h)
  BY <1>1, <1>4 DEF Advance, Replaces, TypeOK
<1>6. /\ h.pc = pc /\ h.op = req[r].op /\ h.student = req[r].student
      /\ h.bought = req[r].bought /\ h.todo = req[r].todo \ {c}
  BY <1>1 DEF Handlers
<1>. QED BY <1>5, <1>6

\* The check of an item: skipped only because there is an enrolment.
LEMMA CheckItemInv ==
  ASSUME Inv, NEW r \in Slots, CheckItem(r)
  PROVE  Inv'
<1> USE DEF Inv
<1>0. /\ TypeOK /\ req[r] \in Handlers
      /\ Knows(req[r]) /\ Passed(req[r]) /\ req[r].pc = "checkItem"
  BY DEF TypeOK, HandlerInv, CheckItem, At
<1>1. PICK c \in req[r].todo :
        IF enr[<<req[r].student, c>>] # "none"
        THEN Advance(r, c)
        ELSE req' = [req EXCEPT ![r].pc = "enroll", ![r].class = c]
  BY DEF CheckItem
<1>2. CASE enr[<<req[r].student, c>>] # "none"
  <2>1. PICK h :
          /\ Replaces(r, h)
          /\ h.pc = IF req[r].todo = {c} THEN "clearGet" ELSE "checkItem"
          /\ h.op = req[r].op /\ h.student = req[r].student
          /\ h.bought = req[r].bought /\ h.todo = req[r].todo \ {c}
    BY <1>1, <1>2, AdvanceEffect
  <2>2. Knows(h) /\ Passed(h) /\ Saving(h) /\ h.pc # "bill"
    BY <1>0, <1>2, <2>1 DEF Knows, Passed, Saving, ClearPCs
  <2>. QED BY <1>0, <2>1, <2>2, QuietStep DEF CheckItem, TypeOK
<1>3. CASE ~(enr[<<req[r].student, c>>] # "none")
  <2> DEFINE h1 == [req[r] EXCEPT !.pc = "enroll"]
             h  == [h1 EXCEPT !.class = c]
  <2>0. c \in Classes
    BY <1>0 DEF Handlers
  <2>1. h1 \in Handlers
    BY <1>0, HandlerUpdate DEF PCs
  <2>2. h \in Handlers
    BY <2>0, <2>1, HandlerUpdate
  <2>3. Replaces(r, h)
    BY <1>0, <1>1, <1>3, <2>2 DEF Replaces, TypeOK
  <2>4. /\ h.pc = "enroll" /\ h.class = c
        /\ h.op = req[r].op /\ h.student = req[r].student
        /\ h.bought = req[r].bought /\ h.todo = req[r].todo
    BY <1>0 DEF Handlers
  <2>5. Knows(h) /\ Passed(h) /\ Saving(h)
    BY <1>0, <2>0, <2>4 DEF Knows, Passed, Saving, ClearPCs
  <2> HIDE DEF h
  <2>. QED BY <1>0, <2>3, <2>4, <2>5, QuietStep DEF CheckItem, TypeOK
<1>. QED BY <1>2, <1>3

\* The insert of an enrolment: no other handler can be about to bill the same
\* one, because a handler that is has it in the table.
LEMMA EnrollInv ==
  ASSUME Inv, NEW r \in Slots, Enroll(r)
  PROVE  Inv'
<1> USE DEF Inv
<1> DEFINE p == PairOf(r)
<1>0. /\ TypeOK /\ req[r] \in Handlers /\ req[r].pc = "enroll"
      /\ Knows(req[r]) /\ Passed(req[r])
      /\ p \in Pairs
  BY DEF TypeOK, HandlerInv, Enroll, At, Knows, Pairs, PairOf
<1>1. CASE enr[p] # "none"
  BY <1>0, <1>1, QuietFinish DEF Enroll, TypeOK
<1>2. CASE enr[p] = "none"
  <2> DEFINE status == FirstStatus(r)
  <2>0. /\ enr' = [enr EXCEPT ![p] = status] /\ status \in RowStatus
        /\ UNCHANGED <<carts, items, billed, classes, done>>
    BY <1>0, <1>2 DEF Enroll, FirstStatus, Knows, RowStatus
  <2>1. PICK h :
          /\ Replaces(r, h)
          /\ \/ /\ req[r].op = "checkout" /\ status = "pending_payment"
                /\ h = [req[r] EXCEPT !.pc = "bill"] /\ broken' = broken
             \/ /\ req[r].op # "checkout" /\ h = IdleRequest
                /\ broken' = IF status = "pending_payment"
                             THEN broken \cup {p} ELSE broken
    <3>1. CASE req[r].op = "checkout"
      <4>1. Replaces(r, [req[r] EXCEPT !.pc = "bill"])
        BY <1>0, <1>2, <3>1, HandlerUpdate
           DEF Enroll, Goto, Replaces, PCs, TypeOK
      <4>. QED BY <1>2, <3>1, <4>1 DEF Enroll, FirstStatus
    <3>2. CASE req[r].op # "checkout"
      <4>1. Replaces(r, IdleRequest)
        BY <1>2, <3>2, IdleType DEF Enroll, Finish, Replaces
      <4>. QED BY <1>2, <3>2, <4>1 DEF Enroll
    <3>. QED BY <3>1, <3>2
  <2> HIDE DEF status
  <2>2. /\ h.pc \in {"bill", "idle"}
        /\ h.pc = "bill" =>
             /\ h.op = "checkout" /\ req[r].op = "checkout"
             /\ h.student = req[r].student /\ h.class = req[r].class
             /\ h.bought = req[r].bought /\ h.todo = req[r].todo
        /\ status = "pending_payment" => h.pc = "bill" \/ p \in broken'
        /\ h.pc = "idle" => h.op = "get"
        /\ broken \subseteq broken' /\ broken' \in SUBSET Pairs
    BY <1>0, <2>1 DEF Handlers, IdleRequest, TypeOK
  <2>3. /\ req'[r] = h /\ req' \in [Slots -> Handlers]
        /\ \A q \in Slots \ {r} : req'[q] = req[q]
    BY <1>0, <2>1 DEF Replaces, TypeOK
  <2>4. /\ enr'[p] = status /\ status # "none"
        /\ \A x \in Pairs \ {p} : enr'[x] = enr[x]
        /\ UNCHANGED <<carts, items, billed, classes, done>>
    BY <1>0, <2>0 DEF TypeOK, RowStatus, EnrollmentStatus
  <2>5. billed[p] = 0 /\ billed \in [Pairs -> Nat]
    BY <1>0, <1>2 DEF OneInvoicePerEnrollment, TypeOK
  <2>6. TypeOK'
    <3>1. enr' \in [Pairs -> RowStatus \cup {"none"}]
      BY <1>0, <2>0 DEF TypeOK
    <3>. QED BY <1>0, <2>2, <2>3, <2>4, <3>1 DEF TypeOK
  <2>7. /\ \A x \in Pairs : enr[x] # "none" => enr'[x] # "none"
        /\ EnteredAwaiting \subseteq EnteredAwaiting'
    BY <1>0, <1>2, <2>2, <2>3, <2>4, AwaitingStays
  <2>8. ASSUME NEW q \in Slots PROVE HandlerInv(req[q])'
    <3>1. CASE q = r
      <4>1. Knows(h) /\ h.pc # "rowSave"
        BY <1>0, <2>2 DEF Knows, ClearPCs, Handlers
      <4>2. h.pc = "bill" => <<h.student, h.class>> = p
        BY <2>2 DEF PairOf
      <4>3. h.pc = "bill" => enr'[p] # "none" /\ billed'[p] = 0
        BY <2>4, <2>5
      <4>4. h.pc = "bill" =>
              \A x \in h.bought \ h.todo : enr'[<<h.student, x>>] # "none"
        BY <1>0, <2>2, <2>7 DEF Passed, Knows, Handlers, Pairs
      <4>. QED BY <2>2, <2>3, <3>1, <4>1, <4>2, <4>3, <4>4
           DEF HandlerInv, Knows, Passed, Saving, Billing
    <3>2. CASE q # r
      <4>1. req'[q] = req[q] /\ HandlerInv(req[q]) /\ req[q] \in Handlers
        BY <1>0, <2>3, <3>2 DEF TypeOK
      <4>2. Passed(req[q])'
        BY <2>7, <4>1 DEF HandlerInv, Passed, Knows, Handlers, Pairs
      <4>3. Saving(req[q])'
        BY <2>7, <4>1, SavingStays DEF HandlerInv, Saving
      <4>. QED BY <2>4, <2>7, <4>1, <4>2, <4>3
           DEF HandlerInv, Billing, Knows, Handlers, Pairs
    <3>. QED BY <3>1, <3>2
  <2>9. OneBiller'
    <3> SUFFICES ASSUME NEW q \in Slots, q # r, req'[r].pc = "bill",
                        req[q].pc = "bill", PairOf(q) = p
                 PROVE  FALSE
      BY <2>2, <2>3 DEF OneBiller, At, PairOf
    <3>. QED BY <1>2 DEF HandlerInv, Billing, PairOf
  <2>10. OneInvoicePerEnrollment'
    BY <2>4, <2>7 DEF OneInvoicePerEnrollment
  <2>11. AwaitedPaymentIsBilled'
    <3> SUFFICES ASSUME NEW x \in Pairs, enr'[x] = "pending_payment"
                 PROVE  \/ billed[x] = 1 \/ x \in broken'
                        \/ \E q \in Slots : req'[q].pc = "bill"
                              /\ <<req'[q].student, req'[q].class>> = x
      BY <2>4 DEF AwaitedPaymentIsBilled, At, PairOf
    <3>1. CASE x = p
      BY <2>2, <2>3, <2>4, <3>1 DEF PairOf
    <3>2. CASE x # p
      <4>1. \/ billed[x] = 1 \/ x \in broken
            \/ \E q \in Slots : req[q].pc = "bill"
                  /\ <<req[q].student, req[q].class>> = x
        BY <2>4, <3>2 DEF AwaitedPaymentIsBilled, At, PairOf
      <4>. QED BY <1>0, <2>2, <2>3, <4>1
    <3>. QED BY <3>1, <3>2
  <2>12. AnsweredCheckoutIsEnrolled'
    BY <1>0, <2>4, <2>7 DEF AnsweredCheckoutIsEnrolled, TypeOK
  <2>. QED BY <2>6, <2>8, <2>9, <2>10, <2>11, <2>12
<1>. QED BY <1>1, <1>2

\* The insert of an invoice: the first for its enrolment, by the only handler
\* that is about to raise one.
LEMMA BillInv ==
  ASSUME Inv, NEW r \in Slots, Bill(r)
  PROVE  Inv'
<1> USE DEF Inv
<1> DEFINE p == PairOf(r)
<1>0. /\ TypeOK /\ req[r] \in Handlers /\ req[r].pc = "bill"
      /\ Knows(req[r]) /\ Passed(req[r]) /\ Billing(req[r])
      /\ p \in Pairs /\ enr[p] # "none" /\ billed[p] = 0
  BY DEF TypeOK, HandlerInv, Billing, Bill, At, Knows, Pairs, PairOf
<1>1. PICK h :
        /\ Replaces(r, h) /\ h.pc # "bill" /\ Knows(h) /\ Passed(h) /\ Saving(h)
  <2>1. CASE req[r].class \in classes
    <3>1. PICK h :
            /\ Replaces(r, h)
            /\ h.pc = IF req[r].todo = {req[r].class}
                      THEN "clearGet" ELSE "checkItem"
            /\ h.op = req[r].op /\ h.student = req[r].student
            /\ h.bought = req[r].bought /\ h.todo = req[r].todo \ {req[r].class}
      BY <2>1, AdvanceEffect DEF Bill
    <3>2. Knows(h) /\ Passed(h) /\ Saving(h) /\ h.pc # "bill"
      BY <1>0, <3>1 DEF Knows, Passed, Saving, ClearPCs, PairOf
    <3>. QED BY <3>1, <3>2
  <2>2. CASE req[r].class \notin classes
    <3>1. Replaces(r, IdleRequest)
      BY <2>2, IdleType DEF Bill, Finish, Replaces
    <3>2. /\ Knows(IdleRequest) /\ Passed(IdleRequest) /\ Saving(IdleRequest)
          /\ IdleRequest.pc # "bill"
      BY DEF Knows, Passed, Saving, IdleRequest, ClearPCs
    <3>. QED BY <3>1, <3>2
  <2>. QED BY <2>1, <2>2
<1>2. /\ req'[r] = h /\ req' \in [Slots -> Handlers]
      /\ \A q \in Slots \ {r} : req'[q] = req[q]
  BY <1>0, <1>1 DEF Replaces, TypeOK
<1>3. /\ billed' \in [Pairs -> Nat] /\ broken' \in SUBSET Pairs
      /\ \A x \in Pairs \ {p} : billed'[x] = billed[x]
      /\ billed'[p] \in {0, 1} /\ broken \subseteq broken'
      /\ billed'[p] = 1 \/ p \in broken'
      /\ UNCHANGED <<carts, items, enr, classes, done>>
  BY <1>0 DEF Bill, TypeOK
<1>4. TypeOK'
  BY <1>0, <1>2, <1>3 DEF TypeOK
<1>5. ASSUME NEW q \in Slots PROVE HandlerInv(req[q])'
  <2>0. EnteredAwaiting \subseteq EnteredAwaiting'
    BY <1>0, <1>2, <1>3, AwaitingStays DEF TypeOK
  <2>1. CASE q = r
    <3>1. Saving(h)'
      BY <1>1, <1>3, <2>0, SavingStays DEF Replaces
    <3>. QED BY <1>1, <1>2, <1>3, <2>1, <3>1
         DEF HandlerInv, Knows, Passed, Billing
  <2>2. CASE q # r
    <3>1. req'[q] = req[q] /\ HandlerInv(req[q]) /\ req[q] \in Handlers
      BY <1>0, <1>2, <2>2 DEF TypeOK
    <3>2. req[q].pc = "bill" => PairOf(q) # p /\ PairOf(q) \in Pairs
      BY <1>0, <2>2, <3>1 DEF OneBiller, At, HandlerInv, Knows, PairOf, Pairs
    <3>3. Saving(req[q])'
      BY <1>3, <2>0, <3>1, SavingStays DEF HandlerInv, Saving
    <3>. QED BY <1>3, <3>1, <3>2, <3>3
         DEF HandlerInv, Knows, Passed, Billing, PairOf
  <2>. QED BY <2>1, <2>2
<1>6. OneBiller'
  BY <1>1, <1>2 DEF OneBiller, At, PairOf
<1>7. OneInvoicePerEnrollment'
  BY <1>0, <1>3 DEF OneInvoicePerEnrollment
<1>8. AwaitedPaymentIsBilled'
  <2> SUFFICES ASSUME NEW x \in Pairs, enr[x] = "pending_payment",
                      billed'[x] # 1, x \notin broken'
               PROVE  \E q \in Slots : req'[q].pc = "bill"
                         /\ <<req'[q].student, req'[q].class>> = x
    BY <1>3 DEF AwaitedPaymentIsBilled, At, PairOf
  <2>1. x # p /\ billed[x] # 1 /\ x \notin broken
    BY <1>3
  <2>2. PICK q \in Slots : req[q].pc = "bill" /\ PairOf(q) = x
    BY <2>1 DEF AwaitedPaymentIsBilled, At
  <2>. QED BY <1>2, <2>1, <2>2 DEF PairOf
<1>9. AnsweredCheckoutIsEnrolled'
  BY <1>3 DEF AnsweredCheckoutIsEnrolled
<1>. QED BY <1>4, <1>5, <1>6, <1>7, <1>8, <1>9

-----------------------------------------------------------------------------
(***************************************************************************)
(* The rest of the system, and the theorems.                               *)
(***************************************************************************)

\* A handler that is cut short before it raised an invoice is on record.
LEMMA RequestFailsInv ==
  ASSUME Inv, NEW r \in Slots, RequestFails(r)
  PROVE  Inv'
<1> USE DEF Inv
<1>0. TypeOK /\ req[r] \in Handlers /\ HandlerInv(req[r])
  BY DEF TypeOK
<1>1. CASE req[r].pc # "bill"
  BY <1>0, <1>1, QuietFinish DEF RequestFails, At, TypeOK
<1>2. CASE req[r].pc = "bill"
  <2>1. /\ req'[r] = IdleRequest /\ req' \in [Slots -> Handlers]
        /\ \A q \in Slots \ {r} : req'[q] = req[q]
    BY <1>0, IdleType DEF RequestFails, Finish, TypeOK
  <2>2. /\ PairOf(r) \in Pairs
        /\ broken' = broken \cup {PairOf(r)}
        /\ UNCHANGED <<carts, items, enr, billed, classes, done>>
    BY <1>0, <1>2 DEF RequestFails, At, HandlerInv, Knows, PairOf, Pairs
  <2>3. TypeOK'
    BY <1>0, <2>1, <2>2 DEF TypeOK
  <2>4. IdleRequest.pc = "idle" /\ IdleRequest.op = "get"
    BY DEF IdleRequest
  <2>5. ASSUME NEW q \in Slots PROVE HandlerInv(req[q])'
    <3>1. CASE q = r
      BY <2>1, <2>4, <3>1 DEF HandlerInv, Knows, Passed, Saving, Billing
    <3>2. CASE q # r
      <4>1. req'[q] = req[q] /\ HandlerInv(req[q]) /\ req[q] \in Handlers
        BY <1>0, <2>1, <3>2 DEF TypeOK
      <4>2. EnteredAwaiting \subseteq EnteredAwaiting'
        BY <1>0, <2>1, <2>2, AwaitingStays DEF TypeOK
      <4>3. Saving(req[q])'
        BY <2>2, <4>1, <4>2, SavingStays DEF HandlerInv, Saving
      <4>. QED BY <2>2, <4>1, <4>3 DEF HandlerInv, Knows, Passed, Billing
    <3>. QED BY <3>1, <3>2
  <2>6. OneBiller'
    BY <2>1, <2>4 DEF OneBiller, At, PairOf
  <2>7. OneInvoicePerEnrollment'
    BY <2>2 DEF OneInvoicePerEnrollment
  <2>8. AwaitedPaymentIsBilled'
    BY <2>1, <2>2 DEF AwaitedPaymentIsBilled, At, PairOf
  <2>9. AnsweredCheckoutIsEnrolled'
    BY <2>2 DEF AnsweredCheckoutIsEnrolled
  <2>. QED BY <2>3, <2>5, <2>6, <2>7, <2>8, <2>9
<1>. QED BY <1>1, <1>2

\* The status of a row is written, from what was read before or not: if it
\* waits for a payment now, it was entered to.
LEMMA RowWriteInv ==
  ASSUME Inv, NEW p \in Pairs, NEW status \in RowStatus,
         enr[p] # "none", status = "pending_payment" => p \in EnteredAwaiting,
         enr' = [enr EXCEPT ![p] = status],
         req' \in [Slots -> Handlers],
         \A q \in Slots : \/ req'[q] = req[q]
                          \/ req[q].pc # "bill" /\ req'[q] = IdleRequest,
         UNCHANGED <<carts, items, billed, classes, done, broken>>
  PROVE  Inv'
<1> USE DEF Inv
<1>0. TypeOK
  OBVIOUS
<1>1. /\ enr' \in [Pairs -> RowStatus \cup {"none"}]
      /\ enr'[p] = status /\ status # "none"
      /\ \A x \in Pairs \ {p} : enr'[x] = enr[x]
  BY <1>0 DEF TypeOK, RowStatus, EnrollmentStatus
<1>3. TypeOK'
  BY <1>0, <1>1 DEF TypeOK
<1>4. \A x \in Pairs : enr[x] # "none" => enr'[x] # "none"
  BY <1>1
<1>5. IdleRequest.pc = "idle" /\ IdleRequest.op = "get"
  BY DEF IdleRequest
<1>6. \A q \in Slots : req'[q].pc = "bill" <=> req[q].pc = "bill"
  BY <1>5
<1>7. \A q \in Slots : req[q].pc = "bill" => req'[q] = req[q]
  OBVIOUS
<1>8. EnteredAwaiting \subseteq EnteredAwaiting'
  BY <1>6, <1>7 DEF EnteredAwaiting, AboutToBill, At, PairOf
<1>9. ASSUME NEW q \in Slots PROVE HandlerInv(req[q])'
  <2>1. HandlerInv(req[q]) /\ req[q] \in Handlers
    BY <1>0 DEF TypeOK
  <2>2. CASE req'[q] = IdleRequest
    BY <1>5, <2>2 DEF HandlerInv, Knows, Passed, Saving, Billing
  <2>3. CASE req'[q] = req[q]
    <3>1. Passed(req[q])'
      BY <1>4, <2>1, <2>3 DEF HandlerInv, Passed, Knows, Handlers, Pairs
    <3>2. Saving(req[q])'
      BY <1>4, <1>8, <2>1, <2>3, SavingStays DEF HandlerInv, Saving
    <3>. QED BY <1>4, <2>1, <2>3, <3>1, <3>2
         DEF HandlerInv, Billing, Knows, Pairs
  <2>. QED BY <2>2, <2>3
<1>10. OneBiller'
  BY <1>6, <1>7 DEF OneBiller, At, PairOf
<1>11. OneInvoicePerEnrollment'
  BY <1>4 DEF OneInvoicePerEnrollment
<1>12. AwaitedPaymentIsBilled'
  <2> SUFFICES ASSUME NEW x \in Pairs, enr'[x] = "pending_payment"
               PROVE  \/ billed[x] = 1 \/ x \in broken
                      \/ \E q \in Slots : req'[q].pc = "bill"
                            /\ <<req'[q].student, req'[q].class>> = x
    BY DEF AwaitedPaymentIsBilled, At, PairOf
  <2>1. x \in EnteredAwaiting
    BY <1>1, PendingWasEntered
  <2>2. billed[x] > 0 => billed[x] = 1
    BY <1>0 DEF OneInvoicePerEnrollment, TypeOK
  <2>. QED BY <1>6, <1>7, <2>1, <2>2
       DEF EnteredAwaiting, AboutToBill, At, PairOf
<1>13. AnsweredCheckoutIsEnrolled'
  BY <1>0, <1>4 DEF AnsweredCheckoutIsEnrolled, TypeOK
<1>. QED BY <1>3, <1>9, <1>10, <1>11, <1>12, <1>13

\* The save of a row that was read in an earlier step.
LEMMA SaveRowInv ==
  ASSUME Inv, NEW r \in Slots, SaveRow(r)
  PROVE  Inv'
<1>1. /\ req[r].pc = "rowSave" /\ PairOf(r) \in Pairs
      /\ req[r].status \in RowStatus /\ enr[PairOf(r)] # "none"
      /\ req[r].status = "pending_payment" => PairOf(r) \in EnteredAwaiting
  BY DEF Inv, HandlerInv, Knows, Saving, SaveRow, At, PairOf, Pairs
<1>2. /\ req' \in [Slots -> Handlers] /\ req'[r] = IdleRequest
      /\ \A q \in Slots \ {r} : req'[q] = req[q]
  BY IdleType DEF Inv, TypeOK, SaveRow, Finish
<1>. QED BY <1>1, <1>2, RowWriteInv DEF SaveRow

\* Leaving a class sets its status in one statement.
LEMMA DropEnrollmentInv ==
  ASSUME Inv, NEW st \in Students, NEW c \in Classes, DropEnrollment(st, c)
  PROVE  Inv'
<1> DEFINE p == <<st, c>>
<1>1. /\ p \in Pairs /\ "dropped" \in RowStatus /\ enr[p] # "none"
      /\ enr' = [enr EXCEPT ![p] = "dropped"]
      /\ UNCHANGED <<carts, items, billed, classes, req, done, broken>>
  BY DEF Pairs, RowStatus, EnrollmentStatus, DropEnrollment
<1>. QED BY <1>1, RowWriteInv DEF Inv, TypeOK

\* A step that leaves everything but the classes alone.
LEMMA ClassesInv ==
  ASSUME Inv, classes' \in SUBSET Classes,
         UNCHANGED <<carts, items, enr, billed, req, done, broken>>
  PROVE  Inv'
<1> USE DEF Inv
<1>1. TypeOK'
  BY DEF TypeOK
<1>2. \A q \in Slots : HandlerInv(req[q])'
  BY DEF HandlerInv, Knows, Passed, Saving, Billing, EnteredAwaiting,
         AboutToBill, At, PairOf
<1>3. OneBiller' /\ AwaitedPaymentIsBilled'
  BY DEF OneBiller, AwaitedPaymentIsBilled, At, PairOf
<1>4. OneInvoicePerEnrollment' /\ AnsweredCheckoutIsEnrolled'
  BY DEF OneInvoicePerEnrollment, AnsweredCheckoutIsEnrolled
<1>. QED BY <1>1, <1>2, <1>3, <1>4

\* The empty database satisfies the invariant.
LEMMA InvInit == Init => Inv
<1> SUFFICES ASSUME Init PROVE Inv
  OBVIOUS
<1>1. TypeOK
  BY IdleType DEF Init, TypeOK
<1>2. IdleRequest.pc = "idle" /\ IdleRequest.op = "get"
  BY DEF IdleRequest
<1>3. \A r \in Slots : HandlerInv(req[r])
  BY <1>2 DEF Init, HandlerInv, Knows, Passed, Billing, Saving
<1>4. OneBiller
  BY <1>2 DEF Init, OneBiller, At
<1>5. /\ OneInvoicePerEnrollment /\ AwaitedPaymentIsBilled
      /\ AnsweredCheckoutIsEnrolled
  BY DEF Init, OneInvoicePerEnrollment, AwaitedPaymentIsBilled,
         AnsweredCheckoutIsEnrolled
<1>. QED BY <1>1, <1>3, <1>4, <1>5 DEF Inv

\* Every step keeps the invariant.
LEMMA InvStep == Inv /\ [Next]_vars => Inv'
<1> SUFFICES ASSUME Inv, [Next]_vars PROVE Inv'
  OBVIOUS
<1>1. ASSUME NEW r \in Slots, StartRequest(r) PROVE Inv'
  BY <1>1, StartRequestInv
<1>2. ASSUME NEW r \in Slots, CartStep(r) PROVE Inv'
  BY <1>2, CartStepInv
<1>3. ASSUME NEW r \in Slots, CheckoutStep(r) PROVE Inv'
  BY <1>3, CheckItemInv, EnrollInv, BillInv, SaveRowInv DEF CheckoutStep
<1>4. ASSUME NEW r \in Slots, RequestFails(r) PROVE Inv'
  BY <1>4, RequestFailsInv
<1>5. ASSUME NEW st \in Students, NEW c \in Classes, DropEnrollment(st, c)
      PROVE  Inv'
  BY <1>5, DropEnrollmentInv
<1>6. ASSUME NEW c \in Classes, RemoveClass(c) PROVE Inv'
  BY <1>6, ClassesInv DEF RemoveClass, Inv, TypeOK
<1>7. CASE UNCHANGED vars
  BY <1>7, ClassesInv DEF vars, Inv, TypeOK
<1>. QED BY <1>1, <1>2, <1>3, <1>4, <1>5, <1>6, <1>7 DEF Next

\* The invariant holds in every reachable state.
THEOREM Invariance == Spec => []Inv
  BY InvInit, InvStep, PTL DEF Spec

\* The tables and handlers of createCheckout and the cart keep their types.
THEOREM TypeCorrect == Spec => []TypeOK
<1>1. Inv => TypeOK
  BY DEF Inv
<1>. QED BY <1>1, Invariance, PTL

\* createCheckout never raises two invoices for one enrolment, nor one without
\* an enrolment, however many checkouts race.
THEOREM AtMostOneInvoice == Spec => []OneInvoicePerEnrollment
<1>1. Inv => OneInvoicePerEnrollment
  BY DEF Inv
<1>. QED BY <1>1, Invariance, PTL

\* The only enrolments that wait for a payment without an invoice are those a
\* handler is about to bill, those whose checkout was cut short and those staff
\* made so: also when a save of a row read earlier makes one wait again.
THEOREM AwaitedIsBilled == Spec => []AwaitedPaymentIsBilled
<1>1. Inv => AwaitedPaymentIsBilled
  BY DEF Inv
<1>. QED BY <1>1, Invariance, PTL

\* At most one handler at a time is about to raise the invoice of an enrolment.
THEOREM NeverTwoBillers == Spec => []OneBiller
<1>1. Inv => OneBiller
  BY DEF Inv
<1>. QED BY <1>1, Invariance, PTL

\* An answered checkout left an enrolment in every class of its basket.
THEOREM AnsweredIsEnrolled == Spec => []AnsweredCheckoutIsEnrolled
<1>1. Inv => AnsweredCheckoutIsEnrolled
  BY DEF Inv
<1>. QED BY <1>1, Invariance, PTL

-----------------------------------------------------------------------------
(***************************************************************************)
(* Checkout implements EnrollmentBook.  A fee is owed exactly while a      *)
(* handler is at "bill"; what has to be shown of a step is which handlers  *)
(* it brings there or takes away from there.                               *)
(***************************************************************************)

\* A step of handler r that neither enters nor leaves "bill".
Aside(r) ==
    /\ \A q \in Slots \ {r} : req'[q] = req[q]
    /\ req[r].pc # "bill" /\ req'[r].pc # "bill"

\* getCart takes nobody to "bill" by itself.
LEMMA OtherCurrencyAside ==
  ASSUME TypeOK, NEW r \in Slots, NEW start \in Handlers,
         OtherCurrency(r, start), req[r].pc # "bill"
  PROVE  Aside(r)
<1>1. PICK h : Replaces(r, h) /\ h.pc = "saveCurrency"
  BY OtherCurrencyEffect
<1>. QED BY <1>1 DEF Aside, Replaces, TypeOK

\* Nor does the cart that was found.
LEMMA OpenCartAside ==
  ASSUME TypeOK, NEW r \in Slots, NEW start \in Handlers, OpenCart(r, start),
         start.pc # "bill", req[r].pc # "bill"
  PROVE  Aside(r)
<1>1. PICK h : Replaces(r, h) /\ h.pc \in {start.pc, "newCart", "saveCurrency"}
  BY OpenCartEffect
<1>. QED BY <1>1 DEF Aside, Replaces, TypeOK

\* A handler that is set to h.
LEMMA BeginAside ==
  ASSUME TypeOK, NEW r \in Slots, NEW h, Begin(r, h),
         h.pc # "bill", req[r].pc # "bill"
  PROVE  Aside(r)
  BY DEF Aside, Begin, TypeOK

\* A checkout begins with its first item, or ends.
LEMMA BuyRowsAside ==
  ASSUME TypeOK, NEW r \in Slots, NEW k, NEW rows, NEW st,
         BuyRows(r, k, rows, st), req[r].pc # "bill"
  PROVE  Aside(r)
<1> DEFINE bought == {items[j].class : j \in rows} \cap classes
<1>1. CASE bought = {}
  BY <1>1 DEF BuyRows, Finish, IdleRequest, Aside, TypeOK
<1>2. CASE bought # {}
  BY <1>2, BeginAside DEF BuyRows, IdleRequest
<1>. QED BY <1>1, <1>2

\* No request begins with an invoice to raise.
LEMMA StartRequestAside ==
  ASSUME TypeOK, NEW r \in Slots, StartRequest(r)
  PROVE  Aside(r) /\ UNCHANGED <<enr, billed, broken>>
<1>1. Idle(r) /\ UNCHANGED <<enr, billed, broken>>
  BY DEF StartRequest, StartGet, StartClear, StartAdd, StartRemove,
         StartCheckout, StartEnroll, StartRowUpdate
<1>2. CASE StartGet(r)
  <2>1. CASE Begin(r, [IdleRequest EXCEPT !.pc = "newCart"])
    BY <1>1, <2>1, BeginAside DEF Idle, IdleRequest
  <2>2. CASE OtherCurrency(r, IdleRequest)
    BY <1>1, <2>2, IdleType, OtherCurrencyAside DEF Idle
  <2>. QED BY <1>2, <2>1, <2>2 DEF StartGet
<1>3. CASE StartClear(r)
  <2> DEFINE s1 == [IdleRequest EXCEPT !.op = "clear"]
             s2 == [s1 EXCEPT !.pc = "clearRead"]
  <2>1. s1 \in Handlers /\ s2 \in Handlers
    BY IdleType, HandlerUpdate DEF PCs, RequestOps
  <2>2. s2.pc = "clearRead" /\ OpenCart(r, s2)
    BY <1>3 DEF IdleRequest, StartClear
  <2> HIDE DEF s2
  <2>. QED BY <1>1, <2>1, <2>2, OpenCartAside DEF Idle
<1>4. ASSUME NEW c \in Classes, StartAdd(r, c) PROVE Aside(r)
  <2> DEFINE s1 == [IdleRequest EXCEPT !.op = "add"]
             s2 == [s1 EXCEPT !.pc = "addCheck"]
             s3 == [s2 EXCEPT !.class = c]
  <2>1. s1 \in Handlers /\ s2 \in Handlers /\ s3 \in Handlers
    BY IdleType, HandlerUpdate DEF PCs, RequestOps
  <2>2. s3.pc = "addCheck" /\ OpenCart(r, s3)
    BY <1>4 DEF IdleRequest, StartAdd
  <2> HIDE DEF s3
  <2>. QED BY <1>1, <2>1, <2>2, OpenCartAside DEF Idle
<1>5. ASSUME NEW c \in Classes, StartRemove(r, c) PROVE Aside(r)
  <2> DEFINE s1 == [IdleRequest EXCEPT !.op = "remove"]
             s2 == [s1 EXCEPT !.pc = "removeRead"]
             s3 == [s2 EXCEPT !.class = c]
  <2>1. s1 \in Handlers /\ s2 \in Handlers /\ s3 \in Handlers
    BY IdleType, HandlerUpdate DEF PCs, RequestOps
  <2>2. s3.pc = "removeRead" /\ OpenCart(r, s3)
    BY <1>5 DEF IdleRequest, StartRemove
  <2> HIDE DEF s3
  <2>. QED BY <1>1, <2>1, <2>2, OpenCartAside DEF Idle
<1>6. ASSUME NEW st \in Students, StartCheckout(r, st) PROVE Aside(r)
  <2>1. ASSUME NEW k, BuyRows(r, k, LiveRows(k), st) PROVE Aside(r)
    BY <1>1, <2>1, BuyRowsAside DEF Idle
  <2>2. CASE OtherCurrency(r, [IdleRequest EXCEPT !.op = "checkout",
                                                  !.student = st])
    <3> DEFINE s1 == [IdleRequest EXCEPT !.op = "checkout"]
               start == [s1 EXCEPT !.student = st]
    <3>1. s1 \in Handlers
      BY IdleType, HandlerUpdate DEF RequestOps
    <3>2. start \in Handlers /\ OtherCurrency(r, start)
      BY <2>2, <3>1, HandlerUpdate
    <3> HIDE DEF start
    <3>. QED BY <1>1, <3>2, OtherCurrencyAside DEF Idle
  <2>. QED BY <1>6, <2>1, <2>2 DEF StartCheckout
<1>7. ASSUME NEW st, NEW c, NEW status, StartEnroll(r, st, c, status)
      PROVE Aside(r)
  BY <1>1, <1>7, BeginAside DEF StartEnroll, Idle, IdleRequest
<1>8. ASSUME NEW st, NEW c, NEW status, StartRowUpdate(r, st, c, status)
      PROVE Aside(r)
  BY <1>1, <1>8, BeginAside DEF StartRowUpdate, Idle, IdleRequest
<1>. QED BY <1>1, <1>2, <1>3, <1>4, <1>5, <1>6, <1>7, <1>8, StartRequest(r)
     DEF StartRequest

\* The cart, the loop over its items and the errors away from "bill" leave
\* alone what is owed.
LEMMA CartStepAside ==
  ASSUME TypeOK, NEW r \in Slots, CartStep(r) \/ CheckItem(r)
  PROVE  Aside(r) /\ UNCHANGED <<enr, billed, broken>>
<1>0. req[r] \in Handlers /\ req \in [Slots -> Handlers]
  BY DEF TypeOK
<1>1. CASE NewCart(r)
  BY <1>0, <1>1 DEF NewCart, At, Aside, Finish, IdleRequest, AfterGetCart,
                    Handlers
<1>2. CASE AddCheck(r) \/ AddInsert(r)
  BY <1>0, <1>2 DEF AddCheck, AddInsert, At, Aside, Finish, Goto, IdleRequest,
                    Handlers
<1>3. CASE RemoveRead(r) \/ RemoveDelete(r)
  BY <1>0, <1>3 DEF RemoveRead, RemoveDelete, At, Aside, Finish, IdleRequest,
                    Handlers
<1>4. CASE ClearGet(r)
  <2> DEFINE start == [req[r] EXCEPT !.pc = "clearRead"]
  <2>1. start \in Handlers
    BY <1>0, HandlerUpdate DEF PCs
  <2>2. start.pc = "clearRead" /\ OpenCart(r, start) /\ req[r].pc # "bill"
    BY <1>0, <1>4 DEF ClearGet, At, Handlers
  <2> HIDE DEF start
  <2>. QED BY <1>4, <2>1, <2>2, OpenCartAside DEF ClearGet
<1>5. CASE ClearRead(r) \/ ClearDelete(r) \/ ClearSave(r)
  BY <1>0, <1>5 DEF ClearRead, ClearDelete, ClearSave, At, Aside, Finish, Goto,
                    IdleRequest, Handlers
<1>6. CASE CheckItem(r)
  <2>1. PICK c \in req[r].todo :
          Advance(r, c) \/ req' = [req EXCEPT ![r].pc = "enroll", ![r].class = c]
    BY <1>6 DEF CheckItem
  <2>2. CASE Advance(r, c)
    <3> DEFINE pc == IF req[r].todo = {c} THEN "clearGet" ELSE "checkItem"
               h1 == [req[r] EXCEPT !.class = None]
               h2 == [h1 EXCEPT !.todo = @ \ {c}]
               h  == [h2 EXCEPT !.pc = pc]
    <3>1. req' = [req EXCEPT ![r] = h]
      BY <1>0, <2>2 DEF Advance
    <3>2. h.pc # "bill" /\ req[r].pc # "bill"
      BY <1>0, <1>6 DEF CheckItem, At, Handlers
    <3> HIDE DEF h
    <3>. QED BY <1>0, <1>6, <3>1, <3>2 DEF Aside, CheckItem
  <2>3. CASE req' = [req EXCEPT ![r].pc = "enroll", ![r].class = c]
    BY <1>0, <1>6, <2>3 DEF CheckItem, At, Aside, Handlers
  <2>. QED BY <1>6, <2>1, <2>2, <2>3 DEF CheckItem
<1>7. CASE SaveCurrency(r)
  <2>1. req[r].pc # "bill" /\ UNCHANGED <<enr, billed, broken>>
    BY <1>7 DEF SaveCurrency, At
  <2>2. CASE BuyRows(r, req[r].cart, req[r].rows, req[r].student)
    BY <2>1, <2>2, BuyRowsAside
  <2>3. CASE Finish(r)
    BY <1>0, <2>1, <2>3 DEF Finish, Aside, IdleRequest
  <2>4. CASE req' = [req EXCEPT ![r].rows = {},
                                ![r].pc = AfterGetCart(req[r].op)]
    BY <1>0, <2>1, <2>4 DEF Aside, AfterGetCart, Handlers
  <2>. QED BY <1>7, <2>1, <2>2, <2>3, <2>4 DEF SaveCurrency
<1>. QED BY <1>1, <1>2, <1>3, <1>4, <1>5, <1>6, <1>7 DEF CartStep

\* A step aside of "bill" that changes no enrolment stutters in the book.
LEMMA AsideStutters ==
  ASSUME NEW r \in Slots, Aside(r), UNCHANGED <<enr, billed, broken>>
  PROVE  UNCHANGED Book!book
<1>1. AboutToBill' = AboutToBill
  BY DEF AboutToBill, At, PairOf, Aside
<1>. QED BY <1>1 DEF Book!book, EnteredAwaiting

\* A step of a handler that leaves "bill": what it was to bill is not owed any
\* more, because no other handler is to bill the same.
LEMMA LeaveBill ==
  ASSUME Inv, NEW r \in Slots, req[r].pc = "bill", req'[r].pc # "bill",
         \A q \in Slots \ {r} : req'[q] = req[q]
  PROVE  /\ PairOf(r) \in AboutToBill
         /\ AboutToBill' = AboutToBill \ {PairOf(r)}
<1>1. PairOf(r) \in Pairs
  BY DEF Inv, HandlerInv, Knows, PairOf, Pairs
<1>2. ASSUME NEW p \in Pairs
      PROVE  p \in AboutToBill' <=> p \in AboutToBill \ {PairOf(r)}
  <2>1. CASE p = PairOf(r)
    BY <2>1 DEF AboutToBill, At, PairOf, Inv, OneBiller
  <2>2. CASE p # PairOf(r)
    BY <2>2 DEF AboutToBill, At, PairOf
  <2>. QED BY <2>1, <2>2
<1>. QED BY <1>1, <1>2 DEF AboutToBill, At

\* Enrolling enters a row that was not there; a checkout then owes the fee.
LEMMA EnrollKeepsBook ==
  ASSUME Inv, NEW r \in Slots, Enroll(r)
  PROVE  [Book!Next]_(Book!book)
<1> DEFINE p == PairOf(r)
<1>0. /\ req \in [Slots -> Handlers] /\ req[r] \in Handlers
      /\ req[r].pc = "enroll" /\ p \in Pairs /\ UNCHANGED billed
  BY DEF Inv, TypeOK, HandlerInv, Enroll, At, Knows, Pairs, PairOf
<1>1. CASE enr[p] # "none"
  <2>1. Aside(r) /\ UNCHANGED <<enr, billed, broken>>
    BY <1>0, <1>1 DEF Enroll, Finish, Aside, IdleRequest
  <2>. QED BY <2>1, AsideStutters
<1>2. CASE enr[p] = "none" /\ req[r].op = "checkout"
  <2>1. /\ enr' = [enr EXCEPT ![p] = "pending_payment"]
        /\ req' = [req EXCEPT ![r].pc = "bill"] /\ UNCHANGED broken
    BY <1>2 DEF Enroll, Goto, FirstStatus
  <2>2. /\ req'[r].pc = "bill"
        /\ <<req'[r].student, req'[r].class>> = p
        /\ \A q \in Slots \ {r} : req'[q] = req[q]
    BY <1>0, <2>1 DEF PairOf, Handlers
  <2>3. ASSUME NEW x \in Pairs
        PROVE  x \in AboutToBill' <=> x \in AboutToBill \cup {p}
    <3>1. x \in AboutToBill' <=> \E q \in Slots :
             /\ req'[q].pc = "bill"
             /\ <<req'[q].student, req'[q].class>> = x
      BY DEF AboutToBill, At, PairOf
    <3>2. x \in AboutToBill <=> \E q \in Slots :
             /\ req[q].pc = "bill"
             /\ <<req[q].student, req[q].class>> = x
      BY DEF AboutToBill, At, PairOf
    <3>. QED BY <1>0, <2>2, <3>1, <3>2
  <2>4. AboutToBill' = AboutToBill \cup {p}
    BY <1>0, <2>3 DEF AboutToBill
  <2>5. EnteredAwaiting' = EnteredAwaiting \cup {p}
    BY <1>0, <2>1, <2>4 DEF EnteredAwaiting
  <2>6. Book!Order(p, "pending_payment")
    BY <1>0, <1>2, <2>1, <2>4, <2>5 DEF Book!Order, Book!NewRow
  <2>7. enr' # enr
    BY <1>0, <1>2, <2>1 DEF Inv, TypeOK
  <2>. QED BY <1>0, <2>6, <2>7 DEF Book!Next, RowStatus
<1>3. CASE enr[p] = "none" /\ req[r].op # "checkout"
  <2> DEFINE status == req[r].status
  <2>1. /\ Aside(r) /\ enr' = [enr EXCEPT ![p] = status]
        /\ status \in RowStatus
        /\ broken' = IF status = "pending_payment"
                     THEN broken \cup {p} ELSE broken
    BY <1>0, <1>3 DEF Enroll, Finish, Aside, IdleRequest, FirstStatus, Inv,
                      HandlerInv, Knows
  <2>2. AboutToBill' = AboutToBill
    BY <2>1 DEF AboutToBill, At, PairOf, Aside
  <2>3. EnteredAwaiting' = IF status = "pending_payment"
                           THEN EnteredAwaiting \cup {p} ELSE EnteredAwaiting
    BY <1>0, <2>1, <2>2 DEF EnteredAwaiting
  <2>4. Book!Enter(p, status)
    BY <1>0, <1>3, <2>1, <2>2, <2>3 DEF Book!Enter, Book!NewRow
  <2>5. enr' # enr
    BY <1>0, <1>3, <2>1 DEF Inv, TypeOK, RowStatus, EnrollmentStatus
  <2>. QED BY <1>0, <2>1, <2>4, <2>5 DEF Book!Next
<1>. QED BY <1>1, <1>2, <1>3

\* Raising the invoice charges the fee; without the class it is given up.
LEMMA BillKeepsBook ==
  ASSUME Inv, NEW r \in Slots, Bill(r)
  PROVE  [Book!Next]_(Book!book)
<1> DEFINE p == PairOf(r)
<1>0. /\ req \in [Slots -> Handlers] /\ req[r] \in Handlers
      /\ req[r].pc = "bill" /\ p \in Pairs /\ UNCHANGED enr
  BY DEF Inv, TypeOK, HandlerInv, Bill, At, Knows, Pairs, PairOf
<1>1. CASE req[r].class \in classes
  <2>1. PICK h : /\ Replaces(r, h)
                 /\ h.pc = IF req[r].todo = {req[r].class}
                           THEN "clearGet" ELSE "checkItem"
    BY <1>1, AdvanceEffect DEF Bill
  <2>2. req'[r].pc # "bill" /\ \A q \in Slots \ {r} : req'[q] = req[q]
    BY <1>0, <2>1 DEF Replaces
  <2>3. p \in AboutToBill /\ AboutToBill' = AboutToBill \ {p}
    BY <1>0, <2>2, LeaveBill
  <2>4. billed' = [billed EXCEPT ![p] = @ + 1] /\ UNCHANGED broken
    BY <1>1 DEF Bill
  <2>5. EnteredAwaiting' = EnteredAwaiting
    BY <1>0, <2>3, <2>4 DEF EnteredAwaiting, Inv, TypeOK
  <2>6. Book!Charge(p)
    BY <1>0, <2>3, <2>4, <2>5 DEF Book!Charge
  <2>. QED BY <1>0, <2>6 DEF Book!Next
<1>2. CASE req[r].class \notin classes
  <2>1. req'[r].pc # "bill" /\ \A q \in Slots \ {r} : req'[q] = req[q]
    BY <1>0, <1>2 DEF Bill, Finish, IdleRequest
  <2>2. p \in AboutToBill /\ AboutToBill' = AboutToBill \ {p}
    BY <1>0, <2>1, LeaveBill
  <2>3. broken' = broken \cup {p} /\ UNCHANGED billed
    BY <1>2 DEF Bill
  <2>4. EnteredAwaiting' = EnteredAwaiting
    BY <1>0, <2>2, <2>3 DEF EnteredAwaiting
  <2>5. Book!Forget(p)
    BY <1>0, <2>2, <2>3, <2>4 DEF Book!Forget
  <2>. QED BY <1>0, <2>5 DEF Book!Next
<1>. QED BY <1>1, <1>2

\* A request that fails before its invoice gives the fee up.
LEMMA FailingKeepsBook ==
  ASSUME Inv, NEW r \in Slots, RequestFails(r)
  PROVE  [Book!Next]_(Book!book)
<1>0. /\ req \in [Slots -> Handlers] /\ UNCHANGED <<enr, billed>>
      /\ req'[r].pc # "bill" /\ \A q \in Slots \ {r} : req'[q] = req[q]
  BY DEF Inv, TypeOK, RequestFails, Finish, IdleRequest
<1>1. CASE req[r].pc # "bill"
  BY <1>0, <1>1, AsideStutters DEF Aside, RequestFails, At
<1>2. CASE req[r].pc = "bill"
  <2>1. /\ PairOf(r) \in AboutToBill
        /\ AboutToBill' = AboutToBill \ {PairOf(r)}
    BY <1>0, <1>2, LeaveBill
  <2>2. broken' = broken \cup {PairOf(r)}
    BY <1>2 DEF RequestFails, At
  <2>3. EnteredAwaiting' = EnteredAwaiting
    BY <1>0, <2>1, <2>2 DEF EnteredAwaiting
  <2>4. Book!Forget(PairOf(r)) /\ PairOf(r) \in Pairs
    BY <1>0, <2>1, <2>3 DEF Book!Forget, AboutToBill
  <2>. QED BY <2>4 DEF Book!Next
<1>. QED BY <1>1, <1>2

\* The status of a row that is there is written, from what was read earlier or
\* not; it waits for a payment again only if it was entered to.
LEMMA RowWriteKeepsBook ==
  ASSUME Inv, NEW p \in Pairs, NEW status \in RowStatus, enr[p] # "none",
         status = "pending_payment" => p \in EnteredAwaiting,
         enr' = [enr EXCEPT ![p] = status], UNCHANGED <<billed, broken>>,
         AboutToBill' = AboutToBill
  PROVE  [Book!Next]_(Book!book)
<1>1. EnteredAwaiting' = EnteredAwaiting
  BY DEF EnteredAwaiting
<1>2. Book!Change(p, status)
  BY <1>1 DEF Book!Change
<1>3. CASE enr' # enr
  BY <1>2, <1>3 DEF Book!Next
<1>4. CASE enr' = enr
  BY <1>1, <1>4 DEF Book!book
<1>. QED BY <1>3, <1>4

\* The save of a row that was read in an earlier step.
LEMMA SaveRowKeepsBook ==
  ASSUME Inv, NEW r \in Slots, SaveRow(r)
  PROVE  [Book!Next]_(Book!book)
<1>1. /\ req[r].pc = "rowSave" /\ PairOf(r) \in Pairs
      /\ req[r].status \in RowStatus /\ enr[PairOf(r)] # "none"
      /\ req[r].status = "pending_payment" => PairOf(r) \in EnteredAwaiting
  BY DEF Inv, HandlerInv, Knows, Saving, SaveRow, At, PairOf, Pairs
<1>2. Aside(r)
  BY <1>1 DEF Inv, TypeOK, SaveRow, Finish, IdleRequest, Aside
<1>3. AboutToBill' = AboutToBill
  BY <1>2 DEF AboutToBill, At, PairOf, Aside
<1>. QED BY <1>1, <1>3, RowWriteKeepsBook DEF SaveRow

\* Leaving a class keeps the row.
LEMMA DropKeepsBook ==
  ASSUME Inv, NEW st \in Students, NEW c \in Classes, DropEnrollment(st, c)
  PROVE  [Book!Next]_(Book!book)
<1>1. <<st, c>> \in Pairs /\ "dropped" \in RowStatus
  BY DEF Pairs, RowStatus, EnrollmentStatus
<1>2. AboutToBill' = AboutToBill
  BY DEF DropEnrollment, AboutToBill, At, PairOf
<1>. QED BY <1>1, <1>2, RowWriteKeepsBook DEF DropEnrollment

\* Every step of the shop is a step of the book, or none.
LEMMA StepKeepsBook ==
  ASSUME Inv, [Next]_vars
  PROVE  [Book!Next]_(Book!book)
<1>1. ASSUME NEW r \in Slots,
             StartRequest(r) \/ CartStep(r) \/ CheckItem(r)
      PROVE  [Book!Next]_(Book!book)
  BY <1>1, StartRequestAside, CartStepAside, AsideStutters DEF Inv
<1>2. ASSUME NEW r \in Slots, CheckoutStep(r) \/ RequestFails(r)
      PROVE  [Book!Next]_(Book!book)
  BY <1>1, <1>2, EnrollKeepsBook, BillKeepsBook, FailingKeepsBook,
     SaveRowKeepsBook DEF CheckoutStep
<1>3. ASSUME UNCHANGED <<enr, billed, req, broken>>
      PROVE  [Book!Next]_(Book!book)
  <2>1. AboutToBill' = AboutToBill
    BY <1>3 DEF AboutToBill, At, PairOf
  <2>. QED BY <1>3, <2>1 DEF Book!book, EnteredAwaiting
<1>4. ASSUME NEW c \in Classes, RemoveClass(c) PROVE [Book!Next]_(Book!book)
  BY <1>3, <1>4 DEF RemoveClass
<1>5. CASE UNCHANGED vars
  BY <1>3, <1>5 DEF vars
<1>. QED BY <1>1, <1>2, <1>4, <1>5, DropKeepsBook DEF Next

\* Nobody is enrolled in the empty database, and nothing is owed.
LEMMA InitKeepsBook == Init => Book!Init
<1> SUFFICES ASSUME Init PROVE Book!Init
  OBVIOUS
<1>1. IdleRequest.pc = "idle"
  BY DEF IdleRequest
<1>2. AboutToBill = {}
  BY <1>1 DEF Init, AboutToBill, At
<1>3. EnteredAwaiting = {}
  BY <1>2 DEF Init, EnteredAwaiting
<1>. QED BY <1>2, <1>3 DEF Init, Book!Init

\* Checking out, with its carts, its double clicks and its failures, and staff
\* who enrol with any status, and save statuses from rows they read earlier,
\* keep the enrolment book: a late save may bring back the wait for a payment,
\* but only of an enrolment that was entered to wait.
THEOREM ShopKeepsBook == Spec => KeepsBook
<1>1. Inv /\ [Next]_vars => [Book!Next]_(Book!book)
  BY StepKeepsBook
<1>. QED BY <1>1, Invariance, InitKeepsBook, PTL DEF Spec, KeepsBook, Book!Spec

\* The book by itself sees to it that a fee is charged once at most, and to
\* nobody who is not enrolled: whatever keeps the book does.
THEOREM BookChargesOnce == KeepsBook => []Book!ChargedOnce
<1> DEFINE BookInv == /\ enr \in [Pairs -> RowStatus \cup {"none"}]
                      /\ billed \in [Pairs -> {0, 1}]
                      /\ AboutToBill \subseteq Pairs
                      /\ \A p \in Pairs :
                            p \in AboutToBill =>
                               enr[p] # "none" /\ billed[p] = 0
                      /\ \A p \in Pairs : billed[p] = 1 => enr[p] # "none"
<1>0. "none" \notin RowStatus
  BY DEF RowStatus, EnrollmentStatus
<1>1. Book!Init => BookInv
  BY DEF Book!Init
<1>2. BookInv /\ [Book!Next]_(Book!book) => BookInv'
  <2> SUFFICES ASSUME BookInv, [Book!Next]_(Book!book) PROVE BookInv'
    OBVIOUS
  <2>1. ASSUME NEW p \in Pairs, NEW status \in RowStatus,
               Book!Enter(p, status) \/ Book!Change(p, status)
        PROVE  BookInv'
    BY <1>0, <2>1 DEF Book!Enter, Book!NewRow, Book!Change
  <2>2. ASSUME NEW p \in Pairs, NEW status \in RowStatus,
               Book!Order(p, status)
        PROVE  BookInv'
    BY <1>0, <2>2 DEF Book!Order, Book!NewRow
  <2>3. ASSUME NEW p \in Pairs, Book!Charge(p) PROVE BookInv'
    BY <2>3 DEF Book!Charge
  <2>4. ASSUME NEW p \in Pairs, Book!Forget(p) PROVE BookInv'
    BY <2>4 DEF Book!Forget
  <2>5. CASE UNCHANGED Book!book
    BY <2>5 DEF Book!book
  <2>. QED BY <2>1, <2>2, <2>3, <2>4, <2>5 DEF Book!Next
<1>3. BookInv => Book!ChargedOnce
  BY DEF Book!ChargedOnce
<1>. QED BY <1>1, <1>2, <1>3, PTL DEF KeepsBook, Book!Spec

=============================================================================
