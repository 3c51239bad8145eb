------------------------------ MODULE Checkout ------------------------------
(***************************************************************************)
(* One shopper's cart and the checkout that turns it into enrolments and   *)
(* invoices.  Nothing serialises the requests of a shopper: a double click,*)
(* a retry after an error or a second tab are handlers of their own, and   *)
(* each yields to the others at every database round trip.  There is no    *)
(* database transaction around a handler; what protects the tables is the  *)
(* unique (student, class) key of the enrolments and the NOT NULL cart of  *)
(* the cart items.                                                         *)
(***************************************************************************)
EXTENDS Naturals, FiniteSets

CONSTANTS
    Students,   \* students the shopper checks out for
    Classes,
    Statuses,   \* statuses staff enrol students with, or change theirs to
    MaxCart,    \* bound: carts ever made for the shopper
    MaxItem,    \* bound: cart items ever inserted
    Slots,      \* bound: requests being handled at the same time
    Ops,        \* operations that take place in this instance
    None

Carts == 1..MaxCart
Items == 1..MaxItem
Pairs == Students \X Classes

AllOps == {"get", "add", "remove", "clear", "checkout", "enroll",
           "setEnrollment", "currency", "removeClass", "fail"}

\* What the requests for one enrolment may ask for; those for several are not
\* validated, and the checkout writes what is not in the list.
EnrollmentStatus == {"active", "inactive", "completed", "dropped"}
RowStatus == EnrollmentStatus \cup {"pending_payment"}

ASSUME ConstantsAssumption ==
    /\ MaxCart \in Nat /\ MaxItem \in Nat
    /\ Ops \subseteq AllOps
    /\ Statuses \subseteq RowStatus
    /\ None \notin Students \cup Classes \cup Carts

VARIABLES
    carts,    \* table cart
    items,    \* table cart_item
    enr,      \* table student_class_enrollment, status by student and class
    billed,   \* table invoice: checkout invoices by student and class
    classes,  \* table class: the classes there are, all of them for sale
    req,      \* the handlers in progress
    done,     \* history: what the answered checkouts were for
    broken    \* history: enrolled to wait for a payment by a checkout that
              \* ended before the invoice, or by staff

vars == <<carts, items, enr, billed, classes, req, done, broken>>

PCs == {"idle", "newCart", "saveCurrency", "addCheck", "addInsert",
        "removeRead", "removeDelete", "checkItem", "enroll", "bill",
        "clearGet", "clearRead", "clearDelete", "clearSave", "rowSave"}

RequestOps == {"get", "add", "remove", "clear", "checkout", "enroll", "update"}

Handlers ==
    [pc : PCs, op : RequestOps, student : Students \cup {None},
     class : Classes \cup {None}, cart : Carts \cup {None},
     bought : SUBSET Classes, todo : SUBSET Classes, rows : SUBSET Items,
     status : RowStatus \cup {None}]

IdleRequest == [pc |-> "idle", op |-> "get", student |-> None, class |-> None,
                cart |-> None, bought |-> {}, todo |-> {}, rows |-> {},
                status |-> None]

TypeOK ==
    /\ carts \in [Carts -> {"absent", "active", "inactive"}]
    /\ items \in [Items -> [cart : Carts \cup {None},
                            class : Classes \cup {None}, live : BOOLEAN]]
    /\ enr \in [Pairs -> RowStatus \cup {"none"}]
    /\ billed \in [Pairs -> Nat]
    /\ classes \in SUBSET Classes
    /\ req \in [Slots -> Handlers]
    /\ done \in SUBSET Pairs
    /\ broken \in SUBSET Pairs

Init ==
    /\ carts = [k \in Carts |-> "absent"]
    /\ items = [j \in Items |-> [cart |-> None, class |-> None, live |-> FALSE]]
    /\ enr = [p \in Pairs |-> "none"]
    /\ billed = [p \in Pairs |-> 0]
    /\ classes = Classes
    /\ req = [r \in Slots |-> IdleRequest]
    /\ done = {} /\ broken = {}

-----------------------------------------------------------------------------
ActiveCarts == {k \in Carts : carts[k] = "active"}
LiveRows(k) == {j \in Items : items[j].live /\ items[j].cart = k}
ClassesIn(k) == {items[j].class : j \in LiveRows(k)}

Idle(r) == req[r].pc = "idle"
At(r, pc) == req[r].pc = pc
Begin(r, start) == req' = [req EXCEPT ![r] = start]
Goto(r, pc) == req' = [req EXCEPT ![r].pc = pc]
Finish(r) == req' = [req EXCEPT ![r] = IdleRequest]
PairOf(r) == <<req[r].student, req[r].class>>

\* getCart finds any active cart of the shopper, or makes one in a later step;
\* a request that names another currency than the cart has saves the cart
\* before it goes on.
OtherCurrency(r, start) ==
    /\ "currency" \in Ops
    /\ \E k \in ActiveCarts :
          Begin(r, [start EXCEPT !.pc = "saveCurrency", !.cart = k,
                                 !.rows = LiveRows(k)])

OpenCart(r, start) ==
    \/ \E k \in ActiveCarts : Begin(r, [start EXCEPT !.cart = k])
    \/ ActiveCarts = {} /\ Begin(r, [start EXCEPT !.pc = "newCart"])
    \/ OtherCurrency(r, start)

-----------------------------------------------------------------------------
(***************************************************************************)
(* The cart.                                                               *)
(***************************************************************************)

\* Looking at the cart, or checking out, when there is none makes one.
StartGet(r) ==
    /\ "get" \in Ops
    /\ Idle(r)
    /\ \/ ActiveCarts = {} /\ Begin(r, [IdleRequest EXCEPT !.pc = "newCart"])
       \/ OtherCurrency(r, IdleRequest)
    /\ UNCHANGED <<carts, items, enr, billed, classes, done, broken>>

StartAdd(r, c) ==
    /\ "add" \in Ops
    /\ Idle(r)
    /\ OpenCart(r, [IdleRequest EXCEPT !.op = "add", !.pc = "addCheck",
                                       !.class = c])
    /\ UNCHANGED <<carts, items, enr, billed, classes, done, broken>>

StartRemove(r, c) ==
    /\ "remove" \in Ops
    /\ Idle(r)
    /\ OpenCart(r, [IdleRequest EXCEPT !.op = "remove", !.pc = "removeRead",
                                       !.class = c])
    /\ UNCHANGED <<carts, items, enr, billed, classes, done, broken>>

StartClear(r) ==
    /\ "clear" \in Ops
    /\ Idle(r)
    /\ OpenCart(r, [IdleRequest EXCEPT !.op = "clear", !.pc = "clearRead"])
    /\ UNCHANGED <<carts, items, enr, billed, classes, done, broken>>

\* Where a request goes on once it has its cart.
AfterGetCart(op) ==
    IF op = "add" THEN "addCheck"
    ELSE IF op = "remove" THEN "removeRead" ELSE "clearRead"

NewCart(r) ==
    /\ At(r, "newCart")
    /\ \E k \in Carts :
        /\ carts[k] = "absent" /\ \A m \in Carts : m < k => carts[m] # "absent"
        /\ carts' = [carts EXCEPT ![k] = "active"]
        /\ \/ req[r].op = "get" /\ Finish(r)
           \/ /\ req[r].op # "get"
              /\ req' = [req EXCEPT ![r].cart = k,
                                    ![r].pc = AfterGetCart(req[r].op)]
    /\ UNCHANGED <<items, enr, billed, classes, done, broken>>

\* What a checkout buys of the cart it has; with nothing to buy it ends.
BuyRows(r, k, rows, student) ==
    LET bought == {items[j].class : j \in rows} \cap classes IN
    IF bought = {}
    THEN Finish(r)
    ELSE Begin(r, [IdleRequest EXCEPT !.op = "checkout", !.pc = "checkItem",
                                      !.student = student, !.cart = k,
                                      !.bought = bought, !.todo = bought])

\* The cart is saved as it was read, with its items: it is active again if it
\* was deactivated meanwhile, items deleted meanwhile are inserted again, and
\* one added meanwhile is detached, which the NOT NULL cart column refuses.
SaveCurrency(r) ==
    LET k == req[r].cart
        saved == LiveRows(k) \subseteq req[r].rows
    IN
    /\ At(r, "saveCurrency")
    /\ carts' = IF saved THEN [carts EXCEPT ![k] = "active"] ELSE carts
    /\ items' = IF saved
                THEN [j \in Items |->
                        [items[j] EXCEPT !.live = @ \/ j \in req[r].rows]]
                ELSE items
    /\ \/ (~saved \/ req[r].op = "get") /\ Finish(r)
       \/ /\ saved /\ req[r].op = "checkout" /\ req[r].bought = {}
          /\ BuyRows(r, k, req[r].rows, req[r].student)
       \/ /\ saved /\ req[r].op # "get"
          /\ req[r].op = "checkout" => req[r].bought # {}
          /\ req' = [req EXCEPT ![r].rows = {},
                                ![r].pc = AfterGetCart(req[r].op)]
    /\ UNCHANGED <<enr, billed, classes, done, broken>>

\* The cart is read again by id: it may be inactive by now.
AddCheck(r) ==
    /\ At(r, "addCheck")
    /\ IF req[r].class \in ClassesIn(req[r].cart) \/ req[r].class \notin classes
       THEN Finish(r)
       ELSE Goto(r, "addInsert")
    /\ UNCHANGED <<carts, items, enr, billed, classes, done, broken>>

AddInsert(r) ==
    /\ At(r, "addInsert")
    /\ \E j \in Items :
        /\ items[j].cart = None /\ \A m \in Items : m < j => items[m].cart # None
        /\ items' = [items EXCEPT ![j] =
               [cart |-> req[r].cart, class |-> req[r].class, live |-> TRUE]]
    /\ Finish(r)
    /\ UNCHANGED <<carts, enr, billed, classes, done, broken>>

RemoveRead(r) ==
    /\ At(r, "removeRead")
    /\ \/ \E j \in LiveRows(req[r].cart) :
            /\ items[j].class = req[r].class
            /\ req' = [req EXCEPT ![r].pc = "removeDelete", ![r].rows = {j}]
       \/ req[r].class \notin ClassesIn(req[r].cart) /\ Finish(r)
    /\ UNCHANGED <<carts, items, enr, billed, classes, done, broken>>

DeleteRows(rows) ==
    items' = [j \in Items |-> [items[j] EXCEPT !.live = @ /\ j \notin rows]]

RemoveDelete(r) ==
    /\ At(r, "removeDelete")
    /\ DeleteRows(req[r].rows)
    /\ Finish(r)
    /\ UNCHANGED <<carts, enr, billed, classes, done, broken>>

\* clearCart, a request of its own and the end of every checkout.
ClearGet(r) ==
    /\ At(r, "clearGet")
    /\ OpenCart(r, [req[r] EXCEPT !.pc = "clearRead"])
    /\ UNCHANGED <<carts, items, enr, billed, classes, done, broken>>

ClearRead(r) ==
    /\ At(r, "clearRead")
    /\ req' = [req EXCEPT ![r].pc = "clearDelete",
                          ![r].rows = LiveRows(req[r].cart)]
    /\ UNCHANGED <<carts, items, enr, billed, classes, done, broken>>

ClearDelete(r) ==
    /\ At(r, "clearDelete")
    /\ DeleteRows(req[r].rows)
    /\ Goto(r, "clearSave")
    /\ UNCHANGED <<carts, enr, billed, classes, done, broken>>

\* The cart is saved with the items it was read with, which have lost their
\* ids: the save inserts them again, in the cart it deactivates, and detaches
\* every other item of the cart, which the NOT NULL cart column refuses.
ClearSave(r) ==
    /\ At(r, "clearSave")
    /\ IF LiveRows(req[r].cart) = {}
       THEN /\ carts' = [carts EXCEPT ![req[r].cart] = "inactive"]
            /\ items' = [j \in Items |->
                           [items[j] EXCEPT !.live = @ \/ j \in req[r].rows]]
            /\ done' = IF req[r].op = "checkout"
                       THEN done \cup ({req[r].student} \X req[r].bought)
                       ELSE done
       ELSE UNCHANGED <<carts, items, done>>
    /\ Finish(r)
    /\ UNCHANGED <<enr, billed, classes, broken>>

-----------------------------------------------------------------------------
(***************************************************************************)
(* Checkout.                                                               *)
(***************************************************************************)

\* MUTANT of StartCheckout: takes the ids of the items for those of the classes.
StartCheckoutByItemId(r, st) ==
    /\ "checkout" \in Ops
    /\ Idle(r)
    /\ \E k \in ActiveCarts :
        /\ LiveRows(k) # {}
        /\ Begin(r, [IdleRequest EXCEPT !.op = "checkout", !.pc = "checkItem",
                                        !.student = st, !.cart = k,
                                        !.bought = LiveRows(k),
                                        !.todo = LiveRows(k)])
    /\ UNCHANGED <<carts, items, enr, billed, classes, done, broken>>

\* The items are those of the first read; classes that are gone are left out.
StartCheckout(r, st) ==
    /\ "checkout" \in Ops
    /\ Idle(r)
    /\ \/ \E k \in ActiveCarts :
            /\ ClassesIn(k) \cap classes # {}
            /\ BuyRows(r, k, LiveRows(k), st)
       \/ OtherCurrency(r, [IdleRequest EXCEPT !.op = "checkout",
                                               !.student = st])
    /\ UNCHANGED <<carts, items, enr, billed, classes, done, broken>>

\* MUTANT of Advance: leaves the loop after the first item.
AdvanceBreak(r, c) ==
    req' = [req EXCEPT ![r].class = None, ![r].todo = {}, ![r].pc = "clearGet"]

\* On to the next item, or to clearing the cart after the last one.
Advance(r, c) ==
    req' = [req EXCEPT ![r].class = None, ![r].todo = @ \ {c},
                       ![r].pc = IF req[r].todo = {c} THEN "clearGet"
                                                      ELSE "checkItem"]

\* Any enrolment counts, whatever its status.
CheckItem(r) ==
    /\ At(r, "checkItem")
    /\ \E c \in req[r].todo :
        IF enr[<<req[r].student, c>>] # "none"
        THEN Advance(r, c)
        ELSE req' = [req EXCEPT ![r].pc = "enroll", ![r].class = c]
    /\ UNCHANGED <<carts, items, enr, billed, classes, done, broken>>

\* The status an enrolment begins with.
FirstStatus(r) ==
    IF req[r].op = "checkout" THEN "pending_payment" ELSE req[r].status

\* MUTANT of Enroll: no unique key on the enrolments.
EnrollNoUniqueKey(r) ==
    /\ At(r, "enroll")
    /\ enr' = [enr EXCEPT ![PairOf(r)] = FirstStatus(r)]
    /\ IF req[r].op = "checkout" THEN Goto(r, "bill") ELSE Finish(r)
    /\ broken' = IF req[r].op # "checkout" /\ FirstStatus(r) = "pending_payment"
                 THEN broken \cup {PairOf(r)} ELSE broken
    /\ UNCHANGED <<carts, items, billed, classes, done>>

\* The unique key refuses a second enrolment: the whole checkout ends.
Enroll(r) ==
    /\ At(r, "enroll")
    /\ \/ enr[PairOf(r)] # "none" /\ Finish(r) /\ UNCHANGED <<enr, broken>>
       \/ /\ enr[PairOf(r)] = "none"
          /\ enr' = [enr EXCEPT ![PairOf(r)] = FirstStatus(r)]
          /\ IF req[r].op = "checkout" THEN Goto(r, "bill") ELSE Finish(r)
          /\ broken' = IF req[r].op # "checkout"
                          /\ FirstStatus(r) = "pending_payment"
                       THEN broken \cup {PairOf(r)} ELSE broken
    /\ UNCHANGED <<carts, items, billed, classes, done>>

\* MUTANT of Bill: a class that is gone is skipped instead of ending the
\* checkout.
BillOrSkip(r) ==
    /\ At(r, "bill")
    /\ billed' = IF req[r].class \in classes
                 THEN [billed EXCEPT ![PairOf(r)] = @ + 1] ELSE billed
    /\ Advance(r, req[r].class)
    /\ UNCHANGED <<carts, items, enr, classes, done, broken>>

Bill(r) ==
    /\ At(r, "bill")
    /\ IF req[r].class \in classes
       THEN /\ billed' = [billed EXCEPT ![PairOf(r)] = @ + 1]
            /\ Advance(r, req[r].class)
            /\ UNCHANGED broken
       ELSE /\ broken' = broken \cup {PairOf(r)}
            /\ Finish(r)
            /\ UNCHANGED billed
    /\ UNCHANGED <<carts, items, enr, classes, done>>

-----------------------------------------------------------------------------
(***************************************************************************)
(* The rest of the system.                                                 *)
(***************************************************************************)

\* Staff enrol a student, alone or among others: the check here, the insert in
\* a later step.  Requests for several rows take any status they are given.
StartEnroll(r, st, c, status) ==
    /\ "enroll" \in Ops
    /\ Idle(r)
    /\ enr[<<st, c>>] = "none"
    /\ Begin(r, [IdleRequest EXCEPT !.op = "enroll", !.pc = "enroll",
                                    !.student = st, !.class = c,
                                    !.status = status])
    /\ UNCHANGED <<carts, items, enr, billed, classes, done, broken>>

\* updateEnrollment, activateEnrollment and the access toggle read the row and
\* save it with what they change.  The toggle, and an update of the date only,
\* have no status in their payload: the row keeps the one it was read with.
StartRowUpdate(r, st, c, status) ==
    /\ "setEnrollment" \in Ops
    /\ Idle(r)
    /\ enr[<<st, c>>] # "none"
    /\ status \in EnrollmentStatus \cup {enr[<<st, c>>]}
    /\ Begin(r, [IdleRequest EXCEPT !.op = "update", !.pc = "rowSave",
                                    !.student = st, !.class = c,
                                    !.status = status])
    /\ UNCHANGED <<carts, items, enr, billed, classes, done, broken>>

SaveRow(r) ==
    /\ At(r, "rowSave")
    /\ enr' = [enr EXCEPT ![PairOf(r)] = req[r].status]
    /\ Finish(r)
    /\ UNCHANGED <<carts, items, billed, classes, done, broken>>

\* removeEnrollment: one UPDATE, and the row stays.
DropEnrollment(st, c) ==
    /\ "setEnrollment" \in Ops
    /\ enr[<<st, c>>] # "none"
    /\ enr' = [enr EXCEPT ![<<st, c>>] = "dropped"]
    /\ UNCHANGED <<carts, items, billed, classes, req, done, broken>>

RemoveClass(c) ==
    /\ "removeClass" \in Ops
    /\ classes' = classes \ {c}
    /\ UNCHANGED <<carts, items, enr, billed, req, done, broken>>

\* An error at an await, or a restart of the process, ends the handler; what
\* it wrote stays.
RequestFails(r) ==
    /\ "fail" \in Ops
    /\ ~Idle(r)
    /\ Finish(r)
    /\ broken' = IF At(r, "bill") THEN broken \cup {PairOf(r)} ELSE broken
    /\ UNCHANGED <<carts, items, enr, billed, classes, done>>

-----------------------------------------------------------------------------
StartRequest(r) ==
    \/ StartGet(r) \/ StartClear(r)
    \/ \E c \in Classes : StartAdd(r, c) \/ StartRemove(r, c)
    \/ \E st \in Students : StartCheckout(r, st)
    \/ \E st \in Students, c \in Classes, status \in Statuses \cup {"active"} :
           StartEnroll(r, st, c, status)
    \/ \E st \in Students, c \in Classes :
           \E status \in Statuses \cup {"active", enr[<<st, c>>]} :
              StartRowUpdate(r, st, c, status)

CartStep(r) ==
    \/ NewCart(r) \/ SaveCurrency(r) \/ AddCheck(r) \/ AddInsert(r)
    \/ RemoveRead(r) \/ RemoveDelete(r)
    \/ ClearGet(r) \/ ClearRead(r) \/ ClearDelete(r) \/ ClearSave(r)

CheckoutStep(r) == CheckItem(r) \/ Enroll(r) \/ Bill(r) \/ SaveRow(r)

Next ==
    \/ \E r \in Slots :
          StartRequest(r) \/ CartStep(r) \/ CheckoutStep(r) \/ RequestFails(r)
    \/ \E st \in Students, c \in Classes : DropEnrollment(st, c)
    \/ \E c \in Classes : RemoveClass(c)

Spec == Init /\ [][Next]_vars

-----------------------------------------------------------------------------
(***************************************************************************)
(* Properties.                                                             *)
(***************************************************************************)

\* However many checkouts of one cart run at once, and however they fail and
\* are retried, a student gets at most one checkout invoice for a class, and
\* only together with an enrolment in it.
OneInvoicePerEnrollment ==
    \A p \in Pairs : billed[p] <= 1 /\ (billed[p] = 1 => enr[p] # "none")

\* An enrolment that waits for a payment has an invoice to pay, unless the
\* checkout that made it is about to raise it or was cut short, or staff made
\* it so: also when a request that read the row before it was paid for saves
\* it after that, and it waits again.
AwaitedPaymentIsBilled ==
    \A p \in Pairs : enr[p] = "pending_payment" =>
        \/ billed[p] = 1
        \/ p \in broken
        \/ \E r \in Slots : At(r, "bill") /\ PairOf(r) = p

\* A checkout that was answered has left the student enrolled in every class
\* of the cart it read, also when other requests emptied or refilled the
\* cart, or enrolled the student, while it was running.
AnsweredCheckoutIsEnrolled == \A p \in done : enr[p] # "none"

\* What createCheckout says it creates, "enrollments, and invoices": once a
\* checkout was answered, each enrolment of its cart that waits for a payment
\* has its invoice, or a handler is about to raise it.  The code breaks it:
\* an enrolment left behind by a request that failed is skipped for ever.
AnsweredCheckoutIsBilled ==
    \A p \in done : enr[p] = "pending_payment" =>
        billed[p] = 1 \/ \E r \in Slots : At(r, "bill") /\ PairOf(r) = p

\* The enrolments whose invoice is about to be raised.
AboutToBill == {p \in Pairs : \E r \in Slots : At(r, "bill") /\ PairOf(r) = p}

\* The enrolments that were entered to wait for a payment.
EnteredAwaiting ==
    {p \in Pairs : billed[p] > 0 \/ p \in broken \/ p \in AboutToBill}

Book == INSTANCE EnrollmentBook WITH
    Entries <- Pairs,
    Statuses <- RowStatus,
    NoRow <- "none", Awaiting <- "pending_payment",
    row <- enr, owed <- AboutToBill, fees <- billed,
    awaited <- EnteredAwaiting

\* Carts, double clicks and failed requests included, checking out treats
\* enrolments and their fees as the enrolment book says: an enrolment is
\* entered once, its invoice is raised by the handler that entered it or
\* never, and a status that requests write late, from a row they read before,
\* never makes one wait for a payment that was not entered to.
KeepsBook == Book!Spec

=============================================================================
