----------------------------- MODULE MCCheckout -----------------------------
(***************************************************************************)
(* Checkout over three baskets in one run, one of them chosen at the       *)
(* start: "bulk" fills a cart with all the classes and checks it out; the  *)
(* other two have one class, "cart" with every operation on carts and      *)
(* currencies changing, "rows" with staff enrolling and changing statuses. *)
(***************************************************************************)
EXTENDS Checkout, TLC

VARIABLES
    scope,  \* the classes the shopper deals with in this behaviour
    part    \* the basket

mcvars == <<carts, items, enr, billed, classes, req, done, broken, scope, part>>

Keep == UNCHANGED <<scope, part>>
Cart == part = "cart" /\ Keep
Rows == part = "rows" /\ Keep

\* Requests in another currency belong to the basket of carts.
Same(r) == part # "cart" => req'[r].pc # "saveCurrency"

MCInit ==
    /\ Init
    /\ \/ scope = Classes /\ part = "bulk"
       \/ scope \in {{c} : c \in Classes} /\ part \in {"cart", "rows"}

MCNext ==
    \/ \E r \in Slots : StartGet(r) /\ Same(r) /\ Keep
    \/ \E r \in Slots : StartClear(r) /\ Cart
    \/ \E r \in Slots, c \in scope : StartAdd(r, c) /\ Same(r) /\ Keep
    \/ \E r \in Slots, c \in scope : StartRemove(r, c) /\ Cart
    \/ \E r \in Slots, st \in Students :
          StartCheckout(r, st) /\ Same(r) /\ Keep
    \/ \E r \in Slots, st \in Students, c \in scope,
          status \in Statuses \cup {"active"} :
          StartEnroll(r, st, c, status) /\ Rows
    \/ \E r \in Slots, st \in Students, c \in scope :
          \E status \in Statuses \cup {"active", enr[<<st, c>>]} :
             StartRowUpdate(r, st, c, status) /\ Rows
    \/ \E r \in Slots : NewCart(r) /\ Keep
    \/ \E r \in Slots : SaveCurrency(r) /\ Cart
    \/ \E r \in Slots : AddCheck(r) /\ Keep
    \/ \E r \in Slots : AddInsert(r) /\ Keep
    \/ \E r \in Slots : RemoveRead(r) /\ Cart
    \/ \E r \in Slots : RemoveDelete(r) /\ Cart
    \/ \E r \in Slots : ClearGet(r) /\ Same(r) /\ Keep
    \/ \E r \in Slots : ClearRead(r) /\ Keep
    \/ \E r \in Slots : ClearDelete(r) /\ Keep
    \/ \E r \in Slots : ClearSave(r) /\ Keep
    \/ \E r \in Slots : CheckItem(r) /\ Keep
    \/ \E r \in Slots : Enroll(r) /\ Keep
    \/ \E r \in Slots : Bill(r) /\ Keep
    \/ \E r \in Slots : SaveRow(r) /\ Rows
    \/ \E r \in Slots : RequestFails(r) /\ Keep
    \/ \E st \in Students, c \in scope : DropEnrollment(st, c) /\ Rows
    \/ \E c \in scope : RemoveClass(c) /\ Keep

MCSpec == MCInit /\ [][MCNext]_mcvars

\* Nothing tells two handlers, or two classes, apart.
Interchangeable == Permutations(Slots) \cup Permutations(Classes)
=============================================================================
