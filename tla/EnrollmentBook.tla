--------------------------- MODULE EnrollmentBook ---------------------------
(***************************************************************************)
(* What every way of enrolling promises about enrolments and their fees,   *)
(* with no carts, requests or invoices of a month: an enrolment is entered *)
(* once and its row stays for ever, whatever its status becomes; entering  *)
(* it may leave a fee to charge, and that fee is charged at most once, or  *)
(* given up for good.  Statuses are written from rows read earlier, so one *)
(* may come back that had been replaced, and an enrolment may wait for its *)
(* payment again; but only one that was entered so.  Checkout and          *)
(* Enrollment implement it.                                                *)
(***************************************************************************)
EXTENDS Naturals

CONSTANTS
    Entries,   \* what there is to enrol in, for each student
    Statuses,  \* of an enrolment
    NoRow,     \* not enrolled
    Awaiting   \* the status of an enrolment that waits for its payment

VARIABLES
    row,      \* the status of each enrolment
    owed,     \* entered, and the fee still to be charged
    fees,     \* how often the fee was charged
    awaited   \* entered to wait for a payment

book == <<row, owed, fees, awaited>>

Init ==
    /\ row = [e \in Entries |-> NoRow]
    /\ owed = {} /\ awaited = {}
    /\ fees = [e \in Entries |-> 0]

NewRow(e, status) ==
    /\ row[e] = NoRow
    /\ row' = [row EXCEPT ![e] = status]
    /\ awaited' = IF status = Awaiting THEN awaited \cup {e} ELSE awaited

\* Entered free of charge, or with a fee to come.
Enter(e, status) == NewRow(e, status) /\ UNCHANGED <<owed, fees>>

Order(e, status) ==
    NewRow(e, status) /\ owed' = owed \cup {e} /\ UNCHANGED fees

\* Also while the fee is owed.
Change(e, status) ==
    /\ row[e] # NoRow
    /\ status = Awaiting => e \in awaited
    /\ row' = [row EXCEPT ![e] = status]
    /\ UNCHANGED <<owed, fees, awaited>>

Charge(e) ==
    /\ e \in owed
    /\ owed' = owed \ {e}
    /\ fees' = [fees EXCEPT ![e] = @ + 1]
    /\ UNCHANGED <<row, awaited>>

Forget(e) ==
    /\ e \in owed
    /\ owed' = owed \ {e}
    /\ UNCHANGED <<row, fees, awaited>>

\* Giving an enrolment the status it has is no step of the book.
Next ==
    \/ \E e \in Entries : Charge(e) \/ Forget(e)
    \/ /\ row' # row
       /\ \E e \in Entries, status \in Statuses :
             Enter(e, status) \/ Order(e, status) \/ Change(e, status)

Spec == Init /\ [][Next]_book

\* What the book is for: a fee is charged once at most, never after it was
\* given up, and only to who is enrolled.
ChargedOnce ==
    \A e \in Entries :
        /\ fees[e] <= 1
        /\ fees[e] = 1 => row[e] # NoRow /\ e \notin owed

=============================================================================
