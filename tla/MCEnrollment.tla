--------------------------- MODULE MCEnrollment ---------------------------
(***************************************************************************)
(* Enrolling, with an eye on the amount of the invoice of the month.       *)
(***************************************************************************)
EXTENDS Enrollment, Functions

\* Fees of two digits: three of them still fit the column.
TwoDigits == [c \in Entries |-> 50]

\* What "Add class fee to existing invoice" says: the amount of an invoice is
\* the sum of the fees that enrolling put on it and of what it was made with.
\* The code breaks it: the fee is a string, and its digits are appended.
AmountIsTheSum ==
    \A i \in Invoices :
        amount[i] = SumFunction([c \in Entries |-> charge[i][c] * Fee[c]])

=============================================================================
