----------------------------- MODULE MCPayments -----------------------------
\* Values for the constants of Payments that a configuration cannot write.
EXTENDS Payments, TLC

CONSTANT s1

OneOwner == [i \in Invoices |-> s1]

\* Nothing tells two handlers, two session ids, or two invoices of one student
\* apart.
Interchangeable ==
    Permutations(Slots) \cup Permutations(Trackers) \cup Permutations(Invoices)
=============================================================================
