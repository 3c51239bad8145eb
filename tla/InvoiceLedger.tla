--------------------------- MODULE InvoiceLedger ---------------------------
(***************************************************************************)
(* What the payment code promises about invoices and money, with no        *)
(* handlers, sessions or webhooks: an invoice is paid by a payment that    *)
(* was made for it and that the gateway took, or by hand; a refund gives   *)
(* back money that was taken.  Payments implements it.                     *)
(***************************************************************************)
EXTENDS Naturals

CONSTANTS
    Invoices,
    Payments,      \* gateway payments
    Manual,        \* the invoices staff may settle by hand
    None, External \* no value; a payment outside the gateway

VARIABLES
    bill,      \* the invoice each payment is for
    money,     \* payments the gateway took
    paid,      \* invoices that count as paid
    evidence,  \* the payment an invoice names
    refunds    \* payments that were given back

ledger == <<bill, money, paid, evidence, refunds>>

Init ==
    /\ bill = [p \in Payments |-> None]
    /\ money = {} /\ paid = {} /\ refunds = {}
    /\ evidence = [i \in Invoices |-> None]

Bill(p, i) ==
    /\ bill[p] = None
    /\ bill' = [bill EXCEPT ![p] = i]
    /\ UNCHANGED <<money, paid, evidence, refunds>>

Take(p) ==
    /\ money' = money \cup {p}
    /\ UNCHANGED <<bill, paid, evidence, refunds>>

\* As often as the gateway says so, also after a refund.
Settle(p, i) ==
    /\ p \in money /\ bill[p] = i
    /\ paid' = paid \cup {i}
    /\ evidence' = [evidence EXCEPT ![i] = p]
    /\ UNCHANGED <<bill, money, refunds>>

SettleByHand(i) ==
    /\ i \in Manual
    /\ paid' = paid \cup {i}
    /\ evidence' \in {evidence, [evidence EXCEPT ![i] = External]}
    /\ UNCHANGED <<bill, money, refunds>>

Reopen(i) ==
    /\ paid' = paid \ {i}
    /\ UNCHANGED <<bill, money, evidence, refunds>>

Refund(p) ==
    /\ p \in money /\ bill[p] # None
    /\ refunds' = refunds \cup {p}
    /\ UNCHANGED <<bill, money, paid, evidence>>

Next ==
    \/ \E p \in Payments : Take(p) \/ Refund(p)
    \/ \E p \in Payments, i \in Invoices : Bill(p, i) \/ Settle(p, i)
    \/ \E i \in Invoices : SettleByHand(i) \/ Reopen(i)

Spec == Init /\ [][Next]_ledger

=============================================================================
