---------------------------- MODULE InvoiceNumber ----------------------------
(***************************************************************************)
(* How an invoice gets its number: the highest number of the year is read, *)
(* and the invoice is inserted with the next one in a later round trip.    *)
(* The read locks the row it found, but only until its own transaction     *)
(* ends, before the insert: a second reader waits for the first and then   *)
(* goes on with the row it had found, so the lock changes no outcome and   *)
(* is left out.  What keeps numbers apart is the unique key of the table,  *)
(* and a creation that meets it tries again, a few times.                  *)
(***************************************************************************)
EXTENDS Naturals

CONSTANTS
    Requests,    \* creations of invoices, at any time of the year
    MaxNumber,   \* bound: numbers of the year
    MaxRetries,  \* tries of one creation (5 in the code)
    Given,       \* numbers that callers bring with them
    Ops          \* operations that take place in this instance

Numbers == 1..MaxNumber

\* 'INV-<year>-0NaN': what follows a number that does not end in digits.
NaN == 0

AllOps == {"remove", "custom"}

ASSUME ConstantsAssumption ==
    /\ MaxNumber \in Nat /\ MaxRetries \in Nat \ {0}
    /\ Given \subseteq Numbers
    /\ Ops \subseteq AllOps

VARIABLES
    issued,     \* table invoice: numbers of the year, of removed rows as well
    deleted,    \* those of the removed rows
    custom,     \* staff numbered an invoice of the year without digits
    req,        \* the creations
    overtaken   \* history: invoices inserted by others since each one began

vars == <<issued, deleted, custom, req, overtaken>>

PCs == {"idle", "read", "insert", "done", "failed", "stopped"}

Pending == {r \in Requests : req[r].pc \in {"read", "insert"}}

TypeOK ==
    /\ issued \in SUBSET (Numbers \cup {NaN})
    /\ deleted \in SUBSET (Numbers \cup {NaN})
    /\ custom \in BOOLEAN
    /\ req \in [Requests -> [pc : PCs, number : Numbers \cup {NaN},
                             tries : 0..(MaxRetries - 1), given : BOOLEAN]]
    /\ overtaken \in [Requests -> Nat]

Init ==
    /\ issued = {} /\ deleted = {}
    /\ custom = FALSE
    /\ req = [r \in Requests |-> [pc |-> "idle", number |-> NaN, tries |-> 0,
                                  given |-> FALSE]]
    /\ overtaken = [r \in Requests |-> 0]

-----------------------------------------------------------------------------
\* n is the number after the highest of the set S of numbers.
Follows(n, S) ==
    /\ \A m \in S : m < n
    /\ n = 1 \/ n - 1 \in S

\* MUTANT of IsNextNumber: removed invoices are left out.
IsNextOfLive(n) ==
    IF custom \/ NaN \in issued THEN n = NaN ELSE Follows(n, issued \ deleted)

\* MUTANT of IsNextNumber: counts from the second number of the year.
IsNextFromTwo(n) ==
    IF custom \/ NaN \in issued THEN n = NaN
    ELSE n = 2 \/ (n > 2 /\ Follows(n, issued))

\* The query sorts by the digits at the end of the number, and PostgreSQL puts
\* a row without any first.
IsNextNumber(n) ==
    IF custom \/ NaN \in issued THEN n = NaN ELSE Follows(n, issued)

StartCreate(r) ==
    /\ req[r].pc = "idle"
    /\ req' = [req EXCEPT ![r].pc = "read"]
    /\ UNCHANGED <<issued, deleted, custom, overtaken>>

\* The caller brings a number: typed by staff, or read some time before.
StartNumbered(r, n) ==
    /\ req[r].pc = "idle"
    /\ req' = [req EXCEPT ![r].pc = "insert", ![r].number = n,
                          ![r].given = TRUE]
    /\ UNCHANGED <<issued, deleted, custom, overtaken>>

ReadNumber(r) ==
    /\ req[r].pc = "read"
    /\ \E n \in Numbers \cup {NaN} :
        /\ IsNextNumber(n)
        /\ req' = [req EXCEPT ![r].pc = "insert", ![r].number = n]
    /\ UNCHANGED <<issued, deleted, custom, overtaken>>

Insert(r) ==
    /\ req[r].pc = "insert" /\ req[r].number \notin issued
    /\ issued' = issued \cup {req[r].number}
    /\ req' = [req EXCEPT ![r].pc = "done"]
    /\ overtaken' = [q \in Requests |->
           IF q \in Pending \ {r} THEN overtaken[q] + 1 ELSE overtaken[q]]
    /\ UNCHANGED <<deleted, custom>>

\* MUTANT of TryAgain: compares before it counts.
TryAgainOnceMore(r) ==
    /\ req[r].pc = "insert" /\ req[r].number \in issued
    /\ req[r].tries < MaxRetries
    /\ req' = [req EXCEPT ![r].pc = "read", ![r].tries = @ + 1]
    /\ UNCHANGED <<issued, deleted, custom, overtaken>>

\* The unique key refuses the number: another try, with a number of its own.
TryAgain(r) ==
    /\ req[r].pc = "insert" /\ req[r].number \in issued
    /\ req[r].tries + 1 < MaxRetries
    /\ req' = [req EXCEPT ![r].pc = "read", ![r].tries = @ + 1]
    /\ UNCHANGED <<issued, deleted, custom, overtaken>>

GiveUp(r) ==
    /\ req[r].pc = "insert" /\ req[r].number \in issued
    /\ req[r].tries + 1 >= MaxRetries
    /\ req' = [req EXCEPT ![r].pc = "failed"]
    /\ UNCHANGED <<issued, deleted, custom, overtaken>>

\* Any other error, or a restart.
Stop(r) ==
    /\ r \in Pending
    /\ req' = [req EXCEPT ![r].pc = "stopped"]
    /\ UNCHANGED <<issued, deleted, custom, overtaken>>

\* Rows are only marked as deleted.
RemoveInvoice(n) ==
    /\ "remove" \in Ops
    /\ n \in issued
    /\ deleted' = deleted \cup {n}
    /\ UNCHANGED <<issued, custom, req, overtaken>>

\* Staff create, or renumber, an invoice as, say, 'INV-<year>-A'.
CustomNumber ==
    /\ "custom" \in Ops
    /\ custom' = TRUE
    /\ UNCHANGED <<issued, deleted, req, overtaken>>

Next ==
    \/ \E r \in Requests :
          \/ StartCreate(r) \/ ReadNumber(r)
          \/ Insert(r) \/ TryAgain(r) \/ GiveUp(r) \/ Stop(r)
          \/ \E n \in Given : StartNumbered(r, n)
    \/ \E n \in Numbers : RemoveInvoice(n)
    \/ CustomNumber

Spec == Init /\ [][Next]_vars

-----------------------------------------------------------------------------
(***************************************************************************)
(* Properties.                                                             *)
(***************************************************************************)

\* A creation only gives up, after all its tries, because as many invoices
\* were inserted by others since it began; a number its caller brought may
\* cost it one try for nothing.
GivesUpOnlyInRaces ==
    \A r \in Requests : req[r].pc = "failed" =>
        overtaken[r] + (IF req[r].given THEN 1 ELSE 0) >= MaxRetries

\* The same while every number of the year ends in digits.
GivesUpOnlyWhenOvertaken == ~custom => GivesUpOnlyInRaces

\* However creations race, fail and are removed, the numbers of a year have no
\* gaps but those below a number that a caller brought.
NoGaps ==
    \A n \in issued, m \in Numbers : m < n /\ m \notin issued =>
        \E g \in Given : m < g /\ g <= n

=============================================================================
