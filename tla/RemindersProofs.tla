--------------------------- MODULE RemindersProofs ---------------------------
(***************************************************************************)
(* What Reminders guarantees for any number of invoices and runs, whatever *)
(* fails and whenever the process stops.  A run reminds of an invoice in   *)
(* one turn and writes only its own rows, so all there is to know is what  *)
(* a run has behind it: TurnInv says it of the invoices, AttemptInv of the *)
(* one attempt that is being made.                                         *)
(***************************************************************************)
EXTENDS Reminders, TLAPS

AttemptPCs == {"mail", "message", "provider", "smsLog", "remind",
               "remindFailed"}

Untouched(k) == reminder[k] = "none" /\ smsLog[k] = "none" /\ inbox[k] = 0

\* The reminder has its entry, or it is known that one could not be written.
Accounted(r, b, ch) ==
    reminder[<<r, b, ch>>] # "none" \/ <<r, b>> \in unlogged

Arrived(k) == inbox[k] = 1 \/ k \in assumed

\* The attempt that a run at this place with this outcome makes, with key k.
AttemptInv(pc, outcome, k) ==
    /\ reminder[k] = "none" /\ inbox[k] \in {0, 1}
    /\ pc = "mail" <=> k[3] = "email" /\ pc \notin {"remind", "remindFailed"}
    /\ pc \in {"mail", "message"} => Untouched(k) /\ outcome = "failed"
    /\ pc = "provider" => inbox[k] = 0 /\ outcome = "failed"
    /\ pc \in {"smsLog", "remind"} /\ outcome = "sent" => Arrived(k)
    /\ pc = "remind" /\ outcome = "sent" /\ k[3] # "email" =>
          smsLog[k] = "sent"

TurnInv(r) ==
    LET h == run[r] IN
    /\ h.tried \cup h.bill \subseteq h.listed
    /\ h.cron => h.listed \subseteq owed[r]
    /\ h.pc \in {"idle", "read"} => h.listed = {}
    /\ h.pc \in {"next", "done"} => h.bill = {}
    /\ h.pc = "done" => h.listed \subseteq h.tried
    /\ h.pc \in AttemptPCs \cup {"lookup"} =>
          \E b \in Bills : h.bill = {b} /\ b \notin h.tried
    /\ \A b \in Bills \ (h.tried \cup h.bill) :
          h.reached[b] = {} /\ \A ch \in Channels : Untouched(<<r, b, ch>>)
    /\ \A b \in h.tried : \A ch \in h.reached[b] : Accounted(r, b, ch)
    /\ h.pc = "lookup" => \A b \in h.bill :
          h.reached[b] = {} /\ \A ch \in Channels : Untouched(<<r, b, ch>>)
    /\ h.pc \in AttemptPCs => \A b \in h.bill :
          /\ h.ch \notin h.left
          /\ \A ch \in h.left : Untouched(<<r, b, ch>>)
          /\ \A ch \in h.reached[b] \ (h.left \cup {h.ch}) : Accounted(r, b, ch)
          /\ AttemptInv(h.pc, h.outcome, <<r, b, h.ch>>)

RemindersInv ==
    /\ RemindersTypeOK
    /\ ReportedReminderWasSent
    /\ \A r \in Runs : TurnInv(r)

-----------------------------------------------------------------------------
(***************************************************************************)
(* Runs are records; what becomes of one after an attempt.                 *)
(***************************************************************************)

LEMMA IdleRunMeans ==
  /\ IdleRun \in RunRecords /\ IdleRun.listed = {} /\ IdleRun.tried = {}
  /\ IdleRun.bill = {} /\ IdleRun.cron /\ \A b \in Bills : IdleRun.reached[b] = {}
  BY DEF IdleRun, RunRecords, RunPCs, Channels

LEMMA RunToMeans ==
  ASSUME RemindersTypeOK, NEW r \in Runs, NEW h \in RunRecords, RunTo(r, h)
  PROVE  /\ run' \in [Runs -> RunRecords] /\ run'[r] = h
         /\ \A q \in Runs \ {r} : run'[q] = run[q]
  BY DEF RemindersTypeOK, RunTo

\* The turn of an invoice is over.
LEMMA NextBillMeans ==
  ASSUME NEW h \in RunRecords
  PROVE  /\ NextBill(h) \in RunRecords
         /\ NextBill(h).pc = "next" /\ NextBill(h).bill = {}
         /\ NextBill(h).tried = h.tried \cup h.bill
         /\ NextBill(h).listed = h.listed /\ NextBill(h).cron = h.cron
         /\ NextBill(h).reached = h.reached
  BY DEF NextBill, RunRecords, RunPCs, Channels

\* So it is when no channel is left; otherwise one of them is next.
LEMMA NextChannelMeans ==
  ASSUME NEW h \in RunRecords
  PROVE  /\ NextChannel(h) \in RunRecords
         /\ \/ h.left = {} /\ NextChannel(h) = NextBill(h)
            \/ LET k == NextChannel(h) IN
               /\ k.ch \in h.left /\ k.left = h.left \ {k.ch}
               /\ k.pc = IF k.ch = "email" THEN "mail" ELSE "message"
               /\ k.outcome = "failed" /\ k.listed = h.listed
               /\ k.tried = h.tried /\ k.bill = h.bill /\ k.cron = h.cron
               /\ k.reached = h.reached
  <1>1. CASE h.left = {}
    BY <1>1, NextBillMeans DEF NextChannel
  <1>2. CASE h.left # {}
    <2> DEFINE ch == IF "email" \in h.left THEN "email"
                     ELSE IF "sms" \in h.left THEN "sms" ELSE "whatsapp"
               k == [h EXCEPT !.pc = IF ch = "email" THEN "mail" ELSE "message",
                              !.ch = ch, !.left = @ \ {ch},
                              !.outcome = "failed"]
    <2>1. h.left \subseteq Channels
      BY DEF RunRecords
    <2>2. ch \in h.left
      BY <1>2, <2>1 DEF Channels
    <2>3. NextChannel(h) = k
      BY <1>2 DEF NextChannel
    <2> HIDE DEF ch
    <2>4. /\ k \in RunRecords /\ k.ch = ch /\ k.left = h.left \ {ch}
          /\ k.pc = (IF ch = "email" THEN "mail" ELSE "message")
          /\ k.outcome = "failed" /\ k.listed = h.listed
          /\ k.tried = h.tried /\ k.bill = h.bill /\ k.cron = h.cron
          /\ k.reached = h.reached
      BY <2>1, <2>2 DEF RunRecords, RunPCs
    <2> HIDE DEF k
    <2> QED BY <2>2, <2>3, <2>4
  <1> QED BY <1>1, <1>2

-----------------------------------------------------------------------------
(***************************************************************************)
(* What a step leaves alone.                                               *)
(***************************************************************************)
SameKey(k) ==
    reminder'[k] = reminder[k] /\ smsLog'[k] = smsLog[k] /\ inbox'[k] = inbox[k]

Growing == assumed \subseteq assumed' /\ unlogged \subseteq unlogged'

\* A run whose record and rows stay has the same behind it.
LEMMA OthersKeep ==
  ASSUME NEW r \in Runs, TurnInv(r), RemindersTypeOK, Growing,
         run'[r] = run[r], owed'[r] = owed[r],
         \A b \in Bills, ch \in Channels : SameKey(<<r, b, ch>>)
  PROVE  TurnInv(r)'
  <1>1. run[r] \in RunRecords
    BY DEF RemindersTypeOK
  <1>2. /\ run[r].tried \subseteq Bills /\ run[r].bill \subseteq Bills
        /\ run[r].ch \in Channels /\ run[r].left \subseteq Channels
        /\ \A b \in Bills : run[r].reached[b] \subseteq Channels
    BY <1>1 DEF RunRecords
  <1>3. \A b \in Bills, ch \in Channels :
           /\ Untouched(<<r, b, ch>>) => Untouched(<<r, b, ch>>)'
           /\ Accounted(r, b, ch) => Accounted(r, b, ch)'
    BY DEF Growing, SameKey, Untouched, Accounted
  <1>4. \A b \in Bills :
           AttemptInv(run[r].pc, run[r].outcome, <<r, b, run[r].ch>>) =>
              AttemptInv(run[r].pc, run[r].outcome, <<r, b, run[r].ch>>)'
    BY <1>2 DEF Growing, SameKey, AttemptInv, Untouched, Arrived
  <1> QED BY <1>2, <1>3, <1>4 DEF TurnInv

\* The reports stay true when one key is written and stays true itself.
LEMMA ReportKeeps ==
  ASSUME ReportedReminderWasSent, NEW k \in Keys, Growing,
         \A l \in Keys \ {k} : SameKey(l),
         inbox'[k] <= 1,
         reminder'[k] = "sent" =>
            /\ inbox'[k] = 1 \/ k \in assumed'
            /\ k[3] # "email" => smsLog'[k] = "sent"
  PROVE  ReportedReminderWasSent'
  BY DEF ReportedReminderWasSent, Growing, SameKey

\* The record of a run in the turn of b, apart from what it notes of b.
InTurn(g, h, b) ==
    /\ g.tried = h.tried /\ g.listed = h.listed /\ g.cron = h.cron
    /\ g.bill = {b} /\ h.bill = {b}
    /\ \A c \in Bills \ {b} : g.reached[c] = h.reached[c]

\* A run at its end of a turn, with the invoice b accounted for.
LEMMA TurnEnds ==
  ASSUME RemindersTypeOK, NEW r \in Runs, TurnInv(r), NEW b \in Bills,
         NEW g \in RunRecords, InTurn(g, run[r], b),
         run'[r] = NextBill(g), owed'[r] = owed[r],
         Growing, \A c \in Bills \ {b}, ch \in Channels : SameKey(<<r, c, ch>>),
         \A ch \in g.reached[b] : Accounted(r, b, ch)'
  PROVE  TurnInv(r)'
  <1> DEFINE h == run[r]
             k == run'[r]
  <1>1. /\ h \in RunRecords /\ h.tried \subseteq Bills
        /\ \A c \in Bills : g.reached[c] \subseteq Channels
    BY DEF RemindersTypeOK, RunRecords
  <1>2. /\ k.pc = "next" /\ k.bill = {} /\ k.tried = h.tried \cup {b}
        /\ k.listed = h.listed /\ k.cron = h.cron /\ k.reached = g.reached
    BY <1>1, NextBillMeans DEF InTurn
  <1>3. \A c \in Bills \ {b}, ch \in Channels :
           /\ Untouched(<<r, c, ch>>) => Untouched(<<r, c, ch>>)'
           /\ Accounted(r, c, ch) => Accounted(r, c, ch)'
    BY DEF Growing, SameKey, Untouched, Accounted
  <1>4. /\ h.tried \cup {b} \subseteq h.listed
        /\ h.cron => h.listed \subseteq owed[r]
        /\ \A c \in Bills \ (h.tried \cup {b}) :
              g.reached[c] = {} /\ \A ch \in Channels : Untouched(<<r, c, ch>>)
        /\ \A c \in h.tried \ {b} : \A ch \in g.reached[c] : Accounted(r, c, ch)
    BY <1>1 DEF TurnInv, InTurn
  <1> HIDE DEF k, h
  <1>5. \A c \in Bills \ (k.tried \cup k.bill) :
           k.reached[c] = {} /\ \A ch \in Channels : Untouched(<<r, c, ch>>)'
    BY <1>2, <1>3, <1>4
  <1>6. \A c \in k.tried : \A ch \in k.reached[c] : Accounted(r, c, ch)'
    BY <1>1, <1>2, <1>3, <1>4
  <1> QED BY <1>2, <1>4, <1>5, <1>6 DEF TurnInv, AttemptPCs, k

\* A run in the turn of b that holds g's record has what TurnInv asks of it.
LEMMA TurnOf ==
  ASSUME RemindersTypeOK, NEW r \in Runs, TurnInv(r), NEW b \in Bills,
         b \notin run[r].tried,
         NEW g \in RunRecords, InTurn(g, run[r], b),
         run'[r] = g, owed'[r] = owed[r], g.pc \in AttemptPCs,
         Growing, \A c \in Bills \ {b}, ch \in Channels : SameKey(<<r, c, ch>>),
         g.ch \notin g.left, \A ch \in g.left : Untouched(<<r, b, ch>>)',
         \A ch \in g.reached[b] \ (g.left \cup {g.ch}) : Accounted(r, b, ch)',
         AttemptInv(g.pc, g.outcome, <<r, b, g.ch>>)'
  PROVE  TurnInv(r)'
  <1> DEFINE h == run[r]
  <1>1. /\ h \in RunRecords /\ h.tried \subseteq Bills
        /\ \A c \in Bills : g.reached[c] \subseteq Channels
    BY DEF RemindersTypeOK, RunRecords
  <1>3. \A c \in Bills \ {b}, ch \in Channels :
           /\ Untouched(<<r, c, ch>>) => Untouched(<<r, c, ch>>)'
           /\ Accounted(r, c, ch) => Accounted(r, c, ch)'
    BY DEF Growing, SameKey, Untouched, Accounted
  <1>4. /\ h.tried \cup {b} \subseteq h.listed
        /\ h.cron => h.listed \subseteq owed[r]
        /\ \A c \in Bills \ (h.tried \cup {b}) :
              g.reached[c] = {} /\ \A ch \in Channels : Untouched(<<r, c, ch>>)
        /\ \A c \in h.tried : \A ch \in g.reached[c] : Accounted(r, c, ch)
    BY <1>1 DEF TurnInv, InTurn
  <1>5. /\ g.tried = h.tried /\ g.listed = h.listed /\ g.cron = h.cron
        /\ g.bill = {b} /\ b \notin h.tried
    BY DEF InTurn
  <1>6. /\ g.pc \notin {"idle", "read", "next", "done", "lookup"}
    BY DEF AttemptPCs
  <1> HIDE DEF h
  <1>7. \A c \in Bills \ (g.tried \cup g.bill) :
           g.reached[c] = {} /\ \A ch \in Channels : Untouched(<<r, c, ch>>)'
    BY <1>3, <1>4, <1>5
  <1>8. \A c \in g.tried : \A ch \in g.reached[c] : Accounted(r, c, ch)'
    BY <1>1, <1>3, <1>4, <1>5
  <1> QED BY <1>4, <1>5, <1>6, <1>7, <1>8 DEF TurnInv

\* After an attempt comes the next channel, or the turn is over.
LEMMA NextTurn ==
  ASSUME RemindersTypeOK, NEW r \in Runs, TurnInv(r), NEW b \in Bills,
         b \notin run[r].tried,
         NEW g \in RunRecords, InTurn(g, run[r], b),
         run'[r] = NextChannel(g), owed'[r] = owed[r],
         Growing, \A c \in Bills \ {b}, ch \in Channels : SameKey(<<r, c, ch>>),
         \A ch \in g.left : Untouched(<<r, b, ch>>)',
         \A ch \in g.reached[b] \ g.left : Accounted(r, b, ch)'
  PROVE  TurnInv(r)'
  <1> DEFINE k == NextChannel(g)
  <1>1. CASE g.left = {} /\ k = NextBill(g)
    BY <1>1, TurnEnds
  <1>2. CASE /\ k.ch \in g.left /\ k.left = g.left \ {k.ch}
             /\ k.pc = IF k.ch = "email" THEN "mail" ELSE "message"
             /\ k.outcome = "failed" /\ k.listed = g.listed
             /\ k.tried = g.tried /\ k.bill = g.bill /\ k.cron = g.cron
             /\ k.reached = g.reached
    <2>1. k \in RunRecords
      BY NextChannelMeans
    <2> HIDE DEF k
    <2>2. InTurn(k, run[r], b) /\ k.pc \in AttemptPCs /\ run'[r] = k
      BY <1>2 DEF InTurn, AttemptPCs, k
    <2>3. k.ch \notin k.left /\ \A ch \in k.left : Untouched(<<r, b, ch>>)'
      BY <1>2
    <2>4. \A ch \in k.reached[b] \ (k.left \cup {k.ch}) : Accounted(r, b, ch)'
      BY <1>2
    <2>5. Untouched(<<r, b, k.ch>>)'
      BY <1>2
    <2>6. AttemptInv(k.pc, k.outcome, <<r, b, k.ch>>)'
      BY <1>2, <2>5 DEF AttemptInv, Untouched
    <2> QED BY <2>1, <2>2, <2>3, <2>4, <2>6, TurnOf
  <1> QED BY <1>1, <1>2, NextChannelMeans

-----------------------------------------------------------------------------
(***************************************************************************)
(* The steps of one run that write no row.                                 *)
(***************************************************************************)

LEMMA OneRunMoves ==
  ASSUME RemindersInv, NEW r \in Runs, RemindersTypeOK', Growing,
         ReportedReminderWasSent', TurnInv(r)',
         \A q \in Runs \ {r} :
            /\ run'[q] = run[q] /\ owed'[q] = owed[q]
            /\ \A b \in Bills, ch \in Channels : SameKey(<<q, b, ch>>)
  PROVE  RemindersInv'
  <1>1. \A q \in Runs \ {r} : TurnInv(q)'
    BY OthersKeep DEF RemindersInv
  <1> QED BY <1>1 DEF RemindersInv

LEMMA QuietStep ==
  ASSUME RemindersInv, NEW r \in Runs, NEW h \in RunRecords, RunTo(r, h),
         UNCHANGED <<bill, contacts, remindersLogs>>, TurnInv(r)'
  PROVE  RemindersInv'
  <1>1. /\ run' \in [Runs -> RunRecords]
        /\ \A q \in Runs \ {r} : run'[q] = run[q]
    BY RunToMeans DEF RemindersInv
  <1>2. RemindersTypeOK' /\ ReportedReminderWasSent' /\ Growing
    BY <1>1 DEF RemindersInv, RemindersTypeOK, ReportedReminderWasSent,
                remindersLogs, Growing
  <1>3. \A q \in Runs \ {r} :
           /\ run'[q] = run[q] /\ owed'[q] = owed[q]
           /\ \A b \in Bills, ch \in Channels : SameKey(<<q, b, ch>>)
    BY <1>1 DEF remindersLogs, SameKey
  <1> QED BY <1>2, <1>3, OneRunMoves

\* The fields of a record of a run.
LEMMA RunFields ==
  ASSUME RemindersTypeOK, NEW r \in Runs
  PROVE  /\ run[r] \in RunRecords /\ run[r].pc \in RunPCs
         /\ run[r].listed \subseteq Bills /\ run[r].tried \subseteq Bills
         /\ run[r].bill \subseteq Bills /\ run[r].ch \in Channels
         /\ run[r].left \subseteq Channels
         /\ run[r].reached \in [Bills -> SUBSET Channels]
         /\ run[r].outcome \in {"sent", "failed"} /\ run[r].cron \in BOOLEAN
  BY DEF RemindersTypeOK, RunRecords

\* A run that has not listed anything has no row.
LEMMA NothingListed ==
  ASSUME RemindersTypeOK, NEW r \in Runs, TurnInv(r), run[r].listed = {}
  PROVE  /\ run[r].tried = {} /\ run[r].bill = {}
         /\ \A b \in Bills : run[r].reached[b] = {}
         /\ \A b \in Bills, ch \in Channels : Untouched(<<r, b, ch>>)
  BY RunFields DEF TurnInv

\* The three ways a run starts.
LEMMA StartKeeps ==
  ASSUME RemindersInv, NEW r \in Runs, RunAt(r, "idle"),
         NEW h \in RunRecords, h.pc \in {"read", "next"},
         h.tried = {} /\ h.bill = {} /\ \A b \in Bills : h.reached[b] = {},
         h.cron \/ h.pc = "read" => h.listed = {},
         RunTo(r, h), UNCHANGED <<bill, contacts, remindersLogs>>
  PROVE  RemindersInv'
  <1>2. \A b \in Bills, ch \in Channels : Untouched(<<r, b, ch>>)
    BY NothingListed DEF RemindersInv, TurnInv, RunAt
  <1>3. run'[r] = h
    BY RunToMeans DEF RemindersInv
  <1>4. \A b \in Bills, ch \in Channels : Untouched(<<r, b, ch>>)'
    BY <1>2 DEF Untouched, remindersLogs
  <1>5. TurnInv(r)'
    BY <1>3, <1>4 DEF TurnInv, AttemptPCs
  <1> QED BY <1>5, QuietStep

LEMMA StartDailyKeeps ==
  ASSUME RemindersInv, NEW r \in Runs, StartDaily(r)
  PROVE  RemindersInv'
  <1> DEFINE h == [IdleRun EXCEPT !.pc = "read"]
  <1>1. /\ h \in RunRecords /\ h.pc = "read" /\ h.listed = {}
        /\ h.tried = {} /\ h.bill = {} /\ \A b \in Bills : h.reached[b] = {}
    BY DEF IdleRun, RunRecords, RunPCs, Channels
  <1>2. RunAt(r, "idle") /\ RunTo(r, h)
    BY DEF StartDaily, IsNextRun
  <1> HIDE DEF h
  <1> QED BY <1>1, <1>2, StartKeeps DEF StartDaily

LEMMA StartWeeklyKeeps ==
  ASSUME RemindersInv, NEW r \in Runs, StartWeekly(r)
  PROVE  RemindersInv'
  <1> DEFINE h == [IdleRun EXCEPT !.pc = "next"]
  <1>1. /\ h \in RunRecords /\ h.pc = "next" /\ h.listed = {}
        /\ h.tried = {} /\ h.bill = {} /\ \A b \in Bills : h.reached[b] = {}
    BY DEF IdleRun, RunRecords, RunPCs, Channels
  <1>2. RunAt(r, "idle") /\ RunTo(r, h)
    BY DEF StartWeekly, IsNextRun
  <1> HIDE DEF h
  <1> QED BY <1>1, <1>2, StartKeeps DEF StartWeekly

LEMMA StartRequestedKeeps ==
  ASSUME RemindersInv, NEW r \in Runs, NEW b \in Bills, StartRequested(r, b)
  PROVE  RemindersInv'
  <1> DEFINE h == [IdleRun EXCEPT !.pc = "next", !.cron = FALSE, !.listed = {b}]
  <1>1. /\ h \in RunRecords /\ h.pc = "next" /\ h.cron = FALSE
        /\ h.tried = {} /\ h.bill = {} /\ \A c \in Bills : h.reached[c] = {}
    BY DEF IdleRun, RunRecords, RunPCs, Channels
  <1>2. RunAt(r, "idle") /\ RunTo(r, h)
    BY DEF StartRequested, IsNextRun
  <1> HIDE DEF h
  <1> QED BY <1>1, <1>2, StartKeeps DEF StartRequested

LEMMA PickBillKeeps ==
  ASSUME RemindersInv, NEW r \in Runs, PickBill(r)
  PROVE  RemindersInv'
  <1>1. PICK b \in run[r].listed \ run[r].tried :
           RunTo(r, [run[r] EXCEPT !.pc = "lookup", !.bill = {b}])
    BY DEF PickBill
  <1> DEFINE h == run[r]
             g == [run[r] EXCEPT !.pc = "lookup", !.bill = {b}]
  <1>2. RemindersTypeOK /\ TurnInv(r) /\ h \in RunRecords /\ b \in Bills
    BY RunFields DEF RemindersInv
  <1>3. /\ g \in RunRecords /\ g.pc = "lookup" /\ g.bill = {b}
        /\ g.tried = h.tried /\ g.listed = h.listed /\ g.cron = h.cron
        /\ g.reached = h.reached
    BY <1>2 DEF RunRecords, RunPCs
  <1>4. run'[r] = g
    BY <1>1, <1>2, <1>3, RunToMeans
  <1>5. /\ h.tried \subseteq h.listed
        /\ h.cron => h.listed \subseteq owed[r]
        /\ \A c \in Bills \ h.tried :
              h.reached[c] = {} /\ \A ch \in Channels : Untouched(<<r, c, ch>>)
        /\ \A c \in h.tried : \A ch \in h.reached[c] : Accounted(r, c, ch)
    BY <1>2 DEF TurnInv, PickBill, RunAt
  <1>6. \A k : (Untouched(k) => Untouched(k)')
    BY DEF PickBill, remindersLogs, Untouched
  <1>7. \A c \in Bills, ch \in Channels :
           Accounted(r, c, ch) => Accounted(r, c, ch)'
    BY DEF PickBill, remindersLogs, Accounted
  <1>8. owed'[r] = owed[r] /\ h.tried \subseteq Bills
        /\ \A c \in Bills : h.reached[c] \subseteq Channels
    BY <1>2 DEF PickBill, remindersLogs, RunRecords
  <1>9. b \in h.listed /\ b \notin h.tried
    OBVIOUS
  <1> HIDE DEF g, h
  <1>10. TurnInv(r)'
    BY <1>2, <1>3, <1>4, <1>5, <1>6, <1>7, <1>8, <1>9 DEF TurnInv, AttemptPCs
  <1> QED BY <1>1, <1>3, <1>10, QuietStep DEF PickBill, g

LEMMA EndRunKeeps ==
  ASSUME RemindersInv, NEW r \in Runs, EndRun(r)
  PROVE  RemindersInv'
  <1> DEFINE h == run[r]
             g == [run[r] EXCEPT !.pc = "done"]
  <1>2. RemindersTypeOK /\ TurnInv(r) /\ h \in RunRecords
    BY RunFields DEF RemindersInv
  <1>3. /\ g \in RunRecords /\ g.pc = "done" /\ g.bill = h.bill
        /\ g.tried = h.tried /\ g.listed = h.listed /\ g.cron = h.cron
        /\ g.reached = h.reached
    BY <1>2 DEF RunRecords, RunPCs
  <1>4. run'[r] = g
    BY <1>2, <1>3, RunToMeans DEF EndRun
  <1>5. /\ h.listed \subseteq h.tried /\ h.bill = {}
        /\ h.tried \subseteq h.listed
        /\ h.cron => h.listed \subseteq owed[r]
        /\ \A c \in Bills \ h.tried :
              h.reached[c] = {} /\ \A ch \in Channels : Untouched(<<r, c, ch>>)
        /\ \A c \in h.tried : \A ch \in h.reached[c] : Accounted(r, c, ch)
    BY <1>2, NothingListed DEF TurnInv, EndRun, RunAt
  <1>6. \A k : (Untouched(k) => Untouched(k)')
    BY DEF EndRun, remindersLogs, Untouched
  <1>7. \A c \in Bills, ch \in Channels :
           Accounted(r, c, ch) => Accounted(r, c, ch)'
    BY DEF EndRun, remindersLogs, Accounted
  <1>8. owed'[r] = owed[r] /\ h.tried \subseteq Bills
        /\ \A c \in Bills : h.reached[c] \subseteq Channels
    BY <1>2 DEF EndRun, remindersLogs, RunRecords
  <1> HIDE DEF g, h
  <1>10. TurnInv(r)'
    BY <1>2, <1>3, <1>4, <1>5, <1>6, <1>7, <1>8 DEF TurnInv, AttemptPCs
  <1> QED BY <1>3, <1>10, QuietStep DEF EndRun, g

\* The list of the daily run: all of it is owed as it is read.
LEMMA ReadListKeeps ==
  ASSUME RemindersInv, NEW r \in Runs, ReadList(r)
  PROVE  RemindersInv'
  <1> DEFINE h == run[r]
             g == [run[r] EXCEPT !.pc = "next", !.listed = FindOverdue]
  <1>1. RemindersTypeOK /\ TurnInv(r) /\ h \in RunRecords
    BY RunFields DEF RemindersInv
  <1>2. FindOverdue \subseteq Bills
    BY DEF FindOverdue
  <1>3. /\ g \in RunRecords /\ g.pc = "next" /\ g.bill = h.bill
        /\ g.tried = h.tried /\ g.listed = FindOverdue /\ g.cron = h.cron
        /\ g.reached = h.reached
    BY <1>1, <1>2 DEF RunRecords, RunPCs
  <1>4. run'[r] = g /\ run' \in [Runs -> RunRecords]
        /\ \A q \in Runs \ {r} : run'[q] = run[q]
    BY <1>1, <1>3, RunToMeans DEF ReadList
  <1>5. /\ h.tried = {} /\ h.bill = {} /\ \A c \in Bills : h.reached[c] = {}
        /\ \A c \in Bills, ch \in Channels : Untouched(<<r, c, ch>>)
    BY <1>1, NothingListed DEF TurnInv, ReadList, RunAt
  <1>6. /\ owed' \in [Runs -> SUBSET Bills] /\ owed'[r] = FindOverdue
        /\ \A q \in Runs \ {r} : owed'[q] = owed[q]
    BY <1>1 DEF ReadList, RemindersTypeOK, FindOverdue
  <1>7. /\ \A k : SameKey(k) /\ (Untouched(k) => Untouched(k)')
        /\ Growing /\ ReportedReminderWasSent'
    BY DEF ReadList, SameKey, Untouched, Growing, RemindersInv,
           ReportedReminderWasSent
  <1>8. RemindersTypeOK'
    BY <1>1, <1>4, <1>6 DEF RemindersTypeOK, ReadList
  <1> HIDE DEF g, h
  <1>9. TurnInv(r)'
    BY <1>3, <1>4, <1>5, <1>6, <1>7 DEF TurnInv, AttemptPCs
  <1> QED BY <1>4, <1>6, <1>7, <1>8, <1>9, OneRunMoves

\* The invoice a run looks up has had no turn of its own yet.
LEMMA LookUpFacts ==
  ASSUME RemindersInv, NEW r \in Runs, RunAt(r, "lookup"), NEW b \in run[r].bill
  PROVE  /\ b \in Bills /\ run[r].bill = {b} /\ b \notin run[r].tried
         /\ run[r].reached[b] = {}
         /\ \A ch \in Channels : Untouched(<<r, b, ch>>)
  BY DEF RemindersInv, TurnInv, RunAt

LEMMA LookUpKeeps ==
  ASSUME RemindersInv, NEW r \in Runs, LookUp(r)
  PROVE  RemindersInv'
  <1>1. PICK b \in run[r].bill :
           RunTo(r, NextChannel([run[r] EXCEPT !.left = contacts,
                                               !.reached[b] = contacts]))
    BY DEF LookUp
  <1> DEFINE h == run[r]
             g == [run[r] EXCEPT !.left = contacts, !.reached[b] = contacts]
  <1>2. RemindersTypeOK /\ TurnInv(r) /\ h \in RunRecords
    BY RunFields DEF RemindersInv
  <1>3. /\ b \in Bills /\ h.bill = {b} /\ b \notin h.tried
        /\ \A ch \in Channels : Untouched(<<r, b, ch>>)
    BY LookUpFacts DEF LookUp
  <1>4. contacts \subseteq Channels
    BY <1>2 DEF RemindersTypeOK, ContactSets, Channels
  <1>5. /\ g \in RunRecords /\ InTurn(g, h, b)
        /\ g.left = contacts /\ g.reached[b] = contacts
    BY <1>2, <1>3, <1>4 DEF RunRecords, InTurn
  <1>6. NextChannel(g) \in RunRecords /\ run'[r] = NextChannel(g)
    BY <1>1, <1>2, <1>5, NextChannelMeans, RunToMeans
  <1>7. /\ owed'[r] = owed[r] /\ Growing
        /\ \A k : SameKey(k) /\ (Untouched(k) => Untouched(k)')
    BY DEF LookUp, remindersLogs, Growing, SameKey, Untouched
  <1>8. /\ \A ch \in g.left : Untouched(<<r, b, ch>>)'
        /\ g.reached[b] \ g.left = {}
    BY <1>3, <1>4, <1>5, <1>7
  <1> HIDE DEF g
  <1>9. TurnInv(r)'
    BY <1>2, <1>3, <1>5, <1>6, <1>7, <1>8, NextTurn
  <1> QED BY <1>1, <1>6, <1>9, QuietStep DEF LookUp, g

LEMMA LookUpNothingKeeps ==
  ASSUME RemindersInv, NEW r \in Runs, LookUpNothing(r)
  PROVE  RemindersInv'
  <1> DEFINE h == run[r]
  <1>1. RemindersTypeOK /\ TurnInv(r) /\ h \in RunRecords
    BY RunFields DEF RemindersInv
  <1>2. PICK b \in Bills : h.bill = {b}
    BY <1>1 DEF TurnInv, LookUpNothing, RunAt
  <1>3. h.reached[b] = {} /\ InTurn(h, h, b)
    BY <1>2, LookUpFacts DEF LookUpNothing, InTurn
  <1>4. NextBill(h) \in RunRecords /\ run'[r] = NextBill(h)
    BY <1>1, NextBillMeans, RunToMeans DEF LookUpNothing
  <1>5. owed'[r] = owed[r] /\ Growing /\ \A k : SameKey(k)
    BY DEF LookUpNothing, remindersLogs, Growing, SameKey
  <1>6. TurnInv(r)'
    BY <1>1, <1>2, <1>3, <1>4, <1>5, TurnEnds
  <1> QED BY <1>4, <1>6, QuietStep DEF LookUpNothing

-----------------------------------------------------------------------------
(***************************************************************************)
(* The steps of one attempt.                                               *)
(***************************************************************************)

LEMMA AttemptFacts ==
  ASSUME RemindersInv, NEW r \in Runs, run[r].pc \in AttemptPCs
  PROVE  \E b \in Bills :
            /\ run[r].bill = {b} /\ b \notin run[r].tried
            /\ run[r].ch \notin run[r].left
            /\ \A ch \in run[r].left : Untouched(<<r, b, ch>>)
            /\ \A ch \in run[r].reached[b] \ (run[r].left \cup {run[r].ch}) :
                  Accounted(r, b, ch)
            /\ AttemptInv(run[r].pc, run[r].outcome, Key(r, b))
            /\ Key(r, b) \in Keys
  BY RunFields DEF RemindersInv, TurnInv, Key, Keys

\* A step within an attempt: the place and the outcome change, and the key's
\* rows.
LEMMA AttemptGoesOn ==
  ASSUME RemindersInv, NEW r \in Runs, run[r].pc \in AttemptPCs,
         NEW pc \in AttemptPCs, NEW outcome \in {"sent", "failed"},
         RunTo(r, [run[r] EXCEPT !.pc = pc, !.outcome = outcome]),
         UNCHANGED owed, Growing, RemindersTypeOK',
         NEW b \in Bills, run[r].bill = {b},
         NEW k \in Keys, k = Key(r, b), \A l \in Keys \ {k} : SameKey(l),
         AttemptInv(pc, outcome, k)', ReportedReminderWasSent'
  PROVE  RemindersInv'
  <1> DEFINE h == run[r]
  <1>0. PICK g : g = [run[r] EXCEPT !.pc = pc, !.outcome = outcome]
    OBVIOUS
  <1>1. RemindersTypeOK /\ TurnInv(r) /\ h \in RunRecords
    BY RunFields DEF RemindersInv
  <1>2. /\ g \in RunRecords /\ g.pc = pc /\ g.outcome = outcome
        /\ g.ch = h.ch /\ g.left = h.left /\ g.reached = h.reached
        /\ InTurn(g, h, b)
    BY <1>0, <1>1 DEF RunRecords, AttemptPCs, RunPCs, InTurn
  <1>3. run'[r] = g /\ \A q \in Runs \ {r} : run'[q] = run[q]
    BY <1>0, <1>1, <1>2, RunToMeans
  <1>4. /\ b \notin h.tried /\ h.ch \notin h.left
        /\ \A ch \in h.left : Untouched(<<r, b, ch>>)
        /\ \A ch \in h.reached[b] \ (h.left \cup {h.ch}) : Accounted(r, b, ch)
    BY AttemptFacts
  <1>5. /\ h.ch \in Channels /\ h.left \subseteq Channels
        /\ h.reached[b] \subseteq Channels /\ k = <<r, b, g.ch>>
    BY <1>1, <1>2 DEF RunRecords, Key
  <1>6. \A q \in Runs, c \in Bills, ch \in Channels :
           <<q, c, ch>> # <<r, b, h.ch>> => SameKey(<<q, c, ch>>)
    BY DEF Keys, Key
  <1> HIDE DEF h
  <1>7. \A ch \in g.left : Untouched(<<r, b, ch>>)'
    BY <1>2, <1>4, <1>5, <1>6 DEF Untouched, SameKey
  <1>8. \A ch \in g.reached[b] \ (g.left \cup {g.ch}) : Accounted(r, b, ch)'
    BY <1>2, <1>4, <1>5, <1>6 DEF Accounted, SameKey, Growing
  <1>9. AttemptInv(g.pc, g.outcome, <<r, b, g.ch>>)'
    BY <1>2, <1>5
  <1>10. /\ g.ch \notin g.left /\ InTurn(g, run[r], b) /\ b \notin run[r].tried
         /\ g.pc \in AttemptPCs /\ owed'[r] = owed[r]
         /\ \A c \in Bills \ {b}, ch \in Channels : SameKey(<<r, c, ch>>)
    BY <1>2, <1>4, <1>6 DEF h
  <1>11. TurnInv(r)'
    BY <1>1, <1>2, <1>3, <1>7, <1>8, <1>9, <1>10, TurnOf
  <1>12. \A q \in Runs \ {r} :
            /\ run'[q] = run[q] /\ owed'[q] = owed[q]
            /\ \A c \in Bills, ch \in Channels : SameKey(<<q, c, ch>>)
    BY <1>3, <1>6
  <1> QED BY <1>11, <1>12, OneRunMoves

LEMMA KeepsOutcome ==
  ASSUME NEW h \in RunRecords, NEW pc
  PROVE  /\ [h EXCEPT !.pc = pc] = [h EXCEPT !.pc = pc, !.outcome = h.outcome]
         /\ h.outcome \in {"sent", "failed"}
  BY DEF RunRecords

\* Such a step that leaves reminder alone need not look at the reports.
LEMMA UnreportedStep ==
  ASSUME RemindersInv, NEW r \in Runs, run[r].pc \in AttemptPCs,
         NEW pc \in AttemptPCs, NEW outcome \in {"sent", "failed"},
         \/ RunTo(r, [run[r] EXCEPT !.pc = pc, !.outcome = outcome])
         \/ RunTo(r, [run[r] EXCEPT !.pc = pc]) /\ outcome = run[r].outcome,
         UNCHANGED <<bill, contacts, reminder, unlogged, owed>>,
         assumed \subseteq assumed', assumed' \subseteq Keys,
         NEW b \in run[r].bill, NEW k, k = Key(r, b),
         \A l \in Keys \ {k} : SameKey(l),
         smsLog' \in [Keys -> {"none", "pending", "sent", "failed"}],
         inbox' \in [Keys -> Nat], AttemptInv(pc, outcome, k)'
  PROVE  RemindersInv'
  <1>1. RemindersTypeOK /\ run[r] \in RunRecords
    BY RunFields DEF RemindersInv
  <1>2. b \in Bills /\ run[r].bill = {b} /\ k \in Keys
    BY AttemptFacts
  <1>3. RunTo(r, [run[r] EXCEPT !.pc = pc, !.outcome = outcome])
    BY <1>1, KeepsOutcome
  <1>4. Growing
    BY DEF Growing
  <1>5. reminder'[k] = "none" /\ inbox'[k] <= 1
    BY DEF AttemptInv
  <1>6. ReportedReminderWasSent'
    BY <1>2, <1>4, <1>5, ReportKeeps DEF RemindersInv
  <1>7. [run[r] EXCEPT !.pc = pc, !.outcome = outcome] \in RunRecords
    BY <1>1 DEF RunRecords, RunPCs, AttemptPCs
  <1>8. run' \in [Runs -> RunRecords]
    BY <1>1, <1>3, <1>7, RunToMeans
  <1>9. RemindersTypeOK'
    BY <1>1, <1>8 DEF RemindersTypeOK
  <1>10. owed' = owed
    OBVIOUS
  <1> HIDE DEF RemindersInv
  <1> QED BY ONLY RemindersInv, r \in Runs, run[r].pc \in AttemptPCs,
             pc \in AttemptPCs, outcome \in {"sent", "failed"},
             k = Key(r, b), \A l \in Keys \ {k} : SameKey(l),
             AttemptInv(pc, outcome, k)',
             <1>2, <1>3, <1>4, <1>6, <1>9, <1>10, AttemptGoesOn

\* A message that arrives or does not, for an attempt that has not sent any.
LEMMA DeliverMeans ==
  ASSUME RemindersTypeOK, NEW r \in Runs, NEW b \in Bills,
         NEW arrives \in BOOLEAN, Deliver(r, b, arrives)
  PROVE  /\ inbox' \in [Keys -> Nat]
         /\ \A l \in Keys \ {Key(r, b)} : inbox'[l] = inbox[l]
         /\ Key(r, b) \in Keys =>
               inbox'[Key(r, b)] = IF arrives THEN inbox[Key(r, b)] + 1
                                   ELSE inbox[Key(r, b)]
  <1> DEFINE k == Key(r, b)
  <1>1. k \in Keys
    BY RunFields DEF Key, Keys
  <1>2. inbox[k] \in Nat /\ inbox[k] + 1 \in Nat
    BY <1>1 DEF RemindersTypeOK
  <1>3. inbox' = [inbox EXCEPT ![k] = IF arrives THEN inbox[k] + 1
                                      ELSE inbox[k]]
    BY DEF Deliver
  <1> HIDE DEF k
  <1>4. inbox \in [Keys -> Nat]
    BY DEF RemindersTypeOK
  <1>5. /\ inbox' \in [Keys -> Nat]
        /\ \A l \in Keys \ {k} : inbox'[l] = inbox[l]
        /\ inbox'[k] = IF arrives THEN inbox[k] + 1 ELSE inbox[k]
    BY <1>1, <1>2, <1>3, <1>4
  <1> QED BY <1>5 DEF k

LEMMA SendMailKeeps ==
  ASSUME RemindersInv, NEW r \in Runs, SendMail(r)
  PROVE  RemindersInv'
  <1>1. PICK b \in run[r].bill, arrives \in BOOLEAN :
           /\ Deliver(r, b, arrives)
           /\ \/ /\ arrives
                 /\ RunTo(r, [run[r] EXCEPT !.pc = "remind", !.outcome = "sent"])
              \/ RunTo(r, [run[r] EXCEPT !.pc = "remindFailed"])
    BY DEF SendMail
  <1>2. PICK k : k = Key(r, b)
    OBVIOUS
  <1>3. RemindersTypeOK /\ run[r].pc = "mail" /\ run[r].pc \in AttemptPCs
    BY DEF RemindersInv, SendMail, RunAt, AttemptPCs
  <1>4. /\ b \in Bills /\ run[r].bill = {b} /\ k \in Keys
        /\ AttemptInv("mail", run[r].outcome, k)
    BY <1>2, <1>3, AttemptFacts
  <1>5. /\ k[3] = "email" /\ inbox[k] = 0 /\ reminder[k] = "none"
        /\ run[r].outcome = "failed"
    BY <1>4 DEF AttemptInv, Untouched
  <1>6. /\ inbox' \in [Keys -> Nat] /\ \A l \in Keys \ {k} : SameKey(l)
        /\ inbox'[k] = (IF arrives THEN 1 ELSE 0)
    BY <1>1, <1>2, <1>3, <1>4, <1>5, DeliverMeans DEF SameKey, SendMail
  <1>7. /\ reminder' = reminder /\ smsLog' = smsLog /\ assumed' = assumed
        /\ UNCHANGED <<bill, contacts, reminder, unlogged, owed>>
        /\ assumed' \subseteq Keys
        /\ smsLog' \in [Keys -> {"none", "pending", "sent", "failed"}]
    BY <1>3 DEF SendMail, RemindersTypeOK
  <1>8. CASE arrives /\ RunTo(r, [run[r] EXCEPT !.pc = "remind",
                                                !.outcome = "sent"])
    <2>1. AttemptInv("remind", "sent", k)'
      BY <1>5, <1>6, <1>7, <1>8 DEF AttemptInv, Arrived
    <2> QED BY <1>2, <1>3, <1>6, <1>7, <1>8, <2>1, UnreportedStep
            DEF AttemptPCs
  <1>9. CASE RunTo(r, [run[r] EXCEPT !.pc = "remindFailed"])
    <2>1. AttemptInv("remindFailed", "failed", k)'
      BY <1>5, <1>6, <1>7 DEF AttemptInv
    <2> QED BY <1>2, <1>3, <1>5, <1>6, <1>7, <1>9, <2>1, UnreportedStep
            DEF AttemptPCs
  <1> QED BY <1>1, <1>8, <1>9

LEMMA QuietAttempt ==
  ASSUME RemindersInv, NEW r \in Runs, run[r].pc \in AttemptPCs,
         NEW pc \in AttemptPCs, RunTo(r, [run[r] EXCEPT !.pc = pc]),
         UNCHANGED <<bill, contacts, remindersLogs>>,
         \A k \in Keys : AttemptInv(run[r].pc, run[r].outcome, k)
                            /\ k[3] = run[r].ch
                            => AttemptInv(pc, run[r].outcome, k)
  PROVE  RemindersInv'
  <1>1. PICK b \in run[r].bill : b \in Bills
    BY AttemptFacts
  <1>2. PICK k, outcome : k = Key(r, b) /\ outcome = run[r].outcome
    OBVIOUS
  <1>3. k \in Keys /\ AttemptInv(run[r].pc, outcome, k) /\ k[3] = run[r].ch
    BY <1>1, <1>2, AttemptFacts DEF Key
  <1>4. AttemptInv(pc, outcome, k)
    BY <1>2, <1>3
  <1>5. AttemptInv(pc, outcome, k)'
    BY <1>4 DEF AttemptInv, Untouched, Arrived, remindersLogs
  <1>6. /\ UNCHANGED <<bill, contacts, reminder, unlogged, owed>>
        /\ \A l \in Keys \ {k} : SameKey(l)
        /\ assumed \subseteq assumed' /\ assumed' \subseteq Keys
        /\ smsLog' \in [Keys -> {"none", "pending", "sent", "failed"}]
        /\ inbox' \in [Keys -> Nat] /\ outcome \in {"sent", "failed"}
    BY <1>2, RunFields DEF remindersLogs, SameKey, RemindersInv, RemindersTypeOK
  <1> QED BY <1>1, <1>2, <1>5, <1>6, UnreportedStep

LEMMA MessageRefusedKeeps ==
  ASSUME RemindersInv, NEW r \in Runs, MessageRefused(r)
  PROVE  RemindersInv'
  <1>1. run[r].pc = "message"
    BY DEF MessageRefused, RunAt
  <1>2. \A k : AttemptInv("message", run[r].outcome, k) =>
               AttemptInv("remind", run[r].outcome, k)
    BY DEF AttemptInv
  <1> QED BY <1>1, <1>2, QuietAttempt DEF MessageRefused, AttemptPCs

LEMMA NoSuchProviderKeeps ==
  ASSUME RemindersInv, NEW r \in Runs, NoSuchProvider(r)
  PROVE  RemindersInv'
  <1>1. run[r].pc = "provider"
    BY DEF NoSuchProvider, RunAt
  <1>2. \A k : AttemptInv("provider", run[r].outcome, k) =>
               AttemptInv("remind", run[r].outcome, k)
    BY DEF AttemptInv
  <1> QED BY <1>1, <1>2, QuietAttempt DEF NoSuchProvider, AttemptPCs

LEMMA LogReminderFailsKeeps ==
  ASSUME RemindersInv, NEW r \in Runs, LogReminderFails(r)
  PROVE  RemindersInv'
  <1>1. run[r].pc = "remind"
    BY DEF LogReminderFails, RunAt
  <1>2. \A k : AttemptInv("remind", run[r].outcome, k) =>
               AttemptInv("remindFailed", run[r].outcome, k)
    BY DEF AttemptInv
  <1> QED BY <1>1, <1>2, QuietAttempt DEF LogReminderFails, AttemptPCs

LEMMA CreateSmsLogKeeps ==
  ASSUME RemindersInv, NEW r \in Runs, CreateSmsLog(r)
  PROVE  RemindersInv'
  <1>1. PICK b \in run[r].bill :
           smsLog' = [smsLog EXCEPT ![Key(r, b)] = "pending"]
    BY DEF CreateSmsLog
  <1>2. PICK k : k = Key(r, b)
    OBVIOUS
  <1>3. RemindersTypeOK /\ run[r].pc = "message" /\ run[r].pc \in AttemptPCs
    BY DEF RemindersInv, CreateSmsLog, RunAt, AttemptPCs
  <1>4. /\ b \in Bills /\ k \in Keys
        /\ AttemptInv("message", run[r].outcome, k)
    BY <1>2, <1>3, AttemptFacts
  <1>5. /\ k[3] # "email" /\ inbox[k] = 0 /\ reminder[k] = "none"
        /\ run[r].outcome = "failed"
    BY <1>4 DEF AttemptInv, Untouched
  <1>6. /\ \A l \in Keys \ {k} : SameKey(l)
        /\ smsLog' \in [Keys -> {"none", "pending", "sent", "failed"}]
    BY <1>1, <1>2, <1>3 DEF SameKey, CreateSmsLog, RemindersTypeOK
  <1>7. /\ UNCHANGED <<bill, contacts, reminder, unlogged, owed>>
        /\ assumed' = assumed /\ assumed' \subseteq Keys
        /\ inbox' = inbox /\ inbox' \in [Keys -> Nat]
        /\ RunTo(r, [run[r] EXCEPT !.pc = "provider"])
    BY <1>3 DEF CreateSmsLog, RemindersTypeOK
  <1>8. AttemptInv("provider", "failed", k)'
    BY <1>5, <1>7 DEF AttemptInv
  <1> QED BY <1>2, <1>3, <1>5, <1>6, <1>7, <1>8, UnreportedStep DEF AttemptPCs

LEMMA CallProviderKeeps ==
  ASSUME RemindersInv, NEW r \in Runs, CallProvider(r)
  PROVE  RemindersInv'
  <1>1. PICK b \in run[r].bill, answer \in {"ok", "error", "unreadable"},
             arrives \in BOOLEAN :
          /\ answer = "ok" => arrives
          /\ Deliver(r, b, arrives)
          /\ assumed' = IF answer = "unreadable" THEN assumed \cup {Key(r, b)}
                        ELSE assumed
          /\ RunTo(r, [run[r] EXCEPT !.pc = "smsLog",
                              !.outcome = IF answer = "error" THEN "failed"
                                          ELSE "sent"])
    BY DEF CallProvider
  <1>2. PICK k, outcome : /\ k = Key(r, b)
                          /\ outcome = IF answer = "error" THEN "failed"
                                       ELSE "sent"
    OBVIOUS
  <1>3. RemindersTypeOK /\ run[r].pc = "provider" /\ run[r].pc \in AttemptPCs
    BY DEF RemindersInv, CallProvider, RunAt, AttemptPCs
  <1>4. /\ b \in Bills /\ k \in Keys
        /\ AttemptInv("provider", run[r].outcome, k)
    BY <1>2, <1>3, AttemptFacts
  <1>5. k[3] # "email" /\ inbox[k] = 0 /\ reminder[k] = "none"
    BY <1>4 DEF AttemptInv
  <1>6. /\ inbox' \in [Keys -> Nat] /\ \A l \in Keys \ {k} : SameKey(l)
        /\ inbox'[k] = (IF arrives THEN 1 ELSE 0)
    BY <1>1, <1>2, <1>3, <1>4, <1>5, DeliverMeans DEF SameKey, CallProvider
  <1>7. /\ UNCHANGED <<bill, contacts, reminder, unlogged, owed>>
        /\ assumed \subseteq assumed' /\ assumed' \subseteq Keys
        /\ smsLog' \in [Keys -> {"none", "pending", "sent", "failed"}]
    BY <1>1, <1>2, <1>3, <1>4 DEF CallProvider, RemindersTypeOK
  <1>8. outcome = "sent" => arrives \/ k \in assumed'
    BY <1>1, <1>2
  <1>9. AttemptInv("smsLog", outcome, k)'
    BY <1>5, <1>6, <1>7, <1>8 DEF AttemptInv, Arrived
  <1>10. /\ RunTo(r, [run[r] EXCEPT !.pc = "smsLog", !.outcome = outcome])
         /\ outcome \in {"sent", "failed"} /\ "smsLog" \in AttemptPCs
    BY <1>1, <1>2 DEF AttemptPCs
  <1> QED BY <1>2, <1>3, <1>6, <1>7, <1>9, <1>10, UnreportedStep

LEMMA UpdateSmsLogKeeps ==
  ASSUME RemindersInv, NEW r \in Runs, UpdateSmsLog(r)
  PROVE  RemindersInv'
  <1>1. PICK b \in run[r].bill :
          \/ /\ smsLog' = [smsLog EXCEPT ![Key(r, b)] = run[r].outcome]
             /\ RunTo(r, [run[r] EXCEPT !.pc = "remind"])
          \/ /\ UNCHANGED smsLog
             /\ RunTo(r, [run[r] EXCEPT !.pc = "remind", !.outcome = "failed"])
    BY DEF UpdateSmsLog
  <1>2. PICK k, outcome : k = Key(r, b) /\ outcome = run[r].outcome
    OBVIOUS
  <1>3. /\ RemindersTypeOK /\ run[r].pc = "smsLog" /\ run[r].pc \in AttemptPCs
        /\ outcome \in {"sent", "failed"} /\ "remind" \in AttemptPCs
    BY <1>2, RunFields DEF RemindersInv, UpdateSmsLog, RunAt, AttemptPCs
  <1>4. b \in Bills /\ k \in Keys /\ AttemptInv("smsLog", outcome, k)
    BY <1>2, <1>3, AttemptFacts
  <1>5. /\ UNCHANGED <<bill, contacts, reminder, inbox, unlogged, owed>>
        /\ assumed' = assumed /\ assumed' \subseteq Keys
        /\ inbox' \in [Keys -> Nat]
        /\ smsLog \in [Keys -> {"none", "pending", "sent", "failed"}]
    BY <1>3 DEF UpdateSmsLog, RemindersTypeOK
  <1>6. CASE /\ smsLog' = [smsLog EXCEPT ![k] = outcome]
             /\ RunTo(r, [run[r] EXCEPT !.pc = "remind"])
    <2>1. /\ smsLog' \in [Keys -> {"none", "pending", "sent", "failed"}]
          /\ \A l \in Keys \ {k} : SameKey(l)
          /\ smsLog'[k] = outcome
      BY <1>3, <1>4, <1>5, <1>6 DEF SameKey
    <2>2. AttemptInv("remind", outcome, k)'
      BY <1>4, <1>5, <2>1 DEF AttemptInv, Arrived
    <2>3. RunTo(r, [run[r] EXCEPT !.pc = "remind"]) /\ outcome = run[r].outcome
      BY <1>2, <1>6
    <2>4. UNCHANGED <<bill, contacts, reminder, unlogged, owed>>
      BY <1>5
    <2> HIDE DEF RemindersInv
    <2> QED BY ONLY RemindersInv, r \in Runs, <1>2, <1>3, <1>5, <2>1,
               <2>2, <2>3, <2>4, b \in run[r].bill, UnreportedStep
  <1>7. CASE /\ UNCHANGED smsLog
             /\ RunTo(r, [run[r] EXCEPT !.pc = "remind", !.outcome = "failed"])
    <2>1. \A l \in Keys \ {k} : SameKey(l)
      BY <1>5, <1>7 DEF SameKey
    <2>2. AttemptInv("remind", "failed", k)'
      BY <1>4, <1>5, <1>7 DEF AttemptInv
    <2> QED BY <1>2, <1>3, <1>5, <1>7, <2>1, <2>2, UnreportedStep
  <1> QED BY <1>1, <1>2, <1>6, <1>7

\* The entry of an attempt is written, and the run goes on.
LEMMA EntryKeeps ==
  ASSUME RemindersInv, NEW r \in Runs, run[r].pc \in AttemptPCs,
         NEW b \in run[r].bill, NEW outcome \in {"sent", "failed"},
         reminder' = [reminder EXCEPT ![Key(r, b)] = outcome],
         RunTo(r, NextChannel(run[r])),
         UNCHANGED <<bill, contacts, smsLog, inbox, assumed, unlogged, owed>>,
         outcome = "sent" => /\ Arrived(Key(r, b))
                             /\ run[r].ch # "email" => smsLog[Key(r, b)] = "sent"
  PROVE  RemindersInv'
  <1>1. PICK k : k = Key(r, b)
    OBVIOUS
  <1> DEFINE h == run[r]
  <1>2. RemindersTypeOK /\ TurnInv(r) /\ h \in RunRecords
    BY RunFields DEF RemindersInv
  <1>3. /\ b \in Bills /\ h.bill = {b} /\ b \notin h.tried /\ h.ch \notin h.left
        /\ \A ch \in h.left : Untouched(<<r, b, ch>>)
        /\ \A ch \in h.reached[b] \ (h.left \cup {h.ch}) : Accounted(r, b, ch)
        /\ k \in Keys /\ AttemptInv(h.pc, h.outcome, k)
    BY <1>1, AttemptFacts
  <1>4. k = <<r, b, h.ch>> /\ k[3] = h.ch
    BY <1>1 DEF Key
  <1>5. /\ reminder' \in [Keys -> {"none", "sent", "failed"}]
        /\ reminder'[k] = outcome /\ \A l \in Keys \ {k} : SameKey(l)
    BY <1>1, <1>2, <1>3 DEF RemindersTypeOK, SameKey
  <1>6. NextChannel(h) \in RunRecords
    BY <1>2, NextChannelMeans
  <1>7. /\ run' \in [Runs -> RunRecords] /\ run'[r] = NextChannel(h)
        /\ \A q \in Runs \ {r} : run'[q] = run[q]
    BY <1>2, <1>6, RunToMeans
  <1>8. RemindersTypeOK' /\ Growing
    BY <1>2, <1>5, <1>7 DEF RemindersTypeOK, Growing
  <1>9. ReportedReminderWasSent'
    <2>1. inbox'[k] <= 1
      BY <1>3 DEF AttemptInv
    <2>2. reminder'[k] = "sent" =>
             /\ inbox'[k] = 1 \/ k \in assumed'
             /\ k[3] # "email" => smsLog'[k] = "sent"
      BY <1>1, <1>4, <1>5 DEF Arrived
    <2> QED BY <1>3, <1>5, <1>8, <2>1, <2>2, ReportKeeps DEF RemindersInv
  <1>10. \A q \in Runs, c \in Bills, ch \in Channels :
            <<q, c, ch>> # k => SameKey(<<q, c, ch>>)
    BY <1>5 DEF Keys
  <1>11. h.left \subseteq Channels /\ h.reached[b] \subseteq Channels
    BY <1>2, <1>3 DEF RunRecords
  <1>12. InTurn(h, h, b) /\ owed'[r] = owed[r]
    BY <1>3 DEF InTurn
  <1> HIDE DEF h
  <1>13. \A ch \in h.left : Untouched(<<r, b, ch>>)'
    BY <1>3, <1>4, <1>10, <1>11 DEF Untouched, SameKey
  <1>14. \A ch \in h.reached[b] \ h.left : Accounted(r, b, ch)'
    <2> TAKE ch \in h.reached[b] \ h.left
    <2>1. CASE ch = h.ch
      BY <2>1, <1>4, <1>5 DEF Accounted
    <2>2. CASE ch # h.ch
      BY <2>2, <1>3, <1>4, <1>8, <1>10, <1>11 DEF Accounted, SameKey, Growing
    <2> QED BY <2>1, <2>2
  <1>15. PICK g : g = h
    OBVIOUS
  <1>16. TurnInv(r)'
    <2>1. \A c \in Bills \ {b}, ch \in Channels : SameKey(<<r, c, ch>>)
      BY <1>4, <1>10
    <2> QED BY <1>2, <1>3, <1>7, <1>8, <1>12, <1>13, <1>14, <1>15, <2>1,
               NextTurn DEF h
  <1>17. \A q \in Runs \ {r} :
            /\ run'[q] = run[q] /\ owed'[q] = owed[q]
            /\ \A c \in Bills, ch \in Channels : SameKey(<<q, c, ch>>)
    BY <1>4, <1>7, <1>10
  <1> QED BY <1>8, <1>9, <1>16, <1>17, OneRunMoves

LEMMA LogReminderKeeps ==
  ASSUME RemindersInv, NEW r \in Runs, LogReminder(r)
  PROVE  RemindersInv'
  <1>1. PICK b \in run[r].bill :
           reminder' = [reminder EXCEPT ![Key(r, b)] = run[r].outcome]
    BY DEF LogReminder
  <1>2. run[r].pc = "remind" /\ run[r].pc \in AttemptPCs
    BY DEF LogReminder, RunAt, AttemptPCs
  <1>3. AttemptInv("remind", run[r].outcome, Key(r, b))
    BY <1>2, AttemptFacts
  <1>4. run[r].outcome = "sent" =>
           /\ Arrived(Key(r, b))
           /\ run[r].ch # "email" => smsLog[Key(r, b)] = "sent"
    BY <1>3 DEF AttemptInv, Key
  <1>5. PICK outcome \in {"sent", "failed"} : outcome = run[r].outcome
    BY RunFields DEF RemindersInv
  <1> QED BY <1>1, <1>2, <1>4, <1>5, EntryKeeps DEF LogReminder

LEMMA LogFailureKeeps ==
  ASSUME RemindersInv, NEW r \in Runs, LogFailure(r)
  PROVE  RemindersInv'
  BY EntryKeeps DEF LogFailure, RunAt, AttemptPCs

\* Nothing is written, but that is known.
LEMMA LogFailureFailsKeeps ==
  ASSUME RemindersInv, NEW r \in Runs, LogFailureFails(r)
  PROVE  RemindersInv'
  <1> DEFINE h == run[r]
  <1>1. RemindersTypeOK /\ TurnInv(r) /\ h \in RunRecords
    BY RunFields DEF RemindersInv
  <1>2. PICK b \in Bills : h.bill = {b}
    BY AttemptFacts DEF LogFailureFails, RunAt, AttemptPCs
  <1>3. unlogged' = unlogged \cup {<<r, b>>}
    BY <1>2 DEF LogFailureFails
  <1>4. NextBill(h) \in RunRecords
    BY <1>1, NextBillMeans
  <1>5. /\ run' \in [Runs -> RunRecords] /\ run'[r] = NextBill(h)
        /\ \A q \in Runs \ {r} : run'[q] = run[q]
    BY <1>1, <1>4, RunToMeans DEF LogFailureFails
  <1>6. /\ UNCHANGED <<bill, contacts, reminder, smsLog, inbox, assumed, owed>>
        /\ RemindersTypeOK' /\ Growing /\ \A k : SameKey(k)
    BY <1>1, <1>3, <1>5 DEF LogFailureFails, RemindersTypeOK, Growing, SameKey
  <1>7. ReportedReminderWasSent'
    BY <1>6 DEF RemindersInv, ReportedReminderWasSent
  <1>8. \A ch \in h.reached[b] : Accounted(r, b, ch)'
    BY <1>3 DEF Accounted
  <1>9. InTurn(h, h, b)
    BY <1>2 DEF InTurn
  <1>10. TurnInv(r)'
    BY <1>1, <1>2, <1>5, <1>6, <1>8, <1>9, TurnEnds
  <1> QED BY <1>5, <1>6, <1>7, <1>10, OneRunMoves

-----------------------------------------------------------------------------
(***************************************************************************)
(* Time, payments, staff and restarts.                                     *)
(***************************************************************************)

LEMMA AroundKeeps ==
  ASSUME RemindersInv, UNCHANGED <<run, remindersLogs>>,
         bill' \in [Bills -> BillStates], contacts' \in ContactSets
  PROVE  RemindersInv'
  <1>1. RemindersTypeOK' /\ ReportedReminderWasSent' /\ Growing
    BY DEF RemindersInv, RemindersTypeOK, ReportedReminderWasSent,
           remindersLogs, Growing
  <1>2. \A r \in Runs : TurnInv(r)'
    <2> TAKE r \in Runs
    <2>1. /\ run'[r] = run[r] /\ owed'[r] = owed[r]
          /\ \A b \in Bills, ch \in Channels : SameKey(<<r, b, ch>>)
      BY DEF remindersLogs, SameKey
    <2> QED BY <1>1, <2>1, OthersKeep DEF RemindersInv
  <1> QED BY <1>1, <1>2 DEF RemindersInv

LEMMA EnvironmentKeeps ==
  ASSUME RemindersInv,
         \/ \E b \in Bills : BecomeOverdue(b) \/ SettleBill(b) \/ RemoveBill(b)
         \/ ChangeContacts
  PROVE  RemindersInv'
  <1>1. bill' \in [Bills -> BillStates] /\ contacts' \in ContactSets
    BY DEF RemindersInv, RemindersTypeOK, BecomeOverdue, SettleBill,
           RemoveBill, ChangeContacts, BillStates
  <1>2. UNCHANGED <<run, remindersLogs>>
    BY DEF BecomeOverdue, SettleBill, RemoveBill, ChangeContacts
  <1> QED BY <1>1, <1>2, AroundKeeps

\* The rows of a stopped process stay, its runs do not go on.
LEMMA CrashKeeps ==
  ASSUME RemindersInv, CrashRuns
  PROVE  RemindersInv'
  <1>1. RemindersTypeOK /\ UNCHANGED <<bill, contacts, remindersLogs>>
    BY DEF RemindersInv, CrashRuns
  <1>2. Growing /\ \A k : SameKey(k)
    BY <1>1 DEF Growing, SameKey, remindersLogs
  <1>3. \A r \in Runs : /\ run'[r] \in RunRecords
                        /\ TurnInv(r)'
    <2> TAKE r \in Runs
    <2> DEFINE h == run[r]
    <2>1. h \in RunRecords /\ TurnInv(r)
      BY RunFields DEF RemindersInv
    <2>2. CASE h.pc \in {"idle", "done"}
      <3>1. run'[r] = run[r] /\ owed'[r] = owed[r]
        BY <1>1, <2>2 DEF CrashRuns, remindersLogs
      <3> QED BY <1>1, <1>2, <2>1, <3>1, OthersKeep
    <2>3. CASE h.pc \notin {"idle", "done"}
      <3>1. run'[r] = [h EXCEPT !.pc = "crashed"]
        BY <2>3 DEF CrashRuns
      <3>2. /\ run'[r] \in RunRecords /\ run'[r].pc = "crashed"
            /\ run'[r].tried = h.tried /\ run'[r].bill = h.bill
            /\ run'[r].listed = h.listed /\ run'[r].cron = h.cron
            /\ run'[r].reached = h.reached
        BY <2>1, <3>1 DEF RunRecords, RunPCs
      <3>3. /\ owed'[r] = owed[r] /\ h.tried \subseteq Bills
            /\ \A c \in Bills : h.reached[c] \subseteq Channels
        BY <1>1, <2>1 DEF remindersLogs, RunRecords
      <3>4. /\ h.tried \cup h.bill \subseteq h.listed
            /\ h.cron => h.listed \subseteq owed[r]
            /\ \A c \in Bills \ (h.tried \cup h.bill) :
                  /\ h.reached[c] = {}
                  /\ \A ch \in Channels : Untouched(<<r, c, ch>>)
            /\ \A c \in h.tried : \A ch \in h.reached[c] : Accounted(r, c, ch)
        BY <2>1 DEF TurnInv
      <3>5. \A c \in Bills, ch \in Channels :
               /\ Untouched(<<r, c, ch>>) => Untouched(<<r, c, ch>>)'
               /\ Accounted(r, c, ch) => Accounted(r, c, ch)'
        BY <1>2 DEF Growing, SameKey, Untouched, Accounted
      <3> HIDE DEF h
      <3> QED BY <3>2, <3>3, <3>4, <3>5 DEF TurnInv, AttemptPCs
    <2> QED BY <2>2, <2>3
  <1>4. run' \in [Runs -> RunRecords]
    BY <1>3 DEF CrashRuns
  <1>5. RemindersTypeOK' /\ ReportedReminderWasSent'
    BY <1>1, <1>4 DEF RemindersInv, RemindersTypeOK, ReportedReminderWasSent,
                      remindersLogs
  <1> QED BY <1>3, <1>5 DEF RemindersInv

-----------------------------------------------------------------------------
(***************************************************************************)
(* Every step, and what follows.                                           *)
(***************************************************************************)

LEMMA InitKeeps == RemindersInit => RemindersInv
  <1> SUFFICES ASSUME RemindersInit PROVE RemindersInv
    OBVIOUS
  <1>1. \A r \in Runs : run[r] = IdleRun
    BY DEF RemindersInit
  <1>2. \A k \in Keys : Untouched(k)
    BY DEF RemindersInit, Untouched
  <1>3. RemindersTypeOK
    BY IdleRunMeans DEF RemindersInit, RemindersTypeOK, BillStates
  <1>4. ReportedReminderWasSent
    BY <1>2 DEF ReportedReminderWasSent, Untouched
  <1>5. \A r \in Runs : TurnInv(r)
    <2> TAKE r \in Runs
    <2>1. run[r].pc = "idle"
      BY <1>1 DEF IdleRun
    <2>2. \A b \in Bills, ch \in Channels : Untouched(<<r, b, ch>>)
      BY <1>2 DEF Keys
    <2> QED BY <1>1, <2>1, <2>2, IdleRunMeans DEF TurnInv, AttemptPCs
  <1> QED BY <1>3, <1>4, <1>5 DEF RemindersInv

LEMMA RunStepKeeps ==
  ASSUME RemindersInv, NEW r \in Runs, RunStep(r)
  PROVE  RemindersInv'
  BY StartDailyKeeps, StartWeeklyKeeps, ReadListKeeps, PickBillKeeps,
     EndRunKeeps, LookUpKeeps, LookUpNothingKeeps, SendMailKeeps,
     MessageRefusedKeeps, CreateSmsLogKeeps, CallProviderKeeps,
     NoSuchProviderKeeps, UpdateSmsLogKeeps, LogReminderKeeps,
     LogReminderFailsKeeps, LogFailureKeeps, LogFailureFailsKeeps DEF RunStep

LEMMA NextKeeps == RemindersInv /\ [RemindersNext]_remindersVars => RemindersInv'
  <1> SUFFICES ASSUME RemindersInv, [RemindersNext]_remindersVars
               PROVE  RemindersInv'
    OBVIOUS
  <1>1. CASE \E r \in Runs : RunStep(r)
    BY <1>1, RunStepKeeps
  <1>2. CASE \E r \in Runs, b \in Bills :
                StartRequested(r, b) \/ StartUpcoming(r, b)
    BY <1>2, StartRequestedKeeps DEF StartUpcoming
  <1>3. CASE \E b \in Bills : BecomeOverdue(b) \/ SettleBill(b) \/ RemoveBill(b)
    BY <1>3, EnvironmentKeeps
  <1>4. CASE ChangeContacts
    BY <1>4, EnvironmentKeeps
  <1>5. CASE CrashRuns
    BY <1>5, CrashKeeps
  <1>6. CASE UNCHANGED remindersVars
    <2>1. /\ UNCHANGED <<run, remindersLogs>>
          /\ bill' = bill /\ contacts' = contacts
      BY <1>6 DEF remindersVars, remindersLogs
    <2> QED BY <2>1, AroundKeeps DEF RemindersInv, RemindersTypeOK
  <1> QED BY <1>1, <1>2, <1>3, <1>4, <1>5, <1>6 DEF RemindersNext

\* What a run has behind it, in every state that is reached.
THEOREM RemindersInvariance == RemindersSpec => []RemindersInv
  BY InitKeeps, NextKeeps, PTL DEF RemindersSpec

\* The tables and the runs keep their shape.
THEOREM RemindersTypes == RemindersSpec => []RemindersTypeOK
  <1>1. RemindersInv => RemindersTypeOK
    BY DEF RemindersInv
  <1> QED BY <1>1, RemindersInvariance, PTL

\* What the logs report as sent went out exactly once or was answered with
\* nothing that can be read, whatever fails and however often the process
\* stops (FeeRemindersService and SmsService).
THEOREM ReportsAreTrue == RemindersSpec => []ReportedReminderWasSent
  <1>1. RemindersInv => ReportedReminderWasSent
    BY DEF RemindersInv
  <1> QED BY <1>1, RemindersInvariance, PTL

\* The daily run reminds only of what was overdue when it read its list.
THEOREM OnlyWhatIsOwed == RemindersSpec => []RemindedWasOwed
  <1>1. RemindersInv => RemindedWasOwed
    <2> SUFFICES ASSUME RemindersInv, NEW k \in Keys, inbox[k] > 0,
                        run[k[1]].cron
                 PROVE  k[2] \in owed[k[1]]
      BY DEF RemindedWasOwed
    <2>1. PICK r \in Runs, b \in Bills, ch \in Channels : k = <<r, b, ch>>
      BY DEF Keys
    <2>2. TurnInv(r) /\ ~Untouched(<<r, b, ch>>)
      BY <2>1 DEF RemindersInv, Untouched
    <2>3. b \in run[r].listed
      BY <2>2 DEF TurnInv
    <2> QED BY <2>1, <2>2, <2>3 DEF TurnInv
  <1> QED BY <1>1, RemindersInvariance, PTL

\* A run that ends has had a turn for all it listed, and has accounted for
\* every channel.
THEOREM RunsAreComplete == RemindersSpec => []EndedRunIsComplete
  <1>1. RemindersInv => EndedRunIsComplete
    <2> SUFFICES ASSUME RemindersInv, NEW r \in Runs, RunAt(r, "done")
                 PROVE  /\ run[r].listed \subseteq run[r].tried
                        /\ \A b \in Bills : \A ch \in run[r].reached[b] :
                              Accounted(r, b, ch)
      BY DEF EndedRunIsComplete, Accounted
    <2>1. TurnInv(r) /\ run[r].pc = "done"
      BY DEF RemindersInv, RunAt
    <2>2. /\ run[r].listed \subseteq run[r].tried /\ run[r].bill = {}
          /\ \A b \in Bills \ (run[r].tried \cup run[r].bill) :
                run[r].reached[b] = {}
          /\ \A b \in run[r].tried : \A ch \in run[r].reached[b] :
                Accounted(r, b, ch)
      BY <2>1 DEF TurnInv
    <2> QED BY <2>2
  <1> QED BY <1>1, RemindersInvariance, PTL

=============================================================================
