----------------------------- MODULE Reminders -----------------------------
(***************************************************************************)
(* Fee reminders: a daily run over the overdue invoices, and requests for  *)
(* one invoice.  A reminder goes out by e-mail, SMS and WhatsApp, one      *)
(* after the other, and each attempt leaves a row in fee_reminder_log; SMS *)
(* and WhatsApp keep a row in sms_log besides.  Every round trip may fail  *)
(* and what is caught where decides which of the rest is still attempted.  *)
(***************************************************************************)
EXTENDS Integers

CONSTANTS
    Bills,     \* the invoices of one parent's child
    MaxRun     \* bound: runs and requests of a behaviour

Runs == 1..MaxRun
Channels == {"email", "sms", "whatsapp"}

ASSUME RemindersAssumption == MaxRun \in Nat

VARIABLES
    bill,       \* table invoice: is it due, is it owed, is it there
    contacts,   \* the channels the parent can be reached by
    run,        \* the runs, by number
    reminder,   \* table fee_reminder_log, row by run, invoice and channel
    smsLog,     \* table sms_log, likewise
    inbox,      \* what reached the parent
    assumed,    \* history: messages whose answer told nothing
    unlogged,   \* history: reminders of which not even the failure was saved
    owed        \* history: what was owed and due when a run read its list

remindersVars == <<bill, contacts, run, reminder, smsLog, inbox,
                   assumed, unlogged, owed>>
remindersLogs == <<reminder, smsLog, inbox, assumed, unlogged, owed>>

BillStates == {"notDue", "overdue", "settled", "removed"}
\* A parent with no e-mail address, no mobile number, or no parent at all.
ContactSets == {{}, {"email"}, {"sms", "whatsapp"}, Channels}

RunPCs == {"idle", "read", "next", "lookup", "mail", "message", "provider",
           "smsLog", "remind", "remindFailed", "done", "crashed"}

RunRecords ==
    [pc : RunPCs, cron : BOOLEAN, listed : SUBSET Bills, tried : SUBSET Bills,
     bill : SUBSET Bills, ch : Channels, left : SUBSET Channels,
     outcome : {"sent", "failed"}, reached : [Bills -> SUBSET Channels]]

IdleRun ==
    [pc |-> "idle", cron |-> TRUE, listed |-> {}, tried |-> {}, bill |-> {},
     ch |-> "email", left |-> {}, outcome |-> "failed",
     reached |-> [b \in Bills |-> {}]]

Keys == Runs \X Bills \X Channels

RemindersTypeOK ==
    /\ bill \in [Bills -> BillStates]
    /\ contacts \in ContactSets
    /\ run \in [Runs -> RunRecords]
    /\ reminder \in [Keys -> {"none", "sent", "failed"}]
    /\ smsLog \in [Keys -> {"none", "pending", "sent", "failed"}]
    /\ inbox \in [Keys -> Nat]
    /\ assumed \in SUBSET Keys
    /\ unlogged \in SUBSET (Runs \X Bills)
    /\ owed \in [Runs -> SUBSET Bills]

RemindersInit ==
    /\ bill \in [Bills -> {"notDue", "overdue"}]
    /\ contacts \in ContactSets
    /\ run = [r \in Runs |-> IdleRun]
    /\ reminder = [k \in Keys |-> "none"]
    /\ smsLog = [k \in Keys |-> "none"]
    /\ inbox = [k \in Keys |-> 0]
    /\ assumed = {} /\ unlogged = {}
    /\ owed = [r \in Runs |-> {}]

-----------------------------------------------------------------------------
RunAt(r, pc) == run[r].pc = pc
RunTo(r, h) == run' = [run EXCEPT ![r] = h]
Key(r, b) == <<r, b, run[r].ch>>

\* MUTANT: the query looks at the due date only.
FindPastDue == {b \in Bills : bill[b] \in {"overdue", "settled"}}

\* The query of the daily run: what is past its due date, 'sent' or 'draft'.
FindOverdue == {b \in Bills : bill[b] = "overdue"}

\* An invoice's turn ends: the loop goes on, a request is over.
NextBill(h) ==
    [h EXCEPT !.pc = "next", !.tried = @ \cup h.bill, !.bill = {}, !.left = {},
              !.ch = "email", !.outcome = "failed"]

\* E-mail comes before SMS and SMS before WhatsApp.
NextChannel(h) ==
    IF h.left = {} THEN NextBill(h)
    ELSE LET ch == IF "email" \in h.left THEN "email"
                   ELSE IF "sms" \in h.left THEN "sms" ELSE "whatsapp"
         IN [h EXCEPT !.pc = IF ch = "email" THEN "mail" ELSE "message",
                      !.ch = ch, !.left = @ \ {ch}, !.outcome = "failed"]

\* Runs are numbered as they start.
IsNextRun(r) == RunAt(r, "idle") /\ \A q \in 1..(r - 1) : ~RunAt(q, "idle")

StartDaily(r) ==
    /\ IsNextRun(r)
    /\ RunTo(r, [IdleRun EXCEPT !.pc = "read"])
    /\ UNCHANGED <<bill, contacts, remindersLogs>>

\* The list of the weekly run is empty: nothing is reminded of before its date.
StartWeekly(r) ==
    /\ IsNextRun(r)
    /\ RunTo(r, [IdleRun EXCEPT !.pc = "next"])
    /\ UNCHANGED <<bill, contacts, remindersLogs>>

\* Staff ask for a reminder of one invoice, whatever its status.
StartRequested(r, b) ==
    /\ IsNextRun(r)
    /\ RunTo(r, [IdleRun EXCEPT !.pc = "next", !.cron = FALSE, !.listed = {b}])
    /\ UNCHANGED <<bill, contacts, remindersLogs>>

\* Staff ask for a reminder of what will be due: the same handler but for
\* the texts.
StartUpcoming(r, b) == StartRequested(r, b)

ReadList(r) ==
    /\ RunAt(r, "read")
    /\ RunTo(r, [run[r] EXCEPT !.pc = "next", !.listed = FindOverdue])
    /\ owed' = [owed EXCEPT ![r] = {b \in Bills : bill[b] = "overdue"}]
    /\ UNCHANGED <<bill, contacts, reminder, smsLog, inbox, assumed, unlogged>>

PickBill(r) ==
    /\ RunAt(r, "next")
    /\ \E b \in run[r].listed \ run[r].tried :
          RunTo(r, [run[r] EXCEPT !.pc = "lookup", !.bill = {b}])
    /\ UNCHANGED <<bill, contacts, remindersLogs>>

\* The list is done, or could not be read.
EndRun(r) ==
    /\ \/ RunAt(r, "next") /\ run[r].listed \subseteq run[r].tried
       \/ RunAt(r, "read")
    /\ RunTo(r, [run[r] EXCEPT !.pc = "done"])
    /\ UNCHANGED <<bill, contacts, remindersLogs>>

\* The invoice is read again, but only that it exists matters.
LookUp(r) ==
    /\ RunAt(r, "lookup")
    /\ \E b \in run[r].bill :
          /\ bill[b] # "removed"
          /\ RunTo(r, NextChannel([run[r] EXCEPT !.left = contacts,
                                                 !.reached[b] = contacts]))
    /\ UNCHANGED <<bill, contacts, remindersLogs>>

\* No invoice, no student, no parent or a failing query: on to the next one.
LookUpNothing(r) ==
    /\ RunAt(r, "lookup")
    /\ RunTo(r, NextBill(run[r]))
    /\ UNCHANGED <<bill, contacts, remindersLogs>>

-----------------------------------------------------------------------------
(***************************************************************************)
(* One attempt.                                                            *)
(***************************************************************************)

\* The message reaches the parent, or it does not.
Deliver(r, b, arrives) ==
    inbox' = [inbox EXCEPT ![Key(r, b)] = IF arrives THEN @ + 1 ELSE @]

\* sendMail may also fail after the server took the message.
SendMail(r) ==
    /\ RunAt(r, "mail")
    /\ \E b \in run[r].bill :
          \/ /\ Deliver(r, b, TRUE)
             /\ RunTo(r, [run[r] EXCEPT !.pc = "remind", !.outcome = "sent"])
          \/ /\ \E arrives \in BOOLEAN : Deliver(r, b, arrives)
             /\ RunTo(r, [run[r] EXCEPT !.pc = "remindFailed"])
    /\ UNCHANGED <<bill, contacts, reminder, smsLog, assumed, unlogged, owed>>

\* Not enabled, not configured, or the row cannot be written: not sent.
MessageRefused(r) ==
    /\ RunAt(r, "message")
    /\ RunTo(r, [run[r] EXCEPT !.pc = "remind"])
    /\ UNCHANGED <<bill, contacts, remindersLogs>>

CreateSmsLog(r) ==
    /\ RunAt(r, "message")
    /\ \E b \in run[r].bill :
          smsLog' = [smsLog EXCEPT ![Key(r, b)] = "pending"]
    /\ RunTo(r, [run[r] EXCEPT !.pc = "provider"])
    /\ UNCHANGED <<bill, contacts, reminder, inbox, assumed, unlogged, owed>>

\* An answer with an error code in it, which may be the digits of a message
\* id, and a call that fails or takes too long count as not sent; an answer
\* with neither an error code nor the code of success counts as sent.
CallProvider(r) ==
    /\ RunAt(r, "provider")
    /\ \E b \in run[r].bill, answer \in {"ok", "error", "unreadable"},
          arrives \in BOOLEAN :
          /\ answer = "ok" => arrives
          /\ Deliver(r, b, arrives)
          /\ assumed' = IF answer = "unreadable" THEN assumed \cup {Key(r, b)}
                        ELSE assumed
          /\ RunTo(r, [run[r] EXCEPT !.pc = "smsLog",
                              !.outcome = IF answer = "error" THEN "failed"
                                          ELSE "sent"])
    /\ UNCHANGED <<bill, contacts, reminder, smsLog, unlogged, owed>>

\* An SMS provider nobody wrote the call for: the row stays pending.
NoSuchProvider(r) ==
    /\ RunAt(r, "provider") /\ run[r].ch = "sms"
    /\ RunTo(r, [run[r] EXCEPT !.pc = "remind"])
    /\ UNCHANGED <<bill, contacts, remindersLogs>>

\* MUTANT: the answer stands when the row cannot be updated.
UpdateSmsLogIgnored(r) ==
    /\ RunAt(r, "smsLog")
    /\ \E b \in run[r].bill :
          smsLog' \in {smsLog,
                       [smsLog EXCEPT ![Key(r, b)] = run[r].outcome]}
    /\ RunTo(r, [run[r] EXCEPT !.pc = "remind"])
    /\ UNCHANGED <<bill, contacts, reminder, inbox, assumed, unlogged, owed>>

\* When the row cannot be updated (the text of an error is too long for
\* its column, too) the message counts as failed.
UpdateSmsLog(r) ==
    /\ RunAt(r, "smsLog")
    /\ \E b \in run[r].bill :
          \/ /\ smsLog' = [smsLog EXCEPT ![Key(r, b)] = run[r].outcome]
             /\ RunTo(r, [run[r] EXCEPT !.pc = "remind"])
          \/ /\ UNCHANGED smsLog
             /\ RunTo(r, [run[r] EXCEPT !.pc = "remind", !.outcome = "failed"])
    /\ UNCHANGED <<bill, contacts, reminder, inbox, assumed, unlogged, owed>>

LogReminder(r) ==
    /\ RunAt(r, "remind")
    /\ \E b \in run[r].bill :
          reminder' = [reminder EXCEPT ![Key(r, b)] = run[r].outcome]
    /\ RunTo(r, NextChannel(run[r]))
    /\ UNCHANGED <<bill, contacts, smsLog, inbox, assumed, unlogged, owed>>

\* A failing insert is taken for a failing message.
LogReminderFails(r) ==
    /\ RunAt(r, "remind")
    /\ RunTo(r, [run[r] EXCEPT !.pc = "remindFailed"])
    /\ UNCHANGED <<bill, contacts, remindersLogs>>

LogFailure(r) ==
    /\ RunAt(r, "remindFailed")
    /\ \E b \in run[r].bill :
          reminder' = [reminder EXCEPT ![Key(r, b)] = "failed"]
    /\ RunTo(r, NextChannel(run[r]))
    /\ UNCHANGED <<bill, contacts, smsLog, inbox, assumed, unlogged, owed>>

\* MUTANT: the error reaches the loop over the invoices.
LogFailureFailsTheRun(r) ==
    /\ RunAt(r, "remindFailed")
    /\ unlogged' = unlogged \cup {<<r, b>> : b \in run[r].bill}
    /\ RunTo(r, [NextBill(run[r]) EXCEPT !.pc = "done"])
    /\ UNCHANGED <<bill, contacts, reminder, smsLog, inbox, assumed, owed>>

\* This error leaves the channel: the invoice's other channels are skipped.
LogFailureFails(r) ==
    /\ RunAt(r, "remindFailed")
    /\ unlogged' = unlogged \cup {<<r, b>> : b \in run[r].bill}
    /\ RunTo(r, NextBill(run[r]))
    /\ UNCHANGED <<bill, contacts, reminder, smsLog, inbox, assumed, owed>>

-----------------------------------------------------------------------------
(***************************************************************************)
(* Time, payments, staff and restarts.                                     *)
(***************************************************************************)
BecomeOverdue(b) ==
    /\ bill[b] = "notDue"
    /\ bill' = [bill EXCEPT ![b] = "overdue"]
    /\ UNCHANGED <<contacts, run, remindersLogs>>

SettleBill(b) ==
    /\ bill[b] \in {"notDue", "overdue"}
    /\ bill' = [bill EXCEPT ![b] = "settled"]
    /\ UNCHANGED <<contacts, run, remindersLogs>>

RemoveBill(b) ==
    /\ bill[b] # "removed"
    /\ bill' = [bill EXCEPT ![b] = "removed"]
    /\ UNCHANGED <<contacts, run, remindersLogs>>

ChangeContacts ==
    /\ contacts' \in ContactSets
    /\ UNCHANGED <<bill, run, remindersLogs>>

CrashRuns ==
    /\ run' = [r \in Runs |->
                 IF run[r].pc \in {"idle", "done"} THEN run[r]
                 ELSE [run[r] EXCEPT !.pc = "crashed"]]
    /\ UNCHANGED <<bill, contacts, remindersLogs>>

RunStep(r) ==
    \/ StartDaily(r) \/ StartWeekly(r) \/ ReadList(r) \/ PickBill(r)
    \/ EndRun(r) \/ LookUp(r) \/ LookUpNothing(r)
    \/ SendMail(r) \/ MessageRefused(r) \/ CreateSmsLog(r)
    \/ CallProvider(r) \/ NoSuchProvider(r) \/ UpdateSmsLog(r)
    \/ LogReminder(r) \/ LogReminderFails(r) \/ LogFailure(r)
    \/ LogFailureFails(r)

RemindersNext ==
    \/ \E r \in Runs : RunStep(r)
    \/ \E r \in Runs, b \in Bills : StartRequested(r, b) \/ StartUpcoming(r, b)
    \/ \E b \in Bills : BecomeOverdue(b) \/ SettleBill(b) \/ RemoveBill(b)
    \/ ChangeContacts \/ CrashRuns

RemindersSpec == RemindersInit /\ [][RemindersNext]_remindersVars

-----------------------------------------------------------------------------
(***************************************************************************)
(* Properties.                                                             *)
(***************************************************************************)

\* A reminder that fee_reminder_log reports as sent reached the parent, once,
\* unless the provider's answer told nothing; and sms_log says the same of
\* it, although its row is written by another service before.
ReportedReminderWasSent ==
    \A k \in Keys :
        /\ inbox[k] <= 1
        /\ reminder[k] = "sent" =>
              /\ inbox[k] = 1 \/ k \in assumed
              /\ k[3] # "email" => smsLog[k] = "sent"

\* What the daily run reminds of was owed and overdue when it read its list;
\* only what is paid while it runs can be reminded of in vain.
RemindedWasOwed ==
    \A k \in Keys : inbox[k] > 0 /\ run[k[1]].cron => k[2] \in owed[k[1]]

\* Whatever fails for one invoice or channel, a run that ends has had a turn
\* for every invoice on its list, and has an entry for every channel of it
\* unless a failure could not be written down.
EndedRunIsComplete ==
    \A r \in Runs : RunAt(r, "done") =>
        /\ run[r].listed \subseteq run[r].tried
        /\ \A b \in Bills : \A ch \in run[r].reached[b] :
              reminder[<<r, b, ch>>] # "none" \/ <<r, b>> \in unlogged

=============================================================================
