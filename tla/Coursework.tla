----------------------------- MODULE Coursework -----------------------------
(***************************************************************************)
(* A student's submission for an assignment, the performance record kept   *)
(* beside it, and the attendance of a day.  None of the three tables has a *)
(* unique key: what is to exist once is looked for and then made, and an   *)
(* update saves the whole row that a round trip before has read, its mark  *)
(* of removal included.  A grading writes the submission and then looks    *)
(* for the performance record to bring it up to date.  Requests that move  *)
(* a row to another student or day are left out.                           *)
(***************************************************************************)
EXTENDS Integers, FiniteSets

CONSTANTS
    MaxScore,    \* bound: scores are 1..MaxScore
    MaxRecord,   \* bound: rows ever made in each table
    Places,      \* a student in a class: what a row of the day is about
    Marks,       \* present, absent and the like
    NoMark,      \* no row for the place
    Unsure,      \* requests for the place overlapped
    WorkCalls    \* requests being handled at the same time

ASSUME CourseworkAssumption ==
    /\ MaxScore \in Nat /\ MaxRecord \in Nat
    /\ Places # {} /\ Marks # {}
    /\ NoMark \notin Marks /\ Unsure \notin Marks /\ NoMark # Unsure

VARIABLES
    submission,   \* table submission, of one student and assignment
    performance,  \* table performance, of the same two
    attendance,   \* table attendance, of one day
    workCall,     \* the handlers in progress
    doubled,      \* history: tables that overlapping requests wrote
    agreed,       \* history: the score that was last brought to both tables
    register      \* history: the mark each place was last given

grades == <<submission, performance, doubled, agreed>>
day == <<attendance, register>>
courseworkVars == <<grades, day, workCall>>

RecordIds == 1..MaxRecord
NoScore == 0
Scores == 0..MaxScore

RecordStates == {"none", "live", "removed"}
Records == [state : RecordStates, score : Scores]
NoRecord == [state |-> "none", score |-> NoScore]
Items == [place : Places, mark : Marks]
Days == [state : RecordStates, item : Items]
AnyItem == CHOOSE i \in Items : TRUE
NoDay == [state |-> "none", item |-> AnyItem]

SubmissionPCs == {"submitInsert", "updateSave", "gradeSave"}
SyncPCs == {"gradeRelations", "recordCheck", "recordInsert", "recordFind",
            "recordSave"}
DayPCs == {"dayInsert", "daySave"}
WorkPCs == {"idle", "updateFind", "gradeFind", "dayCheck", "dayFind"}
           \cup SubmissionPCs \cup SyncPCs \cup DayPCs
WorkOps == {"work", "grade", "record", "day", "bulk"}

WorkHandlers ==
    [pc : WorkPCs, op : WorkOps, found : 0..MaxRecord, score : Scores,
     row : Records, item : Items, rest : SUBSET Items, alone : BOOLEAN]
IdleWork ==
    [pc |-> "idle", op |-> "work", found |-> 0, score |-> NoScore,
     row |-> NoRecord, item |-> AnyItem, rest |-> {}, alone |-> TRUE]

CourseworkTypeOK ==
    /\ submission \in [RecordIds -> Records]
    /\ performance \in [RecordIds -> Records]
    /\ attendance \in [RecordIds -> Days]
    /\ workCall \in [WorkCalls -> WorkHandlers]
    /\ doubled \in SUBSET {"submission", "performance"}
    /\ agreed \in Scores
    /\ register \in [Places -> Marks \cup {NoMark, Unsure}]

CourseworkInit ==
    /\ submission = [s \in RecordIds |-> NoRecord]
    /\ performance = [p \in RecordIds |-> NoRecord]
    /\ attendance = [a \in RecordIds |-> NoDay]
    /\ workCall = [h \in WorkCalls |-> IdleWork]
    /\ doubled = {} /\ agreed = NoScore
    /\ register = [p \in Places |-> NoMark]

-----------------------------------------------------------------------------
WorkAt(h, pc) == workCall[h].pc = pc
WorkTo(h, c) == workCall' = [workCall EXCEPT ![h] = c]
WorkEnds(h) == WorkTo(h, IdleWork)

LiveIn(table) == {r \in RecordIds : table[r].state = "live"}
DaysOf(p) == {a \in LiveIn(attendance) : attendance[a].item.place = p}

\* The serial id of a new row.
IsNextIn(table, r) ==
    /\ table[r].state = "none"
    /\ \A q \in 1..(r - 1) : table[q].state # "none"

\* Someone has written: the handlers in `holders' hold what they read before,
\* and will write on it all the same.
Outdated(holders) ==
    [q \in WorkCalls |-> IF q \in holders
                         THEN [workCall[q] EXCEPT !.alone = FALSE]
                         ELSE workCall[q]]

\* A new score also overtakes the gradings that are still to be recorded.
HoldSubmission == {q \in WorkCalls : workCall[q].pc \in SubmissionPCs}
HoldScore ==
    HoldSubmission \cup
        {q \in WorkCalls :
            workCall[q].op = "grade" /\ workCall[q].pc \in SyncPCs}
HoldRecord ==
    {q \in WorkCalls : workCall[q].pc \in {"recordInsert", "recordSave"}}

HoldPlace(p) ==
    {q \in WorkCalls :
        workCall[q].pc \in DayPCs /\ workCall[q].item.place = p}

\* Handler h has written, and ends.
Outdates(h, holders) ==
    workCall' = [Outdated(holders) EXCEPT ![h] = IdleWork]

Overlapping(h, table) ==
    doubled' = IF workCall[h].alone THEN doubled ELSE doubled \cup {table}

-----------------------------------------------------------------------------
(***************************************************************************)
(* Submissions.                                                            *)
(***************************************************************************)
StartSubmit(h, score) ==
    /\ WorkAt(h, "idle")
    /\ LiveIn(submission) = {}
    /\ WorkTo(h, [IdleWork EXCEPT !.pc = "submitInsert", !.score = score])
    /\ UNCHANGED <<grades, day>>

SubmitInsert(h) ==
    /\ WorkAt(h, "submitInsert")
    /\ \E s \in RecordIds :
          /\ IsNextIn(submission, s)
          /\ submission' = [submission EXCEPT ![s] =
                [state |-> "live", score |-> workCall[h].score]]
    /\ Outdates(h, HoldSubmission)
    /\ Overlapping(h, "submission")
    /\ UNCHANGED <<performance, agreed, day>>

\* A student hands in again, and the score stays; or staff give one.
StartUpdateSubmission(h, s, score) ==
    /\ WorkAt(h, "idle")
    /\ submission[s].state = "live"
    /\ WorkTo(h, [IdleWork EXCEPT !.pc = "updateFind", !.found = s,
                                  !.score = score])
    /\ UNCHANGED <<grades, day>>

FindSubmission(h) ==
    LET c == workCall[h] IN
    /\ c.pc \in {"updateFind", "gradeFind"}
    /\ IF submission[c.found].state # "live" THEN WorkEnds(h)
       ELSE WorkTo(h, [c EXCEPT !.row = submission[c.found],
                         !.pc = IF c.pc = "gradeFind" THEN "gradeSave"
                                ELSE "updateSave"])
    /\ UNCHANGED <<grades, day>>

UpdateSaveSubmission(h) ==
    LET c == workCall[h]
        row == IF c.score = NoScore THEN c.row
               ELSE [c.row EXCEPT !.score = c.score]
    IN
    /\ WorkAt(h, "updateSave")
    /\ submission' = [submission EXCEPT ![c.found] = row]
    /\ IF row.score = submission[c.found].score
       THEN Outdates(h, HoldSubmission) ELSE Outdates(h, HoldScore)
    /\ Overlapping(h, "submission")
    /\ agreed' = IF c.score = NoScore /\ c.alone THEN agreed ELSE NoScore
    /\ UNCHANGED <<performance, day>>

RemoveSubmission(s) ==
    /\ submission[s].state = "live"
    /\ submission' = [submission EXCEPT ![s].state = "removed"]
    /\ workCall' = Outdated(HoldScore)
    /\ agreed' = NoScore
    /\ UNCHANGED <<performance, doubled, day>>

-----------------------------------------------------------------------------
(***************************************************************************)
(* Grading, and the performance record it is brought to.                   *)
(***************************************************************************)
StartGrade(h, s, score) ==
    /\ WorkAt(h, "idle")
    /\ submission[s].state = "live"
    /\ WorkTo(h, [IdleWork EXCEPT !.pc = "gradeFind", !.op = "grade",
                                  !.found = s, !.score = score])
    /\ UNCHANGED <<grades, day>>

GradeSave(h) ==
    LET c == workCall[h] IN
    /\ WorkAt(h, "gradeSave")
    /\ submission' = [submission EXCEPT ![c.found] =
                        [c.row EXCEPT !.score = c.score]]
    /\ workCall' = [Outdated(HoldScore) EXCEPT ![h] =
                      [c EXCEPT !.pc = "gradeRelations", !.row = NoRecord]]
    /\ Overlapping(h, "submission")
    /\ agreed' = NoScore
    /\ UNCHANGED <<performance, day>>

\* The submission is read again; removed, it has no record to be brought to.
GradeRelations(h) ==
    LET c == workCall[h] IN
    /\ WorkAt(h, "gradeRelations")
    /\ IF submission[c.found].state # "live" THEN WorkEnds(h)
       ELSE WorkTo(h, [c EXCEPT !.pc = "recordCheck", !.found = 0])
    /\ UNCHANGED <<grades, day>>

\* Staff make a record of their own, or change one.
StartCreateRecord(h, score) ==
    /\ WorkAt(h, "idle")
    /\ WorkTo(h, [IdleWork EXCEPT !.pc = "recordCheck", !.op = "record",
                                  !.score = score])
    /\ UNCHANGED <<grades, day>>

StartUpdateRecord(h, p, score) ==
    /\ WorkAt(h, "idle")
    /\ performance[p].state = "live"
    /\ WorkTo(h, [IdleWork EXCEPT !.pc = "recordFind", !.op = "record",
                                  !.found = p, !.score = score])
    /\ UNCHANGED <<grades, day>>

\* MUTANT: a grading always makes a record of its own.
RecordCheckNothing(h) ==
    LET c == workCall[h] IN
    /\ WorkAt(h, "recordCheck")
    /\ IF LiveIn(performance) # {} /\ c.op = "record" THEN WorkEnds(h)
       ELSE WorkTo(h, [c EXCEPT !.pc = "recordInsert"])
    /\ UNCHANGED <<grades, day>>

\* A grading updates the record that a findOne returns; staff are refused.
RecordCheck(h) ==
    LET c == workCall[h] IN
    /\ WorkAt(h, "recordCheck")
    /\ \/ /\ LiveIn(performance) = {}
          /\ WorkTo(h, [c EXCEPT !.pc = "recordInsert"])
       \/ /\ LiveIn(performance) # {} /\ c.op = "record"
          /\ WorkEnds(h)
       \/ /\ c.op = "grade"
          /\ \E p \in LiveIn(performance) :
                WorkTo(h, [c EXCEPT !.pc = "recordFind", !.found = p])
    /\ UNCHANGED <<grades, day>>

RecordFind(h) ==
    LET c == workCall[h] IN
    /\ WorkAt(h, "recordFind")
    /\ IF performance[c.found].state # "live" THEN WorkEnds(h)
       ELSE WorkTo(h, [c EXCEPT !.pc = "recordSave",
                                !.row = performance[c.found]])
    /\ UNCHANGED <<grades, day>>

Agree(h) ==
    agreed' = IF workCall[h].op = "grade" /\ workCall[h].alone
              THEN workCall[h].score ELSE NoScore

RecordInsert(h) ==
    /\ WorkAt(h, "recordInsert")
    /\ \E p \in RecordIds :
          /\ IsNextIn(performance, p)
          /\ performance' = [performance EXCEPT ![p] =
                [state |-> "live", score |-> workCall[h].score]]
    /\ Outdates(h, HoldRecord)
    /\ Overlapping(h, "performance")
    /\ Agree(h)
    /\ UNCHANGED <<submission, day>>

\* MUTANT: the score is kept when the record has one.
RecordSaveFirst(h) ==
    LET c == workCall[h] IN
    /\ WorkAt(h, "recordSave")
    /\ performance' = [performance EXCEPT ![c.found] = c.row]
    /\ Outdates(h, HoldRecord)
    /\ Overlapping(h, "performance")
    /\ Agree(h)
    /\ UNCHANGED <<submission, day>>

RecordSave(h) ==
    LET c == workCall[h] IN
    /\ WorkAt(h, "recordSave")
    /\ performance' = [performance EXCEPT ![c.found] =
                         [c.row EXCEPT !.score = c.score]]
    /\ Outdates(h, HoldRecord)
    /\ Overlapping(h, "performance")
    /\ Agree(h)
    /\ UNCHANGED <<submission, day>>

RemoveRecord(p) ==
    /\ performance[p].state = "live"
    /\ performance' = [performance EXCEPT ![p].state = "removed"]
    /\ workCall' = Outdated(HoldRecord)
    /\ agreed' = NoScore
    /\ UNCHANGED <<submission, doubled, day>>

-----------------------------------------------------------------------------
(***************************************************************************)
(* Attendance: a row alone, or a list of them one after the other.         *)
(***************************************************************************)
StartCreateDay(h, item) ==
    /\ WorkAt(h, "idle")
    /\ WorkTo(h, [IdleWork EXCEPT !.pc = "dayCheck", !.op = "day",
                                  !.item = item])
    /\ UNCHANGED <<grades, day>>

StartUpdateDay(h, a, mark) ==
    /\ WorkAt(h, "idle")
    /\ attendance[a].state = "live"
    /\ WorkTo(h, [IdleWork EXCEPT !.pc = "dayFind", !.op = "day",
                    !.found = a,
                    !.item = [attendance[a].item EXCEPT !.mark = mark]])
    /\ UNCHANGED <<grades, day>>

\* The items come in the order of the list; a place may be in it twice.
StartBulkDays(h, items) ==
    /\ WorkAt(h, "idle")
    /\ \E first \in items :
          WorkTo(h, [IdleWork EXCEPT !.pc = "dayCheck", !.op = "bulk",
                       !.item = first, !.rest = items \ {first}])
    /\ UNCHANGED <<grades, day>>

\* What a handler is when it is through with an item.
AfterItems(c) ==
    IF c.rest = {} THEN {IdleWork}
    ELSE {[IdleWork EXCEPT !.pc = "dayCheck", !.op = "bulk", !.item = next,
                           !.rest = c.rest \ {next}] : next \in c.rest}

\* MUTANT: a student's row of the day is found in whatever class it is.
DayCheckAnyClass(h) ==
    LET c == workCall[h] IN
    /\ WorkAt(h, "dayCheck")
    /\ \/ /\ LiveIn(attendance) = {}
          /\ WorkTo(h, [c EXCEPT !.pc = "dayInsert"])
       \/ \E a \in LiveIn(attendance) :
             IF c.op = "day" THEN WorkEnds(h)
             ELSE WorkTo(h, [c EXCEPT !.pc = "dayFind", !.found = a])
    /\ UNCHANGED <<grades, day>>

\* What is there already is updated by a list and refused otherwise.
DayCheck(h) ==
    LET c == workCall[h] IN
    /\ WorkAt(h, "dayCheck")
    /\ \/ /\ DaysOf(c.item.place) = {}
          /\ WorkTo(h, [c EXCEPT !.pc = "dayInsert"])
       \/ \E a \in DaysOf(c.item.place) :
             IF c.op = "day" THEN WorkEnds(h)
             ELSE WorkTo(h, [c EXCEPT !.pc = "dayFind", !.found = a])
    /\ UNCHANGED <<grades, day>>

\* A row that is gone is passed over, and counted as updated.
DayFind(h) ==
    LET c == workCall[h] IN
    /\ WorkAt(h, "dayFind")
    /\ IF attendance[c.found].state = "live"
       THEN WorkTo(h, [c EXCEPT !.pc = "daySave"])
       ELSE \E after \in AfterItems(c) : WorkTo(h, after)
    /\ UNCHANGED <<grades, day>>

\* Who wrote for the place between another's reading and writing is undone.
DayWritten(h, after) ==
    LET c == workCall[h]  p == c.item.place IN
    /\ workCall' = [Outdated(HoldPlace(p)) EXCEPT ![h] = after]
    /\ register' = [register EXCEPT ![p] =
          IF c.alone /\ @ # Unsure THEN c.item.mark ELSE Unsure]

DayInsert(h) ==
    LET c == workCall[h] IN
    /\ WorkAt(h, "dayInsert")
    /\ \E a \in RecordIds :
          /\ IsNextIn(attendance, a)
          /\ attendance' = [attendance EXCEPT ![a] =
                              [state |-> "live", item |-> c.item]]
    /\ \E after \in AfterItems(c) : DayWritten(h, after)
    /\ UNCHANGED grades

DaySave(h) ==
    LET c == workCall[h] IN
    /\ WorkAt(h, "daySave")
    /\ attendance' = [attendance EXCEPT ![c.found] =
                        [state |-> "live", item |-> c.item]]
    /\ \E after \in AfterItems(c) : DayWritten(h, after)
    /\ UNCHANGED grades

RemoveDay(a) ==
    LET p == attendance[a].item.place IN
    /\ attendance[a].state = "live"
    /\ attendance' = [attendance EXCEPT ![a].state = "removed"]
    /\ workCall' = Outdated(HoldPlace(p))
    /\ register' = [register EXCEPT ![p] = IF @ = Unsure THEN @ ELSE NoMark]
    /\ UNCHANGED grades

\* A round trip fails or the process stops: what was written stays, and the
\* error in recording a grade is not reported.
WorkCallFails(h) ==
    /\ ~WorkAt(h, "idle")
    /\ WorkEnds(h)
    /\ UNCHANGED <<grades, day>>

CourseworkStep(h) ==
    \/ \E score \in Scores : StartSubmit(h, score)
    \/ SubmitInsert(h) \/ FindSubmission(h) \/ UpdateSaveSubmission(h)
    \/ \E s \in RecordIds, score \in Scores :
          StartUpdateSubmission(h, s, score)
    \/ \E s \in RecordIds, score \in 1..MaxScore : StartGrade(h, s, score)
    \/ GradeSave(h) \/ GradeRelations(h)
    \/ \E score \in 1..MaxScore : StartCreateRecord(h, score)
    \/ \E p \in RecordIds, score \in 1..MaxScore :
          StartUpdateRecord(h, p, score)
    \/ RecordCheck(h) \/ RecordFind(h) \/ RecordInsert(h) \/ RecordSave(h)
    \/ \E item \in Items : StartCreateDay(h, item)
    \/ \E a \in RecordIds, mark \in Marks : StartUpdateDay(h, a, mark)
    \/ \E items \in SUBSET Items : StartBulkDays(h, items)
    \/ DayCheck(h) \/ DayFind(h) \/ DayInsert(h) \/ DaySave(h)
    \/ WorkCallFails(h)

CourseworkNext ==
    \/ \E h \in WorkCalls : CourseworkStep(h)
    \/ \E r \in RecordIds :
          RemoveSubmission(r) \/ RemoveRecord(r) \/ RemoveDay(r)

CourseworkSpec == CourseworkInit /\ [][CourseworkNext]_courseworkVars

-----------------------------------------------------------------------------
(***************************************************************************)
(* Properties.                                                             *)
(***************************************************************************)

\* A student has one submission for an assignment and one performance record
\* beside it, with no key to see to it: however they are made, graded and
\* removed, only requests that overlapped on the table can make a second.
OneRecordEach ==
    /\ "submission" \notin doubled => Cardinality(LiveIn(submission)) <= 1
    /\ "performance" \notin doubled => Cardinality(LiveIn(performance)) <= 1

\* When a grading has been recorded, the submission and the performance
\* record show its score, through whatever is handed in, read and refused
\* later, until staff change or remove one of the two.  Gradings and updates
\* may overlap as long as none writes over what it has not read.
GradesAgree ==
    (agreed # NoScore /\ doubled = {})
        => /\ LiveIn(submission) # {} /\ LiveIn(performance) # {}
           /\ \A s \in LiveIn(submission) : submission[s].score = agreed
           /\ \A p \in LiveIn(performance) : performance[p].score = agreed

\* The register shows each student of each class once, with the mark given
\* last: a list is worked through item by item while others are, and only
\* requests that overlapped for the same student and class are exempt.
RegisterAsTaken ==
    \A p \in Places :
        CASE register[p] = NoMark -> DaysOf(p) = {}
          [] register[p] \in Marks ->
               \E a \in RecordIds :
                  DaysOf(p) = {a} /\ attendance[a].item.mark = register[p]
          [] OTHER -> TRUE

=============================================================================
