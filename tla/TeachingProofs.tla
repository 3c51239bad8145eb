--------------------------- MODULE TeachingProofs ---------------------------
(***************************************************************************)
(* What Coursework guarantees of submissions, performance records and the  *)
(* register, and Zoom of a teacher's connection and meetings, for any      *)
(* number of requests and rows.  No table has a key, and a row is written  *)
(* from what an earlier round trip has read: behind the properties of both *)
(* is what a handler has read and still holds when it writes, unless       *)
(* someone wrote meanwhile (WorkInv, CredInv, JoinInv).                    *)
(***************************************************************************)
EXTENDS Coursework, Zoom, TLAPS, FiniteSetTheorems

FoundPCs == {"updateFind", "gradeFind", "updateSave", "gradeSave",
             "gradeRelations", "recordFind", "recordSave", "dayFind",
             "daySave"}

\* The rows a handler found are rows of its table, and of its place.
FoundInv(c) ==
    /\ c.pc \in FoundPCs => c.found \in RecordIds
    /\ c.pc \in {"dayFind", "daySave"} =>
          /\ attendance[c.found].state # "none"
          /\ attendance[c.found].item.place = c.item.place

Shown(score) ==
    /\ LiveIn(submission) # {}
    /\ \A s \in LiveIn(submission) : submission[s].score = score

\* What a handler that nobody overtook has read of the submissions; and a
\* grading still to be recorded is the submission's.
HeldGrade(c) ==
    /\ c.pc = "submitInsert" => LiveIn(submission) = {}
    /\ c.pc \in {"updateSave", "gradeSave"} =>
          c.row = submission[c.found] /\ c.row.state = "live"
    /\ c.op = "grade" /\ c.pc \in SyncPCs /\ "submission" \notin doubled =>
          Shown(c.score)

\* What it has read of the performance records ...
HeldRecord(c) ==
    /\ c.pc = "recordInsert" => LiveIn(performance) = {}
    /\ c.pc = "recordSave" =>
          c.row = performance[c.found] /\ c.row.state = "live"

\* ... and of the day.
HeldDay(c) ==
    /\ c.pc = "dayInsert" => DaysOf(c.item.place) = {}
    /\ c.pc = "daySave" => attendance[c.found].state = "live"

WorkInv(c) ==
    /\ FoundInv(c)
    /\ c.alone => HeldGrade(c) /\ HeldRecord(c) /\ HeldDay(c)

One(table) == \A r, s \in LiveIn(table) : r = s

OneOfEach ==
    /\ "submission" \notin doubled => One(submission)
    /\ "performance" \notin doubled => One(performance)

CourseworkInv ==
    /\ CourseworkTypeOK
    /\ OneOfEach
    /\ GradesAgree
    /\ RegisterAsTaken
    /\ \A h \in WorkCalls : WorkInv(workCall[h])

-----------------------------------------------------------------------------
(***************************************************************************)
(* Handlers.                                                               *)
(***************************************************************************)
LEMMA IdleWorkMeans ==
  /\ IdleWork \in WorkHandlers /\ AnyItem \in Items
  /\ IdleWork.pc = "idle" /\ IdleWork.op = "work" /\ IdleWork.found = 0
  /\ IdleWork.rest = {} /\ IdleWork.alone
  <1>1. Items # {}
    <2>1. PICK p \in Places, m \in Marks : TRUE
      BY CourseworkAssumption
    <2>2. [place |-> p, mark |-> m] \in Items
      BY DEF Items
    <2> QED BY <2>2
  <1>2. AnyItem \in Items
    BY <1>1 DEF AnyItem
  <1>3. NoRecord \in Records /\ 0 \in 0..MaxRecord /\ NoScore \in Scores
    BY CourseworkAssumption
       DEF NoRecord, Records, RecordStates, Scores, NoScore
  <1> QED BY <1>2, <1>3 DEF IdleWork, WorkHandlers, WorkPCs, WorkOps

LEMMA WorkFields ==
  ASSUME CourseworkInv, NEW h \in WorkCalls, NEW c, c = workCall[h]
  PROVE  /\ c \in WorkHandlers /\ WorkInv(c)
         /\ c.pc \in WorkPCs /\ c.op \in WorkOps /\ c.found \in 0..MaxRecord
         /\ c.score \in Scores /\ c.row \in Records /\ c.item \in Items
         /\ c.rest \subseteq Items /\ c.alone \in BOOLEAN
  BY DEF CourseworkInv, CourseworkTypeOK, WorkHandlers

LEMMA WorkToMeans ==
  ASSUME CourseworkInv, NEW h \in WorkCalls, NEW c \in WorkHandlers,
         WorkTo(h, c)
  PROVE  /\ workCall' \in [WorkCalls -> WorkHandlers]
         /\ workCall'[h] = c
         /\ \A q \in WorkCalls \ {h} : workCall'[q] = workCall[q]
  BY DEF CourseworkInv, CourseworkTypeOK, WorkTo

\* A handler that does nothing special needs to know nothing.
LEMMA NothingHeld ==
  ASSUME NEW c, c.pc \in {"idle", "dayCheck"}
  PROVE  WorkInv(c) /\ WorkInv(c)'
  BY DEF WorkInv, FoundInv, HeldGrade, HeldRecord, HeldDay, FoundPCs, SyncPCs

\* A step of one handler that writes to no table.
LEMMA WorkQuiet ==
  ASSUME CourseworkInv, NEW h \in WorkCalls, NEW c \in WorkHandlers,
         WorkTo(h, c), UNCHANGED <<grades, day>>, WorkInv(c)
  PROVE  CourseworkInv'
  <1>1. /\ workCall' \in [WorkCalls -> WorkHandlers]
        /\ workCall'[h] = c
        /\ \A q \in WorkCalls \ {h} : workCall'[q] = workCall[q]
    BY WorkToMeans
  <1>2. UNCHANGED <<submission, performance, doubled, agreed, attendance,
                    register>>
    BY DEF grades, day
  <1>3. CourseworkTypeOK'
    BY <1>1, <1>2 DEF CourseworkInv, CourseworkTypeOK
  <1>4. OneOfEach' /\ GradesAgree'
    BY <1>2 DEF CourseworkInv, OneOfEach, One, GradesAgree, LiveIn
  <1>5. RegisterAsTaken'
    BY <1>2 DEF CourseworkInv, RegisterAsTaken, DaysOf, LiveIn
  <1>6. ASSUME NEW d, WorkInv(d) PROVE WorkInv(d)'
    BY <1>2, <1>6
       DEF WorkInv, FoundInv, HeldGrade, HeldRecord, HeldDay, Shown, DaysOf,
           LiveIn
  <1>7. ASSUME NEW q \in WorkCalls PROVE WorkInv(workCall[q])'
    <2>1. PICK d : d = workCall'[q]
      OBVIOUS
    <2>2. WorkInv(d)
      BY <1>1, <2>1 DEF CourseworkInv
    <2>3. WorkInv(d)'
      BY <1>6, <2>2
    <2> QED BY <2>1, <2>3
            DEF WorkInv, FoundInv, HeldGrade, HeldRecord, HeldDay
  <1> QED BY <1>3, <1>4, <1>5, <1>7 DEF CourseworkInv

LEMMA WorkEndsKeeps ==
  ASSUME CourseworkInv, NEW h \in WorkCalls, WorkEnds(h),
         UNCHANGED <<grades, day>>
  PROVE  CourseworkInv'
  BY IdleWorkMeans, NothingHeld, WorkQuiet DEF WorkEnds

-----------------------------------------------------------------------------
(***************************************************************************)
(* The steps that write nothing.                                           *)
(***************************************************************************)

\* A request that is taken up.
LEMMA WorkStarts ==
  ASSUME CourseworkInv, NEW h \in WorkCalls, NEW c \in WorkHandlers,
         WorkTo(h, c), UNCHANGED <<grades, day>>,
         c.pc \in {"submitInsert", "updateFind", "gradeFind", "recordCheck",
                   "recordFind", "dayCheck", "dayFind"},
         c.pc = "submitInsert" => LiveIn(submission) = {},
         c.pc \in FoundPCs => c.found \in RecordIds,
         c.pc = "dayFind" => /\ attendance[c.found].state # "none"
                             /\ attendance[c.found].item.place = c.item.place,
         c.pc \in {"recordFind", "recordCheck"} => c.op # "grade"
  PROVE  CourseworkInv'
  <1>1. WorkInv(c)
    BY DEF WorkInv, FoundInv, HeldGrade, HeldRecord, HeldDay, SyncPCs
  <1> QED BY <1>1, WorkQuiet

\* Whichever request it is.
LEMMA StartsKeep ==
  ASSUME CourseworkInv, NEW h \in WorkCalls,
         \/ \E score \in Scores : StartSubmit(h, score)
         \/ \E s \in RecordIds, score \in Scores :
               StartUpdateSubmission(h, s, score)
         \/ \E s \in RecordIds, score \in 1..MaxScore : StartGrade(h, s, score)
         \/ \E score \in 1..MaxScore : StartCreateRecord(h, score)
         \/ \E p \in RecordIds, score \in 1..MaxScore :
               StartUpdateRecord(h, p, score)
         \/ \E item \in Items : StartCreateDay(h, item)
         \/ \E a \in RecordIds, mark \in Marks : StartUpdateDay(h, a, mark)
         \/ \E items \in SUBSET Items : StartBulkDays(h, items)
  PROVE  CourseworkInv'
  <1>0. /\ \A r \in RecordIds : r \in 0..MaxRecord
        /\ \A score \in 1..MaxScore : score \in Scores
    BY CourseworkAssumption DEF RecordIds, Scores
  <1>1. ASSUME NEW score \in Scores, StartSubmit(h, score)
        PROVE  CourseworkInv'
    <2>1. PICK c : c = [IdleWork EXCEPT !.pc = "submitInsert", !.score = score]
      OBVIOUS
    <2>2. /\ WorkTo(h, c) /\ UNCHANGED <<grades, day>>
          /\ LiveIn(submission) = {}
      BY <1>1, <2>1 DEF StartSubmit
    <2>3. /\ c \in WorkHandlers
          /\ c.pc = "submitInsert"
      BY <1>0, <2>1, IdleWorkMeans
         DEF WorkHandlers, WorkPCs, WorkOps, SubmissionPCs, SyncPCs
    <2> QED BY <2>2, <2>3, WorkStarts DEF FoundPCs
  <1>2. ASSUME NEW s \in RecordIds, NEW score \in Scores,
               StartUpdateSubmission(h, s, score)
        PROVE  CourseworkInv'
    <2>1. PICK c : c = [IdleWork EXCEPT !.pc = "updateFind", !.found = s,
                                         !.score = score]
      OBVIOUS
    <2>2. /\ WorkTo(h, c) /\ UNCHANGED <<grades, day>>
      BY <1>2, <2>1 DEF StartUpdateSubmission
    <2>3. /\ c \in WorkHandlers
          /\ c.pc = "updateFind" /\ c.found = s
      BY <1>0, <2>1, IdleWorkMeans
         DEF WorkHandlers, WorkPCs, WorkOps, SubmissionPCs, SyncPCs
    <2> QED BY <2>2, <2>3, WorkStarts DEF FoundPCs
  <1>3. ASSUME NEW s \in RecordIds, NEW score \in 1..MaxScore,
               StartGrade(h, s, score)
        PROVE  CourseworkInv'
    <2>1. PICK c : c = [IdleWork EXCEPT !.pc = "gradeFind", !.op = "grade",
                                         !.found = s, !.score = score]
      OBVIOUS
    <2>2. /\ WorkTo(h, c) /\ UNCHANGED <<grades, day>>
      BY <1>3, <2>1 DEF StartGrade
    <2>3. /\ c \in WorkHandlers
          /\ c.pc = "gradeFind" /\ c.found = s
      BY <1>0, <2>1, IdleWorkMeans
         DEF WorkHandlers, WorkPCs, WorkOps, SubmissionPCs, SyncPCs
    <2> QED BY <2>2, <2>3, WorkStarts DEF FoundPCs
  <1>4. ASSUME NEW score \in 1..MaxScore, StartCreateRecord(h, score)
        PROVE  CourseworkInv'
    <2>1. PICK c : c = [IdleWork EXCEPT !.pc = "recordCheck", !.op = "record",
                                         !.score = score]
      OBVIOUS
    <2>2. /\ WorkTo(h, c) /\ UNCHANGED <<grades, day>>
      BY <1>4, <2>1 DEF StartCreateRecord
    <2>3. /\ c \in WorkHandlers
          /\ c.pc = "recordCheck" /\ c.op = "record"
      BY <1>0, <2>1, IdleWorkMeans
         DEF WorkHandlers, WorkPCs, WorkOps, SubmissionPCs, SyncPCs
    <2> QED BY <2>2, <2>3, WorkStarts DEF FoundPCs
  <1>5. ASSUME NEW p \in RecordIds, NEW score \in 1..MaxScore,
               StartUpdateRecord(h, p, score)
        PROVE  CourseworkInv'
    <2>1. PICK c : c = [IdleWork EXCEPT !.pc = "recordFind", !.op = "record",
                                         !.found = p, !.score = score]
      OBVIOUS
    <2>2. /\ WorkTo(h, c) /\ UNCHANGED <<grades, day>>
      BY <1>5, <2>1 DEF StartUpdateRecord
    <2>3. /\ c \in WorkHandlers
          /\ c.pc = "recordFind" /\ c.op = "record" /\ c.found = p
      BY <1>0, <2>1, IdleWorkMeans
         DEF WorkHandlers, WorkPCs, WorkOps, SubmissionPCs, SyncPCs
    <2> QED BY <2>2, <2>3, WorkStarts DEF FoundPCs
  <1>6. ASSUME NEW item \in Items, StartCreateDay(h, item)
        PROVE  CourseworkInv'
    <2>1. PICK c : c = [IdleWork EXCEPT !.pc = "dayCheck", !.op = "day",
                                         !.item = item]
      OBVIOUS
    <2>2. /\ WorkTo(h, c) /\ UNCHANGED <<grades, day>>
      BY <1>6, <2>1 DEF StartCreateDay
    <2>3. /\ c \in WorkHandlers
          /\ c.pc = "dayCheck"
      BY <1>0, <2>1, IdleWorkMeans
         DEF WorkHandlers, WorkPCs, WorkOps, SubmissionPCs, SyncPCs
    <2> QED BY <2>2, <2>3, WorkStarts DEF FoundPCs
  <1>7. ASSUME NEW a \in RecordIds, NEW mark \in Marks,
               StartUpdateDay(h, a, mark)
        PROVE  CourseworkInv'
    <2>0. PICK i : i = [attendance[a].item EXCEPT !.mark = mark]
      OBVIOUS
    <2>4. i \in Items /\ attendance[a].item.place = i.place
      <3>1. attendance[a].item \in Items
        BY DEF CourseworkInv, CourseworkTypeOK, Days
      <3> QED BY <2>0, <3>1 DEF Items
    <2>1. PICK c : c = [IdleWork EXCEPT !.pc = "dayFind", !.op = "day",
                                         !.found = a, !.item = i]
      OBVIOUS
    <2>2. /\ WorkTo(h, c) /\ UNCHANGED <<grades, day>>
          /\ attendance[a].state = "live"
      BY <1>7, <2>0, <2>1 DEF StartUpdateDay
    <2>3. /\ c \in WorkHandlers
          /\ c.pc = "dayFind" /\ c.found = a /\ c.item = i
      BY <1>0, <2>1, <2>4, IdleWorkMeans DEF WorkHandlers, WorkPCs, WorkOps
    <2> QED BY <2>2, <2>3, <2>4, WorkStarts
  <1>8. ASSUME NEW items \in SUBSET Items, StartBulkDays(h, items)
        PROVE  CourseworkInv'
    <2>0. PICK first \in items :
             WorkTo(h, [IdleWork EXCEPT !.pc = "dayCheck", !.op = "bulk",
                          !.item = first, !.rest = items \ {first}])
      BY <1>8 DEF StartBulkDays
    <2>1. PICK c : c = [IdleWork EXCEPT !.pc = "dayCheck", !.op = "bulk",
                          !.item = first, !.rest = items \ {first}]
      OBVIOUS
    <2>2. /\ WorkTo(h, c) /\ UNCHANGED <<grades, day>>
      BY <1>8, <2>0, <2>1 DEF StartBulkDays
    <2>3. /\ c \in WorkHandlers
          /\ c.pc = "dayCheck"
      BY <2>1, IdleWorkMeans DEF WorkHandlers, WorkPCs, WorkOps
    <2> QED BY <2>2, <2>3, WorkStarts DEF FoundPCs
  <1> QED BY <1>1, <1>2, <1>3, <1>4, <1>5, <1>6, <1>7, <1>8

\* A row that is read, or a grading that goes on to its record.
LEMMA FindSubmissionKeeps ==
  ASSUME CourseworkInv, NEW h \in WorkCalls, FindSubmission(h)
  PROVE  CourseworkInv'
  <1>1. PICK c : c = workCall[h]
    OBVIOUS
  <1>2. /\ c \in WorkHandlers /\ WorkInv(c) /\ c.pc \in {"updateFind", "gradeFind"}
        /\ UNCHANGED <<grades, day>>
    BY <1>1, WorkFields DEF FindSubmission
  <1>3. CASE WorkEnds(h)
    BY <1>2, <1>3, WorkEndsKeeps
  <1>4. CASE submission[c.found].state = "live"
    <2>1. PICK pc : pc = IF c.pc = "gradeFind" THEN "gradeSave" ELSE "updateSave"
      OBVIOUS
    <2>2. PICK d : d = [c EXCEPT !.row = submission[c.found], !.pc = pc]
      OBVIOUS
    <2>3. c.found \in RecordIds /\ submission[c.found] \in Records
      BY <1>2 DEF WorkInv, FoundInv, FoundPCs, CourseworkInv, CourseworkTypeOK
    <2>4. /\ d \in WorkHandlers /\ d.pc \in {"gradeSave", "updateSave"}
          /\ d.row = submission[c.found] /\ d.found = c.found
      BY <1>2, <2>1, <2>2, <2>3 DEF WorkHandlers, WorkPCs, SubmissionPCs
    <2>5. WorkInv(d)
      BY <1>4, <2>3, <2>4
         DEF WorkInv, FoundInv, HeldGrade, HeldRecord, HeldDay, SyncPCs
    <2>6. WorkTo(h, d)
      BY <1>1, <1>4, <2>1, <2>2 DEF FindSubmission
    <2> QED BY <1>2, <2>4, <2>5, <2>6, WorkQuiet
  <1> QED BY <1>1, <1>3, <1>4 DEF FindSubmission

LEMMA GradeRelationsKeeps ==
  ASSUME CourseworkInv, NEW h \in WorkCalls, GradeRelations(h)
  PROVE  CourseworkInv'
  <1>1. PICK c : c = workCall[h]
    OBVIOUS
  <1>2. /\ c \in WorkHandlers /\ WorkInv(c) /\ c.pc = "gradeRelations"
        /\ UNCHANGED <<grades, day>>
    BY <1>1, WorkFields DEF GradeRelations, WorkAt
  <1>3. CASE WorkEnds(h)
    BY <1>2, <1>3, WorkEndsKeeps
  <1>4. CASE WorkTo(h, [c EXCEPT !.pc = "recordCheck", !.found = 0])
    <2>1. PICK d : d = [c EXCEPT !.pc = "recordCheck", !.found = 0]
      OBVIOUS
    <2>0. 0 \in 0..MaxRecord
      BY CourseworkAssumption
    <2>2. /\ d \in WorkHandlers /\ d.pc = "recordCheck" /\ d.op = c.op
          /\ d.score = c.score /\ d.alone = c.alone
      BY <1>2, <2>0, <2>1 DEF WorkHandlers, WorkPCs, SyncPCs
    <2>3. WorkInv(d)
      BY <1>2, <2>2 DEF WorkInv, FoundInv, HeldGrade, HeldRecord, HeldDay,
                        SyncPCs, FoundPCs
    <2> QED BY <1>2, <1>4, <2>1, <2>2, <2>3, WorkQuiet
  <1> QED BY <1>1, <1>3, <1>4 DEF GradeRelations

LEMMA RecordCheckKeeps ==
  ASSUME CourseworkInv, NEW h \in WorkCalls, RecordCheck(h)
  PROVE  CourseworkInv'
  <1>1. PICK c : c = workCall[h]
    OBVIOUS
  <1>2. /\ c \in WorkHandlers /\ WorkInv(c) /\ c.pc = "recordCheck"
        /\ UNCHANGED <<grades, day>>
    BY <1>1, WorkFields DEF RecordCheck, WorkAt
  <1>3. CASE WorkEnds(h)
    BY <1>2, <1>3, WorkEndsKeeps
  <1>4. CASE /\ LiveIn(performance) = {}
             /\ WorkTo(h, [c EXCEPT !.pc = "recordInsert"])
    <2>1. PICK d : d = [c EXCEPT !.pc = "recordInsert"]
      OBVIOUS
    <2>2. /\ d \in WorkHandlers /\ d.pc = "recordInsert" /\ d.op = c.op
          /\ d.score = c.score /\ d.alone = c.alone
      BY <1>2, <2>1 DEF WorkHandlers, WorkPCs, SyncPCs
    <2>3. WorkInv(d)
      BY <1>2, <1>4, <2>2 DEF WorkInv, FoundInv, HeldGrade, HeldRecord,
                              HeldDay, SyncPCs, FoundPCs
    <2> QED BY <1>2, <1>4, <2>1, <2>2, <2>3, WorkQuiet
  <1>5. ASSUME NEW p \in LiveIn(performance),
               WorkTo(h, [c EXCEPT !.pc = "recordFind", !.found = p])
        PROVE  CourseworkInv'
    <2>1. PICK d : d = [c EXCEPT !.pc = "recordFind", !.found = p]
      OBVIOUS
    <2>2. p \in RecordIds /\ p \in 0..MaxRecord
      BY CourseworkAssumption DEF LiveIn, RecordIds
    <2>3. /\ d \in WorkHandlers /\ d.pc = "recordFind" /\ d.op = c.op
          /\ d.score = c.score /\ d.alone = c.alone /\ d.found = p
      BY <1>2, <2>1, <2>2 DEF WorkHandlers, WorkPCs, SyncPCs
    <2>4. WorkInv(d)
      BY <1>2, <2>2, <2>3 DEF WorkInv, FoundInv, HeldGrade, HeldRecord,
                              HeldDay, SyncPCs, FoundPCs
    <2> QED BY <1>2, <1>5, <2>1, <2>3, <2>4, WorkQuiet
  <1> QED BY <1>1, <1>3, <1>4, <1>5 DEF RecordCheck

LEMMA RecordFindKeeps ==
  ASSUME CourseworkInv, NEW h \in WorkCalls, RecordFind(h)
  PROVE  CourseworkInv'
  <1>1. PICK c : c = workCall[h]
    OBVIOUS
  <1>2. /\ c \in WorkHandlers /\ WorkInv(c) /\ c.pc = "recordFind"
        /\ UNCHANGED <<grades, day>>
    BY <1>1, WorkFields DEF RecordFind, WorkAt
  <1>3. CASE WorkEnds(h)
    BY <1>2, <1>3, WorkEndsKeeps
  <1>4. CASE performance[c.found].state = "live"
    <2>1. PICK d : d = [c EXCEPT !.pc = "recordSave",
                                 !.row = performance[c.found]]
      OBVIOUS
    <2>2. c.found \in RecordIds /\ performance[c.found] \in Records
      BY <1>2 DEF WorkInv, FoundInv, FoundPCs, CourseworkInv, CourseworkTypeOK
    <2>3. /\ d \in WorkHandlers /\ d.pc = "recordSave" /\ d.op = c.op
          /\ d.score = c.score /\ d.alone = c.alone /\ d.found = c.found
          /\ d.row = performance[c.found]
      BY <1>2, <2>1, <2>2 DEF WorkHandlers, WorkPCs, SyncPCs
    <2>4. WorkInv(d)
      BY <1>2, <1>4, <2>2, <2>3 DEF WorkInv, FoundInv, HeldGrade, HeldRecord,
                                    HeldDay, SyncPCs, FoundPCs
    <2>5. WorkTo(h, d)
      BY <1>1, <1>4, <2>1 DEF RecordFind
    <2> QED BY <1>2, <2>3, <2>4, <2>5, WorkQuiet
  <1> QED BY <1>1, <1>3, <1>4 DEF RecordFind

\* What a handler of days is next has read nothing.
LEMMA AfterItemsMeans ==
  ASSUME NEW c \in WorkHandlers, NEW d \in AfterItems(c)
  PROVE  d \in WorkHandlers /\ d.pc \in {"idle", "dayCheck"}
  <1>1. CASE c.rest = {}
    BY <1>1, IdleWorkMeans DEF AfterItems
  <1>2. CASE c.rest # {}
    <2>1. PICK next \in c.rest :
             d = [IdleWork EXCEPT !.pc = "dayCheck", !.op = "bulk",
                                  !.item = next, !.rest = c.rest \ {next}]
      BY <1>2 DEF AfterItems
    <2>2. next \in Items /\ c.rest \ {next} \in SUBSET Items
      BY DEF WorkHandlers
    <2> QED BY <2>1, <2>2, IdleWorkMeans DEF WorkHandlers, WorkPCs, WorkOps
  <1> QED BY <1>1, <1>2

LEMMA DayCheckKeeps ==
  ASSUME CourseworkInv, NEW h \in WorkCalls, DayCheck(h)
  PROVE  CourseworkInv'
  <1>1. PICK c : c = workCall[h]
    OBVIOUS
  <1>2. /\ c \in WorkHandlers /\ WorkInv(c) /\ c.pc = "dayCheck"
        /\ UNCHANGED <<grades, day>>
    BY <1>1, WorkFields DEF DayCheck, WorkAt
  <1>3. CASE WorkEnds(h)
    BY <1>2, <1>3, WorkEndsKeeps
  <1>4. CASE /\ DaysOf(c.item.place) = {}
             /\ WorkTo(h, [c EXCEPT !.pc = "dayInsert"])
    <2>1. PICK d : d = [c EXCEPT !.pc = "dayInsert"]
      OBVIOUS
    <2>2. d \in WorkHandlers /\ d.pc = "dayInsert" /\ d.item = c.item
      BY <1>2, <2>1 DEF WorkHandlers, WorkPCs, DayPCs
    <2>3. WorkInv(d)
      BY <1>4, <2>2 DEF WorkInv, FoundInv, HeldGrade, HeldRecord, HeldDay,
                        SyncPCs, FoundPCs
    <2> QED BY <1>2, <1>4, <2>1, <2>2, <2>3, WorkQuiet
  <1>5. ASSUME NEW a \in DaysOf(c.item.place),
               WorkTo(h, [c EXCEPT !.pc = "dayFind", !.found = a])
        PROVE  CourseworkInv'
    <2>1. PICK d : d = [c EXCEPT !.pc = "dayFind", !.found = a]
      OBVIOUS
    <2>2. /\ a \in RecordIds /\ a \in 0..MaxRecord
          /\ attendance[a].state = "live"
          /\ attendance[a].item.place = c.item.place
      BY CourseworkAssumption DEF DaysOf, LiveIn, RecordIds
    <2>3. /\ d \in WorkHandlers /\ d.pc = "dayFind" /\ d.item = c.item
          /\ d.found = a
      BY <1>2, <2>1, <2>2 DEF WorkHandlers, WorkPCs, DayPCs
    <2>4. WorkInv(d)
      BY <2>2, <2>3 DEF WorkInv, FoundInv, HeldGrade, HeldRecord, HeldDay,
                        SyncPCs, FoundPCs
    <2> QED BY <1>2, <1>5, <2>1, <2>3, <2>4, WorkQuiet
  <1> QED BY <1>1, <1>3, <1>4, <1>5 DEF DayCheck

LEMMA DayFindKeeps ==
  ASSUME CourseworkInv, NEW h \in WorkCalls, DayFind(h)
  PROVE  CourseworkInv'
  <1>1. PICK c : c = workCall[h]
    OBVIOUS
  <1>2. /\ c \in WorkHandlers /\ WorkInv(c) /\ c.pc = "dayFind"
        /\ UNCHANGED <<grades, day>>
    BY <1>1, WorkFields DEF DayFind, WorkAt
  <1>3. ASSUME NEW d \in AfterItems(c), WorkTo(h, d) PROVE CourseworkInv'
    BY <1>2, <1>3, AfterItemsMeans, NothingHeld, WorkQuiet
  <1>4. CASE attendance[c.found].state = "live"
    <2>1. PICK d : d = [c EXCEPT !.pc = "daySave"]
      OBVIOUS
    <2>2. /\ d \in WorkHandlers /\ d.pc = "daySave" /\ d.item = c.item
          /\ d.found = c.found
      BY <1>2, <2>1 DEF WorkHandlers, WorkPCs, DayPCs
    <2>3. WorkInv(d)
      BY <1>2, <1>4, <2>2 DEF WorkInv, FoundInv, HeldGrade, HeldRecord,
                              HeldDay, SyncPCs, FoundPCs
    <2>4. WorkTo(h, d)
      BY <1>1, <1>4, <2>1 DEF DayFind
    <2> QED BY <1>2, <2>2, <2>3, <2>4, WorkQuiet
  <1> QED BY <1>1, <1>3, <1>4 DEF DayFind

LEMMA WorkCallFailsKeeps ==
  ASSUME CourseworkInv, NEW h \in WorkCalls, WorkCallFails(h)
  PROVE  CourseworkInv'
  BY WorkEndsKeeps DEF WorkCallFails

-----------------------------------------------------------------------------
(***************************************************************************)
(* Who writes overtakes the handlers that hold what was there before.      *)
(***************************************************************************)

\* The handlers of S go on, those that hold the row no longer alone.
GoOn(S, holders) ==
    \A q \in S : workCall'[q] = IF q \in holders
                                THEN [workCall[q] EXCEPT !.alone = FALSE]
                                ELSE workCall[q]

LEMMA OutdatedMeans ==
  ASSUME CourseworkInv, NEW holders, workCall' = Outdated(holders)
  PROVE  /\ workCall' \in [WorkCalls -> WorkHandlers]
         /\ GoOn(WorkCalls, holders)
  <1>1. \A q \in WorkCalls : workCall[q] \in WorkHandlers
    BY DEF CourseworkInv, CourseworkTypeOK
  <1>2. \A q \in WorkCalls : [workCall[q] EXCEPT !.alone = FALSE] \in WorkHandlers
    BY <1>1 DEF WorkHandlers
  <1> QED BY <1>1, <1>2 DEF Outdated, GoOn

LEMMA WritesMeans ==
  ASSUME CourseworkInv, NEW h \in WorkCalls, NEW holders,
         NEW c \in WorkHandlers,
         workCall' = [Outdated(holders) EXCEPT ![h] = c]
  PROVE  /\ workCall' \in [WorkCalls -> WorkHandlers] /\ workCall'[h] = c
         /\ GoOn(WorkCalls \ {h}, holders)
  <1>1. \A q \in WorkCalls : workCall[q] \in WorkHandlers
    BY DEF CourseworkInv, CourseworkTypeOK
  <1>2. \A q \in WorkCalls : [workCall[q] EXCEPT !.alone = FALSE] \in WorkHandlers
    BY <1>1 DEF WorkHandlers
  <1> QED BY <1>1, <1>2 DEF Outdated, GoOn

LEMMA OutdatesMeans ==
  ASSUME CourseworkInv, NEW h \in WorkCalls, NEW holders, Outdates(h, holders)
  PROVE  /\ workCall' \in [WorkCalls -> WorkHandlers]
         /\ WorkInv(workCall[h])'
         /\ GoOn(WorkCalls \ {h}, holders)
  <1>1. workCall' = [Outdated(holders) EXCEPT ![h] = IdleWork]
    BY DEF Outdates
  <1>2. /\ workCall' \in [WorkCalls -> WorkHandlers] /\ workCall'[h] = IdleWork
        /\ GoOn(WorkCalls \ {h}, holders)
    BY <1>1, IdleWorkMeans, WritesMeans
  <1>3. WorkInv(workCall[h])'
    BY <1>2, IdleWorkMeans DEF WorkInv, FoundInv, HeldGrade, HeldRecord,
                               HeldDay, FoundPCs, SyncPCs
  <1> QED BY <1>2, <1>3

\* A handler that goes on keeps what it found, and if it is still alone, what
\* it holds.
LEMMA GoesOnWith ==
  ASSUME CourseworkInv, NEW S \in SUBSET WorkCalls, NEW holders,
         GoOn(S, holders), NEW q \in S,
         \A d : d = workCall[q] =>
            /\ FoundInv(d)'
            /\ d.alone /\ q \notin holders =>
                  HeldGrade(d)' /\ HeldRecord(d)' /\ HeldDay(d)'
  PROVE  WorkInv(workCall[q])'
  <1>1. PICK d, e : d = workCall[q] /\ e = workCall'[q]
    OBVIOUS
  <1>2. /\ d \in WorkHandlers
        /\ e = IF q \in holders THEN [d EXCEPT !.alone = FALSE] ELSE d
    BY <1>1 DEF GoOn, CourseworkInv, CourseworkTypeOK
  <1>3. /\ e.pc = d.pc /\ e.found = d.found /\ e.item = d.item
        /\ e.alone => q \notin holders /\ e = d
    BY <1>2 DEF WorkHandlers
  <1>4. FoundInv(d)'
    BY <1>1
  <1>5. FoundInv(e)'
    BY <1>3, <1>4 DEF FoundInv
  <1>6. e.alone => HeldGrade(e)' /\ HeldRecord(e)' /\ HeldDay(e)'
    BY <1>1, <1>3
  <1>7. WorkInv(e)'
    BY <1>5, <1>6 DEF WorkInv
  <1> QED BY <1>1, <1>7 DEF WorkInv, FoundInv, HeldGrade, HeldRecord, HeldDay

-----------------------------------------------------------------------------
(***************************************************************************)
(* Writing a submission.                                                   *)
(***************************************************************************)
LEMMA SubmissionWritten ==
  ASSUME CourseworkInv, NEW S \in SUBSET WorkCalls, NEW holders,
         workCall' \in [WorkCalls -> WorkHandlers], GoOn(S, holders),
         \A q \in WorkCalls \ S : WorkInv(workCall[q])',
         HoldSubmission \subseteq holders,
         \/ HoldScore \subseteq holders
         \/ "submission" \in doubled'
         \/ \A score \in Scores : Shown(score) => Shown(score)',
         submission' \in [RecordIds -> Records], agreed' \in Scores,
         doubled' \in {doubled, doubled \cup {"submission"}},
         "submission" \notin doubled' => One(submission)',
         GradesAgree', UNCHANGED <<performance, day>>
  PROVE  CourseworkInv'
  <1>0. UNCHANGED <<performance, attendance, register>>
    BY DEF day
  <1>1. CourseworkTypeOK'
    BY <1>0 DEF CourseworkInv, CourseworkTypeOK
  <1>2. OneOfEach'
    BY <1>0 DEF CourseworkInv, OneOfEach, One, LiveIn
  <1>3. RegisterAsTaken'
    BY <1>0 DEF CourseworkInv, RegisterAsTaken, DaysOf, LiveIn
  <1>4. ASSUME NEW q \in S PROVE WorkInv(workCall[q])'
    <2> SUFFICES ASSUME NEW d, d = workCall[q]
                 PROVE  /\ FoundInv(d)'
                        /\ d.alone /\ q \notin holders =>
                              HeldGrade(d)' /\ HeldRecord(d)' /\ HeldDay(d)'
      BY GoesOnWith
    <2>1. WorkInv(d) /\ d.score \in Scores
      BY WorkFields
    <2>2. FoundInv(d)'
      BY <1>0, <2>1 DEF WorkInv, FoundInv
    <2>3. ASSUME d.alone PROVE HeldRecord(d)' /\ HeldDay(d)'
      BY <1>0, <2>1, <2>3 DEF WorkInv, HeldRecord, HeldDay, LiveIn, DaysOf
    <2>4. ASSUME d.alone, q \notin holders PROVE HeldGrade(d)'
      <3>1. d.pc \notin SubmissionPCs
        BY <2>4 DEF HoldSubmission
      <3>2. ASSUME d.op = "grade", d.pc \in SyncPCs,
                   "submission" \notin doubled'
            PROVE  Shown(d.score)'
        <4>1. ~(HoldScore \subseteq holders)
          BY <2>4, <3>2 DEF HoldScore
        <4>2. Shown(d.score)
          BY <2>1, <2>4, <3>2 DEF WorkInv, HeldGrade
        <4> QED BY <2>1, <3>2, <4>1, <4>2
      <3> QED BY <3>1, <3>2 DEF HeldGrade, SubmissionPCs
    <2> QED BY <2>2, <2>3, <2>4
  <1> QED BY <1>1, <1>2, <1>3, <1>4 DEF CourseworkInv

\* The row is the first, or someone else was about to make it, too.
LEMMA SubmitInsertKeeps ==
  ASSUME CourseworkInv, NEW h \in WorkCalls, SubmitInsert(h)
  PROVE  CourseworkInv'
  <1>1. PICK c : c = workCall[h]
    OBVIOUS
  <1>2. WorkInv(c) /\ c.pc = "submitInsert" /\ c.score \in Scores
    BY <1>1, WorkFields DEF SubmitInsert, WorkAt
  <1>3. PICK s \in RecordIds :
           /\ IsNextIn(submission, s)
           /\ submission' = [submission EXCEPT ![s] =
                               [state |-> "live", score |-> c.score]]
    BY <1>1 DEF SubmitInsert
  <1>4. /\ submission' \in [RecordIds -> Records] /\ submission'[s].state = "live"
        /\ \A r \in RecordIds \ {s} : submission'[r] = submission[r]
    BY <1>2, <1>3
       DEF CourseworkInv, CourseworkTypeOK, Records, RecordStates
  <1>5. /\ UNCHANGED <<performance, agreed, day>>
        /\ doubled' = IF c.alone THEN doubled ELSE doubled \cup {"submission"}
    BY <1>1 DEF SubmitInsert, Overlapping
  <1>6. c.alone => LiveIn(submission) = {}
    BY <1>2 DEF WorkInv, HeldGrade
  <1>7. "submission" \notin doubled' => One(submission)'
    BY <1>4, <1>5, <1>6 DEF One, LiveIn
  <1>8. GradesAgree'
    BY <1>5, <1>6 DEF CourseworkInv, GradesAgree
  <1>9. \/ "submission" \in doubled'
        \/ \A score \in Scores : Shown(score) => Shown(score)'
    BY <1>5, <1>6 DEF Shown
  <1>10. /\ workCall' \in [WorkCalls -> WorkHandlers]
         /\ WorkInv(workCall[h])' /\ GoOn(WorkCalls \ {h}, HoldSubmission)
    BY OutdatesMeans DEF SubmitInsert
  <1>11. agreed' \in Scores
    BY <1>5 DEF CourseworkInv, CourseworkTypeOK
  <1> QED BY <1>4, <1>5, <1>7, <1>8, <1>9, <1>10, <1>11, SubmissionWritten

\* A handler that is alone writes to a row that is still what it has read.
LEMMA SubmissionSaved ==
  ASSUME CourseworkInv, NEW c \in WorkHandlers, WorkInv(c),
         c.pc \in {"updateSave", "gradeSave"},
         NEW row \in Records, row.state = c.row.state,
         submission' = [submission EXCEPT ![c.found] = row],
         doubled' = IF c.alone THEN doubled ELSE doubled \cup {"submission"}
  PROVE  /\ c.found \in RecordIds
         /\ submission' \in [RecordIds -> Records]
         /\ submission'[c.found] = row
         /\ \A r \in RecordIds \ {c.found} : submission'[r] = submission[r]
         /\ c.alone => /\ c.row = submission[c.found]
                       /\ row.state = "live"
                       /\ LiveIn(submission)' = LiveIn(submission)
                       /\ c.found \in LiveIn(submission)
         /\ "submission" \notin doubled' => One(submission)'
  <1>1. c.found \in RecordIds
    BY DEF WorkInv, FoundInv, FoundPCs
  <1>2. /\ submission' \in [RecordIds -> Records] /\ submission'[c.found] = row
        /\ \A r \in RecordIds \ {c.found} : submission'[r] = submission[r]
    BY <1>1 DEF CourseworkInv, CourseworkTypeOK
  <1>3. c.alone => c.row = submission[c.found] /\ row.state = "live"
    BY DEF WorkInv, HeldGrade
  <1>4. c.alone => /\ LiveIn(submission)' = LiveIn(submission)
                   /\ c.found \in LiveIn(submission)
    BY <1>1, <1>2, <1>3 DEF LiveIn
  <1>5. "submission" \notin doubled' => One(submission)'
    BY <1>4 DEF CourseworkInv, OneOfEach, One
  <1> QED BY <1>1, <1>2, <1>3, <1>4, <1>5

LEMMA UpdateSaveSubmissionKeeps ==
  ASSUME CourseworkInv, NEW h \in WorkCalls, UpdateSaveSubmission(h)
  PROVE  CourseworkInv'
  <1>1. PICK c : c = workCall[h]
    OBVIOUS
  <1>2. /\ c \in WorkHandlers /\ WorkInv(c) /\ c.pc = "updateSave"
        /\ c.score \in Scores /\ c.row \in Records
    BY <1>1, WorkFields DEF UpdateSaveSubmission, WorkAt
  <1>3. PICK row : row = IF c.score = NoScore THEN c.row
                         ELSE [c.row EXCEPT !.score = c.score]
    OBVIOUS
  <1>4. row \in Records /\ row.state = c.row.state
    BY <1>2, <1>3 DEF Records
  <1>5. /\ submission' = [submission EXCEPT ![c.found] = row]
        /\ doubled' = IF c.alone THEN doubled ELSE doubled \cup {"submission"}
        /\ agreed' = IF c.score = NoScore /\ c.alone THEN agreed ELSE NoScore
        /\ UNCHANGED <<performance, day>>
    BY <1>1, <1>3 DEF UpdateSaveSubmission, Overlapping
  <1>6. PICK holders :
           /\ holders = IF row.score = submission[c.found].score
                        THEN HoldSubmission ELSE HoldScore
           /\ Outdates(h, holders)
    BY <1>1, <1>3 DEF UpdateSaveSubmission
  <1>7. /\ c.found \in RecordIds
        /\ submission' \in [RecordIds -> Records]
        /\ submission'[c.found] = row
        /\ \A r \in RecordIds \ {c.found} : submission'[r] = submission[r]
        /\ c.alone => /\ c.row = submission[c.found] /\ row.state = "live"
                      /\ LiveIn(submission)' = LiveIn(submission)
                      /\ c.found \in LiveIn(submission)
        /\ "submission" \notin doubled' => One(submission)'
    BY <1>2, <1>4, <1>5, SubmissionSaved
  <1>8. GradesAgree'
    <2>1. CASE agreed' # NoScore
      <3>1. c.alone /\ row = submission[c.found] /\ agreed' = agreed
        BY <1>3, <1>5, <1>7, <2>1
      <3>2. submission' = submission
        BY <1>5, <1>7, <3>1 DEF CourseworkInv, CourseworkTypeOK
      <3> QED BY <1>5, <3>1, <3>2 DEF CourseworkInv, GradesAgree, LiveIn
    <2>2. CASE agreed' = NoScore
      BY <2>2 DEF GradesAgree
    <2> QED BY <2>1, <2>2
  <1>9. \/ HoldScore \subseteq holders
        \/ "submission" \in doubled'
        \/ \A score \in Scores : Shown(score) => Shown(score)'
    <2>1. CASE row.score = submission[c.found].score /\ c.alone
      <3>1. LiveIn(submission)' = LiveIn(submission)
        BY <1>7, <2>1
      <3>2. \A s \in LiveIn(submission) : submission'[s].score = submission[s].score
        BY <1>7, <2>1 DEF LiveIn
      <3> QED BY <3>1, <3>2 DEF Shown
    <2>2. CASE row.score # submission[c.found].score \/ ~c.alone
      BY <1>5, <1>6, <2>2
    <2> QED BY <2>1, <2>2
  <1>10. /\ workCall' \in [WorkCalls -> WorkHandlers]
         /\ WorkInv(workCall[h])' /\ GoOn(WorkCalls \ {h}, holders)
    BY <1>6, OutdatesMeans
  <1>11. agreed' \in Scores /\ HoldSubmission \subseteq holders
    BY <1>5, <1>6, IdleWorkMeans, CourseworkAssumption
       DEF CourseworkInv, CourseworkTypeOK, HoldScore, Scores, NoScore
  <1> QED BY <1>5, <1>7, <1>8, <1>9, <1>10, <1>11, SubmissionWritten

\* A grading goes on with the score that its submission now shows.
LEMMA GradeSaveKeeps ==
  ASSUME CourseworkInv, NEW h \in WorkCalls, GradeSave(h)
  PROVE  CourseworkInv'
  <1>1. PICK c : c = workCall[h]
    OBVIOUS
  <1>2. /\ c \in WorkHandlers /\ WorkInv(c) /\ c.pc = "gradeSave"
        /\ c.score \in Scores /\ c.row \in Records
    BY <1>1, WorkFields DEF GradeSave, WorkAt
  <1>3. PICK row : row = [c.row EXCEPT !.score = c.score]
    OBVIOUS
  <1>4. row \in Records /\ row.state = c.row.state /\ row.score = c.score
    BY <1>2, <1>3 DEF Records
  <1>5. PICK d : d = [c EXCEPT !.pc = "gradeRelations", !.row = NoRecord]
    OBVIOUS
  <1>6. /\ submission' = [submission EXCEPT ![c.found] = row]
        /\ doubled' = IF c.alone THEN doubled ELSE doubled \cup {"submission"}
        /\ agreed' = NoScore /\ UNCHANGED <<performance, day>>
        /\ workCall' = [Outdated(HoldScore) EXCEPT ![h] = d]
    BY <1>1, <1>3, <1>5 DEF GradeSave, Overlapping
  <1>7. /\ c.found \in RecordIds
        /\ submission' \in [RecordIds -> Records]
        /\ submission'[c.found] = row
        /\ c.alone => /\ LiveIn(submission)' = LiveIn(submission)
                      /\ c.found \in LiveIn(submission)
        /\ "submission" \notin doubled' => One(submission)'
    BY <1>2, <1>4, <1>6, SubmissionSaved
  <1>8. /\ d \in WorkHandlers /\ d.pc = "gradeRelations" /\ d.found = c.found
        /\ d.score = c.score /\ d.alone = c.alone
    <2>1. NoRecord \in Records
      BY CourseworkAssumption
         DEF NoRecord, Records, RecordStates, Scores, NoScore
    <2> QED BY <1>2, <1>5, <2>1 DEF WorkHandlers, WorkPCs, SyncPCs
  <1>9. ASSUME c.alone, "submission" \notin doubled' PROVE Shown(c.score)'
    BY <1>4, <1>7, <1>9 DEF Shown, One
  <1>10. WorkInv(d)'
    BY <1>6, <1>7, <1>8, <1>9
       DEF WorkInv, FoundInv, HeldGrade, HeldRecord, HeldDay
  <1>11. /\ workCall' \in [WorkCalls -> WorkHandlers] /\ workCall'[h] = d
         /\ GoOn(WorkCalls \ {h}, HoldScore)
    BY <1>6, <1>8, WritesMeans
  <1>12. WorkInv(workCall[h])'
    BY <1>10, <1>11 DEF WorkInv, FoundInv, HeldGrade, HeldRecord, HeldDay
  <1>13. /\ GradesAgree' /\ agreed' \in Scores
         /\ HoldSubmission \subseteq HoldScore
    BY <1>6, CourseworkAssumption DEF GradesAgree, HoldScore, Scores, NoScore
  <1> QED BY <1>6, <1>7, <1>11, <1>12, <1>13, SubmissionWritten

LEMMA RemoveSubmissionKeeps ==
  ASSUME CourseworkInv, NEW s \in RecordIds, RemoveSubmission(s)
  PROVE  CourseworkInv'
  <1>1. /\ submission' = [submission EXCEPT ![s].state = "removed"]
        /\ workCall' = Outdated(HoldScore) /\ agreed' = NoScore
        /\ UNCHANGED <<performance, doubled, day>>
    BY DEF RemoveSubmission
  <1>2. /\ submission' \in [RecordIds -> Records]
        /\ submission'[s].state = "removed"
        /\ \A r \in RecordIds \ {s} : submission'[r] = submission[r]
    BY <1>1 DEF CourseworkInv, CourseworkTypeOK, Records, RecordStates
  <1>3. "submission" \notin doubled' => One(submission)'
    BY <1>1, <1>2 DEF CourseworkInv, OneOfEach, One, LiveIn
  <1>4. /\ workCall' \in [WorkCalls -> WorkHandlers]
        /\ GoOn(WorkCalls, HoldScore)
    BY <1>1, OutdatedMeans
  <1>5. /\ GradesAgree' /\ agreed' \in Scores
        /\ HoldSubmission \subseteq HoldScore
    BY <1>1, CourseworkAssumption DEF GradesAgree, HoldScore, Scores, NoScore
  <1> QED BY <1>1, <1>2, <1>3, <1>4, <1>5, SubmissionWritten
-----------------------------------------------------------------------------
(***************************************************************************)
(* Writing a performance record.                                           *)
(***************************************************************************)
LEMMA RecordWritten ==
  ASSUME CourseworkInv, NEW S \in SUBSET WorkCalls,
         workCall' \in [WorkCalls -> WorkHandlers], GoOn(S, HoldRecord),
         \A q \in WorkCalls \ S : WorkInv(workCall[q])',
         performance' \in [RecordIds -> Records], agreed' \in Scores,
         doubled' \in {doubled, doubled \cup {"performance"}},
         "performance" \notin doubled' => One(performance)',
         GradesAgree', UNCHANGED <<submission, day>>
  PROVE  CourseworkInv'
  <1>0. UNCHANGED <<submission, attendance, register>>
    BY DEF day
  <1>1. CourseworkTypeOK'
    BY <1>0 DEF CourseworkInv, CourseworkTypeOK
  <1>2. OneOfEach'
    BY <1>0 DEF CourseworkInv, OneOfEach, One, LiveIn
  <1>3. RegisterAsTaken'
    BY <1>0 DEF CourseworkInv, RegisterAsTaken, DaysOf, LiveIn
  <1>4. ASSUME NEW q \in S PROVE WorkInv(workCall[q])'
    <2> SUFFICES ASSUME NEW d, d = workCall[q]
                 PROVE  /\ FoundInv(d)'
                        /\ d.alone /\ q \notin HoldRecord =>
                              HeldGrade(d)' /\ HeldRecord(d)' /\ HeldDay(d)'
      BY GoesOnWith
    <2>1. WorkInv(d)
      BY WorkFields
    <2>2. FoundInv(d)'
      BY <1>0, <2>1 DEF WorkInv, FoundInv
    <2>3. ASSUME d.alone PROVE HeldGrade(d)' /\ HeldDay(d)'
      <3>1. HeldGrade(d) /\ HeldDay(d)
        BY <2>1, <2>3 DEF WorkInv
      <3>2. HeldDay(d)'
        BY <1>0, <3>1 DEF HeldDay, LiveIn, DaysOf
      <3>3. "submission" \notin doubled' => "submission" \notin doubled
        OBVIOUS
      <3> QED BY <1>0, <3>1, <3>2, <3>3 DEF HeldGrade, Shown, LiveIn
    <2>4. ASSUME q \notin HoldRecord PROVE HeldRecord(d)'
      <3>1. d.pc \notin {"recordInsert", "recordSave"}
        BY <2>4 DEF HoldRecord
      <3> QED BY <3>1 DEF HeldRecord
    <2> QED BY <2>2, <2>3, <2>4
  <1> QED BY <1>1, <1>2, <1>3, <1>4 DEF CourseworkInv

\* A grading that nobody overtook has brought its score to both tables.
LEMMA BroughtToBoth ==
  ASSUME CourseworkInv, NEW h \in WorkCalls, Agree(h), NEW c,
         c = workCall[h], c.pc \in {"recordInsert", "recordSave"},
         UNCHANGED submission,
         doubled' = IF c.alone THEN doubled ELSE doubled \cup {"performance"},
         c.alone => /\ LiveIn(performance)' # {}
                    /\ \A p \in LiveIn(performance)' :
                          "performance" \notin doubled =>
                             performance'[p].score = c.score
  PROVE  GradesAgree' /\ agreed' \in Scores
  <1>1. agreed' = IF c.op = "grade" /\ c.alone THEN c.score ELSE NoScore
    BY DEF Agree
  <1>2. WorkInv(c) /\ c.score \in Scores
    BY WorkFields
  <1>3. NoScore \in Scores
    BY CourseworkAssumption DEF Scores, NoScore
  <1>4. ASSUME agreed' # NoScore, doubled' = {}
        PROVE  /\ LiveIn(submission)' # {} /\ LiveIn(performance)' # {}
               /\ \A s \in LiveIn(submission)' : submission'[s].score = agreed'
               /\ \A p \in LiveIn(performance)' :
                     performance'[p].score = agreed'
    <2>1. c.op = "grade" /\ c.alone /\ agreed' = c.score
      BY <1>1, <1>4
    <2>2. doubled = {}
      BY <1>4, <2>1
    <2>3. Shown(c.score)
      BY <1>2, <2>1, <2>2 DEF WorkInv, HeldGrade, SyncPCs
    <2>4. /\ LiveIn(submission)' # {}
          /\ \A s \in LiveIn(submission)' : submission'[s].score = agreed'
      BY <2>1, <2>3 DEF Shown, LiveIn
    <2> QED BY <2>1, <2>2, <2>4
  <1> QED BY <1>1, <1>2, <1>3, <1>4 DEF GradesAgree

LEMMA RecordInsertKeeps ==
  ASSUME CourseworkInv, NEW h \in WorkCalls, RecordInsert(h)
  PROVE  CourseworkInv'
  <1>1. PICK c : c = workCall[h]
    OBVIOUS
  <1>2. WorkInv(c) /\ c.pc = "recordInsert" /\ c.score \in Scores
    BY <1>1, WorkFields DEF RecordInsert, WorkAt
  <1>3. PICK p \in RecordIds :
           /\ IsNextIn(performance, p)
           /\ performance' = [performance EXCEPT ![p] =
                                [state |-> "live", score |-> c.score]]
    BY <1>1 DEF RecordInsert
  <1>4. /\ performance' \in [RecordIds -> Records]
        /\ performance'[p] = [state |-> "live", score |-> c.score]
        /\ \A r \in RecordIds \ {p} : performance'[r] = performance[r]
    BY <1>2, <1>3
       DEF CourseworkInv, CourseworkTypeOK, Records, RecordStates
  <1>5. /\ UNCHANGED <<submission, day>>
        /\ doubled' = IF c.alone THEN doubled ELSE doubled \cup {"performance"}
    BY <1>1 DEF RecordInsert, Overlapping
  <1>6. c.alone => LiveIn(performance)' = {p}
    <2>1. c.alone => LiveIn(performance) = {}
      BY <1>2 DEF WorkInv, HeldRecord
    <2> QED BY <1>4, <2>1 DEF LiveIn
  <1>7. "performance" \notin doubled' => One(performance)'
    BY <1>5, <1>6 DEF One
  <1>8. GradesAgree' /\ agreed' \in Scores
    <2>1. c.alone => /\ LiveIn(performance)' # {}
                     /\ \A r \in LiveIn(performance)' :
                           performance'[r].score = c.score
      BY <1>4, <1>6
    <2>2. Agree(h)
      BY DEF RecordInsert
    <2> QED BY <1>1, <1>2, <1>5, <2>1, <2>2, BroughtToBoth
  <1>9. /\ workCall' \in [WorkCalls -> WorkHandlers]
        /\ WorkInv(workCall[h])' /\ GoOn(WorkCalls \ {h}, HoldRecord)
    BY OutdatesMeans DEF RecordInsert
  <1> QED BY <1>4, <1>5, <1>7, <1>8, <1>9, RecordWritten

LEMMA RecordSaveKeeps ==
  ASSUME CourseworkInv, NEW h \in WorkCalls, RecordSave(h)
  PROVE  CourseworkInv'
  <1>1. PICK c : c = workCall[h]
    OBVIOUS
  <1>2. /\ WorkInv(c) /\ c.pc = "recordSave" /\ c.score \in Scores
        /\ c.row \in Records
    BY <1>1, WorkFields DEF RecordSave, WorkAt
  <1>3. PICK row : row = [c.row EXCEPT !.score = c.score]
    OBVIOUS
  <1>4. row \in Records /\ row.state = c.row.state /\ row.score = c.score
    BY <1>2, <1>3 DEF Records
  <1>5. c.found \in RecordIds
    BY <1>2 DEF WorkInv, FoundInv, FoundPCs
  <1>6. /\ performance' = [performance EXCEPT ![c.found] = row]
        /\ doubled' = IF c.alone THEN doubled ELSE doubled \cup {"performance"}
        /\ UNCHANGED <<submission, day>>
    BY <1>1, <1>3 DEF RecordSave, Overlapping
  <1>7. /\ performance' \in [RecordIds -> Records]
        /\ performance'[c.found] = row
        /\ \A r \in RecordIds \ {c.found} : performance'[r] = performance[r]
    BY <1>4, <1>5, <1>6 DEF CourseworkInv, CourseworkTypeOK
  <1>8. c.alone => /\ c.found \in LiveIn(performance)
                   /\ LiveIn(performance)' = LiveIn(performance)
    <2>1. c.alone => /\ performance[c.found].state = "live"
                     /\ row.state = "live"
      BY <1>2, <1>4 DEF WorkInv, HeldRecord
    <2> QED BY <1>5, <1>7, <2>1 DEF LiveIn
  <1>9. "performance" \notin doubled' => One(performance)'
    BY <1>6, <1>8 DEF CourseworkInv, OneOfEach, One
  <1>10. ASSUME c.alone, "performance" \notin doubled,
                NEW p \in LiveIn(performance)'
         PROVE  performance'[p].score = c.score
    <2>1. p = c.found
      BY <1>8, <1>10 DEF CourseworkInv, OneOfEach, One
    <2> QED BY <1>4, <1>7, <2>1
  <1>11. GradesAgree' /\ agreed' \in Scores
    BY <1>1, <1>2, <1>6, <1>8, <1>10, BroughtToBoth DEF RecordSave
  <1>12. /\ workCall' \in [WorkCalls -> WorkHandlers]
         /\ WorkInv(workCall[h])' /\ GoOn(WorkCalls \ {h}, HoldRecord)
    BY OutdatesMeans DEF RecordSave
  <1> QED BY <1>6, <1>7, <1>9, <1>11, <1>12, RecordWritten

LEMMA RemoveRecordKeeps ==
  ASSUME CourseworkInv, NEW p \in RecordIds, RemoveRecord(p)
  PROVE  CourseworkInv'
  <1>1. /\ performance' = [performance EXCEPT ![p].state = "removed"]
        /\ workCall' = Outdated(HoldRecord) /\ agreed' = NoScore
        /\ UNCHANGED <<submission, doubled, day>>
    BY DEF RemoveRecord
  <1>2. /\ performance' \in [RecordIds -> Records]
        /\ performance'[p].state = "removed"
        /\ \A r \in RecordIds \ {p} : performance'[r] = performance[r]
    BY <1>1 DEF CourseworkInv, CourseworkTypeOK, Records, RecordStates
  <1>3. "performance" \notin doubled' => One(performance)'
    BY <1>1, <1>2 DEF CourseworkInv, OneOfEach, One, LiveIn
  <1>4. /\ workCall' \in [WorkCalls -> WorkHandlers]
        /\ GoOn(WorkCalls, HoldRecord)
    BY <1>1, OutdatedMeans
  <1>5. GradesAgree' /\ agreed' \in Scores
    BY <1>1, CourseworkAssumption DEF GradesAgree, Scores, NoScore
  <1> QED BY <1>1, <1>2, <1>3, <1>4, <1>5, RecordWritten
-----------------------------------------------------------------------------
(***************************************************************************)
(* Writing a row of the day.                                               *)
(***************************************************************************)

\* What the register says of one place.
TakenAt(p) ==
    CASE register[p] = NoMark -> DaysOf(p) = {}
      [] register[p] \in Marks ->
           \E a \in RecordIds :
              DaysOf(p) = {a} /\ attendance[a].item.mark = register[p]
      [] OTHER -> TRUE

\* A row is written for place p: no other place's rows are touched.
LEMMA DayOfOnePlace ==
  ASSUME CourseworkInv, NEW S \in SUBSET WorkCalls, NEW p \in Places,
         NEW a \in RecordIds,
         workCall' \in [WorkCalls -> WorkHandlers], GoOn(S, HoldPlace(p)),
         \A q \in WorkCalls \ S : WorkInv(workCall[q])',
         attendance' \in [RecordIds -> Days],
         \A r \in RecordIds \ {a} : attendance'[r] = attendance[r],
         attendance'[a].item.place = p, attendance'[a].state # "none",
         attendance[a].state = "none" \/ attendance[a].item.place = p,
         register' \in [Places -> Marks \cup {NoMark, Unsure}],
         \A r \in Places \ {p} : register'[r] = register[r],
         TakenAt(p)', UNCHANGED grades
  PROVE  CourseworkInv'
  <1>0. UNCHANGED <<submission, performance, doubled, agreed>>
    BY DEF grades
  <1>1. CourseworkTypeOK'
    BY <1>0 DEF CourseworkInv, CourseworkTypeOK
  <1>2. OneOfEach' /\ GradesAgree'
    BY <1>0 DEF CourseworkInv, OneOfEach, GradesAgree, One, LiveIn
  <1>3. ASSUME NEW r, r # p PROVE DaysOf(r)' = DaysOf(r) /\ a \notin DaysOf(r)
    BY <1>3 DEF DaysOf, LiveIn
  <1>4. RegisterAsTaken'
    <2>1. ASSUME NEW r \in Places PROVE TakenAt(r)'
      <3>1. CASE r = p
        BY <3>1
      <3>2. CASE r # p
        <4>1. TakenAt(r)
          BY DEF CourseworkInv, RegisterAsTaken, TakenAt
        <4>2. register'[r] = register[r] /\ DaysOf(r)' = DaysOf(r)
          BY <1>3, <3>2
        <4>3. \A b \in RecordIds : DaysOf(r) = {b} => attendance'[b] = attendance[b]
          BY <1>3, <3>2
        <4> QED BY <4>1, <4>2, <4>3 DEF TakenAt
      <3> QED BY <3>1, <3>2
    <2> QED BY <2>1 DEF RegisterAsTaken, TakenAt
  <1>5. ASSUME NEW q \in S PROVE WorkInv(workCall[q])'
    <2> SUFFICES ASSUME NEW d, d = workCall[q]
                 PROVE  /\ FoundInv(d)'
                        /\ d.alone /\ q \notin HoldPlace(p) =>
                              HeldGrade(d)' /\ HeldRecord(d)' /\ HeldDay(d)'
      BY GoesOnWith
    <2>1. WorkInv(d)
      BY WorkFields
    <2>2. FoundInv(d)'
      <3>1. ASSUME d.pc \in {"dayFind", "daySave"}
            PROVE  /\ attendance'[d.found].state # "none"
                   /\ attendance'[d.found].item.place = d.item.place
        <4>1. /\ d.found \in RecordIds /\ attendance[d.found].state # "none"
              /\ attendance[d.found].item.place = d.item.place
          BY <2>1, <3>1 DEF WorkInv, FoundInv, FoundPCs
        <4> QED BY <4>1
      <3>2. d.pc \in FoundPCs => d.found \in RecordIds
        BY <2>1 DEF WorkInv, FoundInv
      <3> QED BY <3>1, <3>2 DEF FoundInv
    <2>3. ASSUME d.alone PROVE HeldGrade(d)' /\ HeldRecord(d)'
      BY <1>0, <2>1, <2>3 DEF WorkInv, HeldGrade, HeldRecord, Shown, LiveIn
    <2>4. ASSUME d.alone, q \notin HoldPlace(p) PROVE HeldDay(d)'
      <3>1. d.pc \in DayPCs => d.item.place # p
        BY <2>4 DEF HoldPlace
      <3>2. HeldDay(d) /\ FoundInv(d)
        BY <2>1, <2>4 DEF WorkInv
      <3>3. ASSUME d.pc = "dayInsert" PROVE DaysOf(d.item.place)' = {}
        BY <1>3, <3>1, <3>2, <3>3 DEF HeldDay, DayPCs
      <3>4. ASSUME d.pc = "daySave" PROVE attendance'[d.found].state = "live"
        <4>1. d.found \in RecordIds /\ attendance[d.found].state = "live"
          BY <3>2, <3>4 DEF HeldDay, FoundInv, FoundPCs
        <4>2. d.found # a
          BY <3>1, <3>2, <3>4, <4>1 DEF FoundInv, DayPCs
        <4> QED BY <4>1, <4>2
      <3>5. ASSUME d.pc = "dayInsert"
            PROVE  {b \in LiveIn(attendance)' :
                      attendance'[b].item.place = d.item.place} = {}
        BY <3>3, <3>5 DEF DaysOf
      <3> QED BY <3>4, <3>5 DEF HeldDay, DaysOf
    <2> QED BY <2>2, <2>3, <2>4
  <1> QED BY <1>1, <1>2, <1>4, <1>5 DEF CourseworkInv

\* The handler that wrote goes on with its list.
LEMMA DayWrittenMeans ==
  ASSUME CourseworkInv, NEW h \in WorkCalls, NEW c, c = workCall[h],
         \E after \in AfterItems(c) : DayWritten(h, after)
  PROVE  /\ workCall' \in [WorkCalls -> WorkHandlers]
         /\ WorkInv(workCall[h])'
         /\ GoOn(WorkCalls \ {h}, HoldPlace(c.item.place))
         /\ register' = [register EXCEPT ![c.item.place] =
               IF c.alone /\ @ # Unsure THEN c.item.mark ELSE Unsure]
  <1>1. PICK after \in AfterItems(c) : DayWritten(h, after)
    OBVIOUS
  <1>2. /\ workCall' = [Outdated(HoldPlace(c.item.place)) EXCEPT ![h] = after]
        /\ register' = [register EXCEPT ![c.item.place] =
              IF c.alone /\ @ # Unsure THEN c.item.mark ELSE Unsure]
    BY <1>1 DEF DayWritten
  <1>3. after \in WorkHandlers /\ after.pc \in {"idle", "dayCheck"}
    BY <1>1, AfterItemsMeans, WorkFields
  <1>4. /\ workCall' \in [WorkCalls -> WorkHandlers] /\ workCall'[h] = after
        /\ GoOn(WorkCalls \ {h}, HoldPlace(c.item.place))
    BY <1>2, <1>3, WritesMeans
  <1>5. WorkInv(after)'
    BY <1>3, NothingHeld
  <1>6. WorkInv(workCall[h])'
    BY <1>4, <1>5 DEF WorkInv, FoundInv, HeldGrade, HeldRecord, HeldDay
  <1> QED BY <1>2, <1>4, <1>6

\* A handler that is alone leaves the row it has written as the only one.
LEMMA DayTaken ==
  ASSUME CourseworkInv, NEW c \in WorkHandlers, NEW a \in RecordIds,
         attendance'[a].item = c.item,
         c.alone /\ register[c.item.place] # Unsure
            => DaysOf(c.item.place)' = {a},
         register' = [register EXCEPT ![c.item.place] =
               IF c.alone /\ @ # Unsure THEN c.item.mark ELSE Unsure]
  PROVE  /\ TakenAt(c.item.place)'
         /\ register' \in [Places -> Marks \cup {NoMark, Unsure}]
         /\ \A r \in Places \ {c.item.place} : register'[r] = register[r]
  <1>1. PICK p, mark : p = c.item.place /\ mark = c.item.mark
    OBVIOUS
  <1>2. p \in Places /\ mark \in Marks
    BY <1>1 DEF WorkHandlers, Items
  <1>3. register \in [Places -> Marks \cup {NoMark, Unsure}]
    BY DEF CourseworkInv, CourseworkTypeOK
  <1>4. register'[p] = IF c.alone /\ register[p] # Unsure THEN mark ELSE Unsure
    BY <1>1, <1>2, <1>3
  <1>5. TakenAt(p)'
    <2>1. CASE c.alone /\ register[p] # Unsure
      BY <1>1, <1>2, <1>4, <2>1, CourseworkAssumption DEF TakenAt
    <2>2. CASE ~(c.alone /\ register[p] # Unsure)
      BY <1>2, <1>4, <2>2, CourseworkAssumption DEF TakenAt
    <2> QED BY <2>1, <2>2
  <1>6. TakenAt(c.item.place)'
    BY <1>1, <1>5
  <1> QED BY <1>1, <1>2, <1>3, <1>6
LEMMA DayInsertKeeps ==
  ASSUME CourseworkInv, NEW h \in WorkCalls, DayInsert(h)
  PROVE  CourseworkInv'
  <1>1. PICK c, p : c = workCall[h] /\ p = c.item.place
    OBVIOUS
  <1>2. /\ c \in WorkHandlers /\ WorkInv(c) /\ c.pc = "dayInsert"
        /\ c.item \in Items /\ p \in Places
    BY <1>1, WorkFields DEF DayInsert, WorkAt, Items
  <1>3. PICK a \in RecordIds :
           /\ IsNextIn(attendance, a)
           /\ attendance' = [attendance EXCEPT ![a] =
                               [state |-> "live", item |-> c.item]]
    BY <1>1 DEF DayInsert
  <1>4. /\ attendance' \in [RecordIds -> Days]
        /\ attendance'[a].state = "live" /\ attendance'[a].item = c.item
        /\ \A r \in RecordIds \ {a} : attendance'[r] = attendance[r]
        /\ attendance[a].state = "none"
    BY <1>2, <1>3
       DEF CourseworkInv, CourseworkTypeOK, Days, RecordStates, IsNextIn
  <1>5. /\ workCall' \in [WorkCalls -> WorkHandlers]
        /\ WorkInv(workCall[h])' /\ GoOn(WorkCalls \ {h}, HoldPlace(p))
        /\ register' = [register EXCEPT ![p] =
              IF c.alone /\ @ # Unsure THEN c.item.mark ELSE Unsure]
    BY <1>1, DayWrittenMeans DEF DayInsert
  <1>6. c.alone => DaysOf(p)' = {a}
    <2>1. c.alone => DaysOf(p) = {}
      BY <1>1, <1>2 DEF WorkInv, HeldDay
    <2> QED BY <1>1, <1>4, <2>1 DEF DaysOf, LiveIn
  <1>7. /\ TakenAt(p)'
        /\ register' \in [Places -> Marks \cup {NoMark, Unsure}]
        /\ \A r \in Places \ {p} : register'[r] = register[r]
    <2>1. c.alone /\ register[c.item.place] # Unsure
             => DaysOf(c.item.place)' = {a}
      BY <1>1, <1>6
    <2>2. /\ TakenAt(c.item.place)'
          /\ register' \in [Places -> Marks \cup {NoMark, Unsure}]
          /\ \A r \in Places \ {c.item.place} : register'[r] = register[r]
      BY <1>1, <1>2, <1>4, <1>5, <2>1, DayTaken
    <2> QED BY <1>1, <2>2
  <1>8. UNCHANGED grades
    BY DEF DayInsert
  <1>9. attendance'[a].item.place = p /\ attendance'[a].state # "none"
    BY <1>1, <1>4
  <1> QED BY <1>2, <1>4, <1>5, <1>7, <1>8, <1>9, DayOfOnePlace

\* A handler that is alone saves the place's only row: a second one is made
\* by overlapping requests, and the register is not sure of the place.
LEMMA DaySaveKeeps ==
  ASSUME CourseworkInv, NEW h \in WorkCalls, DaySave(h)
  PROVE  CourseworkInv'
  <1>1. PICK c, p, a : c = workCall[h] /\ p = c.item.place /\ a = c.found
    OBVIOUS
  <1>2. /\ c \in WorkHandlers /\ WorkInv(c) /\ c.pc = "daySave"
        /\ c.item \in Items /\ p \in Places
    BY <1>1, WorkFields DEF DaySave, WorkAt, Items
  <1>3. /\ a \in RecordIds /\ attendance[a].item.place = p
        /\ c.alone => attendance[a].state = "live"
    BY <1>1, <1>2 DEF WorkInv, FoundInv, FoundPCs, HeldDay
  <1>4. /\ attendance' \in [RecordIds -> Days]
        /\ attendance'[a].state = "live" /\ attendance'[a].item = c.item
        /\ \A r \in RecordIds \ {a} : attendance'[r] = attendance[r]
    <2>1. attendance' = [attendance EXCEPT ![a] =
                           [state |-> "live", item |-> c.item]]
      BY <1>1 DEF DaySave
    <2> QED BY <1>2, <1>3, <2>1
            DEF CourseworkInv, CourseworkTypeOK, Days, RecordStates
  <1>5. /\ workCall' \in [WorkCalls -> WorkHandlers]
        /\ WorkInv(workCall[h])' /\ GoOn(WorkCalls \ {h}, HoldPlace(p))
        /\ register' = [register EXCEPT ![p] =
              IF c.alone /\ @ # Unsure THEN c.item.mark ELSE Unsure]
    BY <1>1, DayWrittenMeans DEF DaySave
  <1>6. ASSUME c.alone, register[p] # Unsure PROVE DaysOf(p)' = {a}
    <2>1. a \in DaysOf(p)
      BY <1>3, <1>6 DEF DaysOf, LiveIn
    <2>2. register[p] \in Marks \cup {NoMark, Unsure}
      BY <1>2 DEF CourseworkInv, CourseworkTypeOK
    <2>3. DaysOf(p) = {a}
      BY <1>2, <1>6, <2>1, <2>2, CourseworkAssumption
         DEF CourseworkInv, RegisterAsTaken
    <2> QED BY <1>1, <1>3, <1>4, <2>3 DEF DaysOf, LiveIn
  <1>7. /\ TakenAt(p)'
        /\ register' \in [Places -> Marks \cup {NoMark, Unsure}]
        /\ \A r \in Places \ {p} : register'[r] = register[r]
    <2>1. c.alone /\ register[c.item.place] # Unsure
             => DaysOf(c.item.place)' = {a}
      BY <1>1, <1>6
    <2>2. register' = [register EXCEPT ![c.item.place] =
            IF c.alone /\ @ # Unsure THEN c.item.mark ELSE Unsure]
      BY <1>1, <1>5
    <2>3. /\ TakenAt(c.item.place)'
          /\ register' \in [Places -> Marks \cup {NoMark, Unsure}]
          /\ \A r \in Places \ {c.item.place} : register'[r] = register[r]
      BY <1>2, <1>3, <1>4, <2>1, <2>2, DayTaken
    <2> QED BY <1>1, <2>3
  <1>8. UNCHANGED grades
    BY DEF DaySave
  <1>9. attendance'[a].item.place = p /\ attendance'[a].state # "none"
    BY <1>1, <1>4
  <1> QED BY <1>2, <1>3, <1>4, <1>5, <1>7, <1>8, <1>9, DayOfOnePlace

LEMMA RemoveDayKeeps ==
  ASSUME CourseworkInv, NEW a \in RecordIds, RemoveDay(a)
  PROVE  CourseworkInv'
  <1>1. PICK p : p = attendance[a].item.place
    OBVIOUS
  <1>2. p \in Places
    BY <1>1 DEF CourseworkInv, CourseworkTypeOK, Days, Items
  <1>3. /\ attendance[a].state = "live"
        /\ attendance' = [attendance EXCEPT ![a].state = "removed"]
        /\ workCall' = Outdated(HoldPlace(p))
        /\ register' = [register EXCEPT ![p] =
                          IF @ = Unsure THEN @ ELSE NoMark]
        /\ UNCHANGED grades
    BY <1>1 DEF RemoveDay
  <1>4. /\ attendance' \in [RecordIds -> Days]
        /\ attendance'[a].state = "removed" /\ attendance'[a].item.place = p
        /\ \A r \in RecordIds \ {a} : attendance'[r] = attendance[r]
    BY <1>1, <1>3 DEF CourseworkInv, CourseworkTypeOK, Days, RecordStates
  <1>5. /\ workCall' \in [WorkCalls -> WorkHandlers]
        /\ GoOn(WorkCalls, HoldPlace(p))
    BY <1>3, OutdatedMeans
  <1>6. /\ register' \in [Places -> Marks \cup {NoMark, Unsure}]
        /\ register'[p] = IF register[p] = Unsure THEN Unsure ELSE NoMark
        /\ \A r \in Places \ {p} : register'[r] = register[r]
    BY <1>2, <1>3 DEF CourseworkInv, CourseworkTypeOK
  <1>7. ASSUME register[p] # Unsure PROVE DaysOf(p)' = {}
    <2>1. a \in DaysOf(p)
      BY <1>1, <1>3 DEF DaysOf, LiveIn
    <2>2. register[p] \in Marks \cup {NoMark, Unsure}
      BY <1>2 DEF CourseworkInv, CourseworkTypeOK
    <2>3. DaysOf(p) = {a}
      BY <1>2, <1>7, <2>1, <2>2, CourseworkAssumption
         DEF CourseworkInv, RegisterAsTaken
    <2> QED BY <1>4, <2>3 DEF DaysOf, LiveIn
  <1>8. TakenAt(p)'
    BY <1>6, <1>7, CourseworkAssumption DEF TakenAt
  <1> QED BY <1>1, <1>2, <1>3, <1>4, <1>5, <1>6, <1>8, DayOfOnePlace

-----------------------------------------------------------------------------
(***************************************************************************)
(* The invariant, and the theorems.                                        *)
(***************************************************************************)
LEMMA CourseworkInitKeeps == ASSUME CourseworkInit PROVE CourseworkInv
  <1>1. NoRecord \in Records /\ NoScore \in Scores /\ NoDay \in Days
    BY CourseworkAssumption, IdleWorkMeans
       DEF NoRecord, Records, RecordStates, Scores, NoScore, NoDay, Days
  <1>2. CourseworkTypeOK
    BY <1>1, IdleWorkMeans DEF CourseworkInit, CourseworkTypeOK
  <1>3. /\ LiveIn(submission) = {} /\ LiveIn(performance) = {}
        /\ LiveIn(attendance) = {}
    BY DEF CourseworkInit, LiveIn, NoRecord, NoDay
  <1>4. OneOfEach /\ GradesAgree
    BY <1>3 DEF OneOfEach, One, GradesAgree, CourseworkInit
  <1>5. RegisterAsTaken
    BY <1>3, CourseworkAssumption DEF RegisterAsTaken, DaysOf, CourseworkInit
  <1>6. \A h \in WorkCalls : WorkInv(workCall[h])
    BY IdleWorkMeans, NothingHeld DEF CourseworkInit
  <1> QED BY <1>2, <1>4, <1>5, <1>6 DEF CourseworkInv

LEMMA CourseworkNextKeeps ==
  ASSUME CourseworkInv, [CourseworkNext]_courseworkVars
  PROVE  CourseworkInv'
  <1>1. CASE UNCHANGED courseworkVars
    <2>1. UNCHANGED <<submission, performance, attendance, workCall, doubled,
                      agreed, register>>
      BY <1>1 DEF courseworkVars, grades, day
    <2> QED BY <2>1
            DEF CourseworkInv, CourseworkTypeOK, OneOfEach, One, GradesAgree,
                RegisterAsTaken, WorkInv, FoundInv, HeldGrade, HeldRecord,
                HeldDay, Shown, DaysOf, LiveIn
  <1>2. ASSUME NEW r \in RecordIds,
               RemoveSubmission(r) \/ RemoveRecord(r) \/ RemoveDay(r)
        PROVE  CourseworkInv'
    BY <1>2, RemoveSubmissionKeeps, RemoveRecordKeeps, RemoveDayKeeps
  <1>3. ASSUME NEW h \in WorkCalls, CourseworkStep(h) PROVE CourseworkInv'
    <2>1. CASE SubmitInsert(h) \/ FindSubmission(h) \/ UpdateSaveSubmission(h)
               \/ GradeSave(h) \/ GradeRelations(h)
      BY <2>1, SubmitInsertKeeps, FindSubmissionKeeps,
         UpdateSaveSubmissionKeeps, GradeSaveKeeps, GradeRelationsKeeps
    <2>2. CASE RecordCheck(h) \/ RecordFind(h) \/ RecordInsert(h)
               \/ RecordSave(h)
      BY <2>2, RecordCheckKeeps, RecordFindKeeps, RecordInsertKeeps,
         RecordSaveKeeps
    <2>3. CASE DayCheck(h) \/ DayFind(h) \/ DayInsert(h) \/ DaySave(h)
               \/ WorkCallFails(h)
      BY <2>3, DayCheckKeeps, DayFindKeeps, DayInsertKeeps, DaySaveKeeps,
         WorkCallFailsKeeps
    <2> QED BY <1>3, <2>1, <2>2, <2>3, StartsKeep DEF CourseworkStep
  <1> QED BY <1>1, <1>2, <1>3 DEF CourseworkNext

(***************************************************************************)
(* The inductive invariant: what handlers hold between their round trips,  *)
(* with the properties themselves.                                         *)
(***************************************************************************)
THEOREM CourseworkInvariance == CourseworkSpec => []CourseworkInv
  <1>1. CourseworkInit => CourseworkInv
    BY CourseworkInitKeeps
  <1>2. CourseworkInv /\ [CourseworkNext]_courseworkVars => CourseworkInv'
    BY CourseworkNextKeeps
  <1> QED BY <1>1, <1>2, PTL DEF CourseworkSpec

\* The three tables, the requests and the histories keep their types.
THEOREM CourseworkTypes == CourseworkSpec => []CourseworkTypeOK
  <1>1. CourseworkInv => CourseworkTypeOK
    BY DEF CourseworkInv
  <1> QED BY <1>1, CourseworkInvariance, PTL

LEMMA OneIsAtMostOne ==
  ASSUME NEW table, One(table)
  PROVE  Cardinality(LiveIn(table)) <= 1
  <1>1. CASE LiveIn(table) = {}
    BY <1>1, FS_EmptySet
  <1>2. CASE LiveIn(table) # {}
    <2>1. PICK r : LiveIn(table) = {r}
      BY <1>2 DEF One
    <2>2. Cardinality({r}) = 1
      BY FS_Singleton
    <2>3. Cardinality(LiveIn(table)) = 1
      BY <2>1, <2>2, Zenon
    <2> QED BY <2>3
  <1> QED BY <1>1, <1>2

(***************************************************************************)
(* However submissions and performance records are made, graded and        *)
(* removed, only requests that overlapped on the table make a second one   *)
(* (submissions.service.ts, performance.service.ts: no unique key).        *)
(***************************************************************************)
THEOREM OneRecord == CourseworkSpec => []OneRecordEach
  <1>1. CourseworkInv => OneRecordEach
    BY OneIsAtMostOne DEF CourseworkInv, OneOfEach, OneRecordEach
  <1> QED BY <1>1, CourseworkInvariance, PTL

(***************************************************************************)
(* A grading that has been recorded shows in both tables, until staff      *)
(* change or remove one of the two rows.                                   *)
(***************************************************************************)
THEOREM GradesAgreed == CourseworkSpec => []GradesAgree
  <1>1. CourseworkInv => GradesAgree
    BY DEF CourseworkInv
  <1> QED BY <1>1, CourseworkInvariance, PTL

(***************************************************************************)
(* The day's rows show each student of each class once, with the mark that *)
(* was given last, unless requests overlapped for the two.                 *)
(***************************************************************************)
THEOREM RegisterTaken == CourseworkSpec => []RegisterAsTaken
  <1>1. CourseworkInv => RegisterAsTaken
    BY DEF CourseworkInv
  <1> QED BY <1>1, CourseworkInvariance, PTL

-----------------------------------------------------------------------------
(***************************************************************************)
(* Zoom: the connection, and the meetings made through it.                 *)
(***************************************************************************)
StoringPCs == {"storeFind", "storeSave"}
JoinPCs == {"joinList", "joinFind", "joinSave"}
ToRecord == {h \in ZoomCalls : ZoomAt(h, "record")}
RecordedMeetings == {m \in MeetingIds : Recorded(m)}

\* Of two that carry the connection each knows that it is not alone.
ApartInv ==
    \A g, h \in ZoomCalls :
        InConnection(g) /\ InConnection(h) /\ g # h => ~zoomCall[h].alone

\* What a handler carries of the connection: if it is alone, the token that
\* Zoom takes, and the row that is the active one.
CredInv(z) ==
    /\ z.pc = "updateSave" => z.cred \in CredentialIds
    /\ z.pc \in StoringPCs /\ z.alone => z.token = grant
    /\ (~blurred /\ z.alone) =>
          /\ z.pc = "insertCredentials" => ActiveRows = {}
          /\ z.pc = "storeSave" => ActiveRows \subseteq {z.cred}
          /\ z.pc = "updateSave" =>
                ActiveRows \subseteq {z.cred} /\ z.token \in {NoToken, grant}

TokenInv ==
    /\ StoredTokenIsCurrent
    /\ ~blurred => \A c, d \in ActiveRows : c = d

\* A handler that brings no disconnected teacher back.
Gone == disconnected /\ ~revived
GoneInv(z) ==
    /\ z.pc \notin {"updateFind", "updateSave", "refreshCall"}
    /\ z.pc \in StoringPCs => z.then # "post"

ConnectionInv ==
    /\ ApartInv
    /\ \A h \in ZoomCalls : CredInv(zoomCall[h])
    /\ TokenInv
    /\ Gone => ActiveRows = {} /\ \A h \in ZoomCalls : GoneInv(zoomCall[h])

\* The meetings to be recorded are at Zoom, not recorded, and each another.
MadeInv ==
    /\ IsFiniteSet(ToRecord)
    /\ EveryMeetingIsRecorded
    /\ \A m \in RecordedMeetings : m <= onZoom
    /\ \A h \in ToRecord :
          zoomCall[h].meeting \in (1..onZoom) \ RecordedMeetings
    /\ \A g, h \in ToRecord :
          zoomCall[g].meeting = zoomCall[h].meeting => g = h

\* A join that nobody overtook has read the meeting as it is.
JoinInv(z) ==
    /\ z.pc \in JoinPCs => /\ z.meeting \in RecordedMeetings
                           /\ z.row.status # "none"
    /\ z.alone =>
       /\ z.pc \in {"joinFind", "joinSave"} =>
            z.row.participants = meeting[z.meeting].participants
       /\ z.pc = "joinSave" => z.row.status = meeting[z.meeting].status

MeetingsInv ==
    /\ MadeInv
    /\ \A h \in ZoomCalls : JoinInv(zoomCall[h])
    /\ MeetingAsAsked

ZoomInv == ZoomTypeOK /\ ConnectionInv /\ MeetingsInv

-----------------------------------------------------------------------------
(***************************************************************************)
(* Handlers.                                                               *)
(***************************************************************************)
LEMMA IdleZoomMeans ==
  /\ IdleZoom \in ZoomHandlers
  /\ IdleZoom.pc = "idle" /\ IdleZoom.then = "idle" /\ IdleZoom.alone
  <1>1. NoMeeting \in MeetingRows
    BY DEF NoMeeting, MeetingRows
  <1>2. 0 \in 0..MaxCredential /\ NoToken \in 0..MaxToken /\ 0 \in 0..MaxMeeting
    BY ZoomAssumption DEF NoToken
  <1> QED BY <1>1, <1>2 DEF IdleZoom, ZoomHandlers, ZoomPCs

LEMMA ZoomFields ==
  ASSUME ZoomInv, NEW h \in ZoomCalls, NEW z, z = zoomCall[h]
  PROVE  /\ z \in ZoomHandlers /\ CredInv(z) /\ JoinInv(z)
         /\ Gone => ActiveRows = {} /\ GoneInv(z)
         /\ z.pc \in ZoomPCs /\ z.then \in {"idle", "post"}
         /\ z.cred \in 0..MaxCredential /\ z.token \in 0..MaxToken
         /\ z.meeting \in 0..MaxMeeting /\ z.who \in Joiners \cup {NotANumber}
         /\ z.row \in MeetingRows /\ z.alone \in BOOLEAN
  BY DEF ZoomInv, ZoomTypeOK, ConnectionInv, MeetingsInv, ZoomHandlers

\* Handler h goes on as z; the others do nothing.
ZoomMoves(h, z) ==
    /\ zoomCall' \in [ZoomCalls -> ZoomHandlers]
    /\ zoomCall'[h] = z
    /\ \A q \in ZoomCalls \ {h} : zoomCall'[q] = zoomCall[q]

LEMMA ZoomToMeans ==
  ASSUME ZoomInv, NEW h \in ZoomCalls, NEW z \in ZoomHandlers, ZoomTo(h, z)
  PROVE  ZoomMoves(h, z)
  BY DEF ZoomInv, ZoomTypeOK, ZoomTo, ZoomMoves

LEMMA ZoomEndsMeans ==
  ASSUME ZoomInv, NEW h \in ZoomCalls, ZoomEnds(h)
  PROVE  ZoomMoves(h, IdleZoom)
  BY ZoomToMeans, IdleZoomMeans DEF ZoomEnds

\* A handler that begins to carry the connection, and those that do already.
LEMMA EnterMeans ==
  ASSUME ZoomInv, NEW h \in ZoomCalls, NEW z \in ZoomHandlers,
         EnterConnection(h, z)
  PROVE  /\ zoomCall' \in [ZoomCalls -> ZoomHandlers]
         /\ zoomCall'[h] = [z EXCEPT !.alone =
               \A p \in ZoomCalls \ {h} : ~InConnection(p)]
         /\ \A q \in ZoomCalls \ {h} :
               zoomCall'[q] = IF InConnection(q)
                              THEN [zoomCall[q] EXCEPT !.alone = FALSE]
                              ELSE zoomCall[q]
  <1>1. \A q \in ZoomCalls : zoomCall[q] \in ZoomHandlers
    BY DEF ZoomInv, ZoomTypeOK
  <1>2. /\ \A q \in ZoomCalls : [zoomCall[q] EXCEPT !.alone = FALSE] \in ZoomHandlers
        /\ \A b \in BOOLEAN : [z EXCEPT !.alone = b] \in ZoomHandlers
    BY <1>1 DEF ZoomHandlers
  <1>3. PICK b \in BOOLEAN : b = \A p \in ZoomCalls \ {h} : ~InConnection(p)
    OBVIOUS
  <1>4. [z EXCEPT !.alone = \A p \in ZoomCalls \ {h} : ~InConnection(p)]
           = [z EXCEPT !.alone = b]
    BY <1>3
  <1> QED BY <1>1, <1>2, <1>4 DEF EnterConnection

-----------------------------------------------------------------------------
(***************************************************************************)
(* A step that leaves one half of the state alone.                         *)
(***************************************************************************)

\* No meeting is written, and no handler of meetings takes part.
MeetingsAside ==
    \A q \in ZoomCalls :
        \/ zoomCall'[q] = zoomCall[q]
        \/ /\ zoomCall[q].pc # "record"
           /\ zoomCall'[q].pc \notin JoinPCs \cup {"record"}

LEMMA MeetingsKept ==
  ASSUME ZoomInv, UNCHANGED <<meetings, posted>>, MeetingsAside
  PROVE  MeetingsInv'
  <1>1. UNCHANGED <<meeting, wantedMeeting, overlapped, onZoom, unrecorded>>
    BY DEF meetings, posted
  <1>2. RecordedMeetings' = RecordedMeetings
    BY <1>1 DEF RecordedMeetings, Recorded
  <1>3. /\ ToRecord' = ToRecord
        /\ \A q \in ToRecord : zoomCall'[q] = zoomCall[q]
    BY DEF MeetingsAside, ToRecord, ZoomAt
  <1>4. MadeInv'
    BY <1>1, <1>2, <1>3
       DEF ZoomInv, MeetingsInv, MadeInv, EveryMeetingIsRecorded, ToRecord,
           RecordedMeetings
  <1>5. MeetingAsAsked'
    BY <1>1 DEF ZoomInv, MeetingsInv, MeetingAsAsked
  <1>6. ASSUME NEW q \in ZoomCalls PROVE JoinInv(zoomCall[q])'
    <2>1. PICK z : z = zoomCall'[q]
      OBVIOUS
    <2>2. \/ JoinInv(z)
          \/ z.pc \notin JoinPCs
      BY <2>1 DEF MeetingsAside, ZoomInv, MeetingsInv
    <2>3. JoinInv(z)'
      BY <1>1, <1>2, <2>2 DEF JoinInv, JoinPCs
    <2> QED BY <2>1, <2>3 DEF JoinInv
  <1> QED BY <1>4, <1>5, <1>6 DEF MeetingsInv

LEMMA ConnectionStep ==
  ASSUME ZoomInv, UNCHANGED <<meetings, posted>>, MeetingsAside,
         zoomCall' \in [ZoomCalls -> ZoomHandlers],
         credential' \in [CredentialIds -> CredentialRows],
         grant' \in 0..MaxToken, blurred' \in BOOLEAN,
         disconnected' \in BOOLEAN, revived' \in BOOLEAN, ConnectionInv'
  PROVE  ZoomInv'
  <1>1. MeetingsInv'
    BY MeetingsKept
  <1>2. ZoomTypeOK'
    BY DEF ZoomInv, ZoomTypeOK, meetings, posted
  <1> QED BY <1>1, <1>2 DEF ZoomInv

\* The connection is not written, and its handlers take no part.
LEMMA ConnectionKept ==
  ASSUME ZoomInv, UNCHANGED connection,
         \A q \in ZoomCalls :
            \/ zoomCall'[q] = zoomCall[q]
            \/ /\ zoomCall[q].pc \notin StoringPCs
               /\ zoomCall'[q].pc \notin ConnectionPCs
  PROVE  ConnectionInv'
  <1>1. UNCHANGED <<credential, grant, blurred, disconnected, revived>>
    BY DEF connection
  <1>2. ApartInv'
    BY DEF ZoomInv, ConnectionInv, ApartInv, InConnection
  <1>3. ActiveRows' = ActiveRows
    BY <1>1 DEF ActiveRows
  <1>4. \A q \in ZoomCalls : zoomCall[q].pc \in StoringPCs =>
                                zoomCall'[q].pc \in StoringPCs
    OBVIOUS
  <1>5. TokenInv'
    BY <1>1, <1>3, <1>4
       DEF ZoomInv, ConnectionInv, TokenInv, StoredTokenIsCurrent, StoringPCs
  <1>6. ASSUME NEW q \in ZoomCalls
        PROVE  CredInv(zoomCall[q])' /\ (Gone => GoneInv(zoomCall[q]))'
    <2>1. PICK z : z = zoomCall'[q]
      OBVIOUS
    <2>2. \/ CredInv(z) /\ (Gone => GoneInv(z))
          \/ z.pc \notin ConnectionPCs
      BY <2>1 DEF ZoomInv, ConnectionInv
    <2>3. CredInv(z)' /\ (Gone => GoneInv(z))'
      BY <1>1, <1>3, <2>2 DEF CredInv, GoneInv, Gone, ConnectionPCs, StoringPCs
    <2> QED BY <2>1, <2>3 DEF CredInv, GoneInv
  <1>7. Gone' => ActiveRows' = {}
    BY <1>1, <1>3 DEF ZoomInv, ConnectionInv, Gone
  <1> QED BY <1>2, <1>5, <1>6, <1>7 DEF ConnectionInv
-----------------------------------------------------------------------------
(***************************************************************************)
(* The ways a handler carries the connection.                              *)
(***************************************************************************)

\* It goes on carrying it, and nothing is written.
LEMMA CarriesOn ==
  ASSUME ZoomInv, NEW h \in ZoomCalls, NEW z \in ZoomHandlers, ZoomTo(h, z),
         UNCHANGED <<connection, meetings, posted>>,
         InConnection(h), z.pc \in ConnectionPCs, z.alone = zoomCall[h].alone,
         zoomCall[h].pc \in StoringPCs => z.pc \in StoringPCs,
         CredInv(z), Gone => GoneInv(z)
  PROVE  ZoomInv'
  <1>1. ZoomMoves(h, z)
    BY ZoomToMeans
  <1>2. /\ UNCHANGED <<credential, grant, blurred, disconnected, revived>>
        /\ ActiveRows' = ActiveRows
    BY DEF connection, ActiveRows
  <1>3. ApartInv'
    BY <1>1 DEF ZoomInv, ConnectionInv, ApartInv, InConnection, ZoomMoves
  <1>4. TokenInv'
    BY <1>1, <1>2
       DEF ZoomInv, ConnectionInv, TokenInv, StoredTokenIsCurrent, StoringPCs,
           ZoomMoves
  <1>5. ASSUME NEW q \in ZoomCalls
        PROVE  CredInv(zoomCall[q])' /\ (Gone => GoneInv(zoomCall[q]))'
    <2>1. PICK y : y = zoomCall'[q]
      OBVIOUS
    <2>2. CredInv(y) /\ (Gone => GoneInv(y))
      BY <1>1, <2>1 DEF ZoomInv, ConnectionInv, ZoomMoves
    <2>3. CredInv(y)' /\ (Gone => GoneInv(y))'
      BY <1>2, <2>2 DEF CredInv, GoneInv, Gone
    <2> QED BY <2>1, <2>3 DEF CredInv, GoneInv
  <1>6. Gone' => ActiveRows' = {}
    BY <1>2 DEF ZoomInv, ConnectionInv, Gone
  <1>7. ConnectionInv'
    BY <1>3, <1>4, <1>5, <1>6 DEF ConnectionInv
  <1>8. MeetingsAside
    BY <1>1 DEF MeetingsAside, ZoomMoves, InConnection, ConnectionPCs, JoinPCs
  <1> QED BY <1>1, <1>2, <1>7, <1>8, ConnectionStep
          DEF ZoomMoves, ZoomInv, ZoomTypeOK

\* It begins to carry it, with new tokens or without.
LEMMA Enters ==
  ASSUME ZoomInv, NEW h \in ZoomCalls, NEW z \in ZoomHandlers,
         EnterConnection(h, z), ~InConnection(h), z.pc \in ConnectionPCs,
         zoomCall[h].pc # "record",
         UNCHANGED <<credential, blurred, disconnected, revived>>,
         UNCHANGED <<meetings, posted>>,
         z.pc = "insertCredentials" => ActiveRows = {},
         z.pc \notin {"storeSave", "updateSave"},
         \/ UNCHANGED grant
         \/ z.pc = "storeFind" /\ z.token = grant' /\ grant' \in 0..MaxToken,
         z.pc \notin {"storeFind"} \/ z.token = grant',
         Gone => GoneInv(z)
  PROVE  ZoomInv'
  <1>1. /\ zoomCall' \in [ZoomCalls -> ZoomHandlers]
        /\ zoomCall'[h] = [z EXCEPT !.alone =
              \A p \in ZoomCalls \ {h} : ~InConnection(p)]
        /\ \A q \in ZoomCalls \ {h} :
              zoomCall'[q] = IF InConnection(q)
                             THEN [zoomCall[q] EXCEPT !.alone = FALSE]
                             ELSE zoomCall[q]
    BY EnterMeans
  <1>2. PICK y : y = zoomCall'[h]
    OBVIOUS
  <1>3. /\ y.pc = z.pc /\ y.token = z.token /\ y.then = z.then
        /\ y.cred = z.cred
        /\ y.alone => \A p \in ZoomCalls \ {h} : ~InConnection(p)
    BY <1>1, <1>2 DEF ZoomHandlers
  <1>4. ASSUME NEW q \in ZoomCalls \ {h}
        PROVE  /\ zoomCall'[q].pc = zoomCall[q].pc
               /\ zoomCall'[q].then = zoomCall[q].then
               /\ zoomCall'[q].cred = zoomCall[q].cred
               /\ InConnection(q) => ~zoomCall'[q].alone
               /\ ~InConnection(q) => zoomCall'[q] = zoomCall[q]
    <2>1. PICK x : x = zoomCall[q]
      OBVIOUS
    <2>2. x \in ZoomHandlers /\ zoomCall'[q] \in ZoomHandlers
      BY <1>1, <2>1 DEF ZoomInv, ZoomTypeOK
    <2>3. CASE InConnection(q)
      <3>1. zoomCall'[q] = [x EXCEPT !.alone = FALSE]
        BY <1>1, <2>1, <2>3
      <3> QED BY <2>1, <2>2, <2>3, <3>1 DEF ZoomHandlers
    <2>4. CASE ~InConnection(q)
      BY <1>1, <2>4
    <2> QED BY <2>3, <2>4
  <1>5. ActiveRows' = ActiveRows
    BY DEF ActiveRows
  <1>6. ApartInv'
    BY <1>2, <1>3, <1>4 DEF ApartInv, InConnection
  <1>7. TokenInv'
    <2>1. \A q \in ZoomCalls : zoomCall[q].pc \in StoringPCs =>
                                  zoomCall'[q].pc \in StoringPCs
      BY <1>4 DEF InConnection, StoringPCs, ConnectionPCs
    <2>2. \/ UNCHANGED grant
          \/ zoomCall'[h].pc \in StoringPCs
      BY <1>2, <1>3 DEF StoringPCs
    <2> QED BY <1>5, <2>1, <2>2
            DEF ZoomInv, ConnectionInv, TokenInv, StoredTokenIsCurrent,
                StoringPCs
  <1>8. ASSUME NEW q \in ZoomCalls
        PROVE  CredInv(zoomCall[q])' /\ (Gone => GoneInv(zoomCall[q]))'
    <2>1. CASE q = h
      <3>1. CredInv(y)'
        BY <1>3, <1>5 DEF CredInv, StoringPCs
      <3>2. (Gone => GoneInv(y))'
        BY <1>3 DEF Gone, GoneInv
      <3> QED BY <1>2, <2>1, <3>1, <3>2 DEF CredInv, GoneInv
    <2>2. CASE q # h
      <3>1. PICK x, w : x = zoomCall'[q] /\ w = zoomCall[q]
        OBVIOUS
      <3>2. /\ x.pc = w.pc /\ x.then = w.then /\ x.cred = w.cred
            /\ x.pc \in ConnectionPCs => ~x.alone
            /\ CredInv(w) /\ (Gone => GoneInv(w))
        BY <1>4, <2>2, <3>1 DEF InConnection, ZoomInv, ConnectionInv
      <3>3. CredInv(x)'
        BY <3>2 DEF CredInv, StoringPCs, ConnectionPCs
      <3>4. (Gone => GoneInv(x))'
        BY <3>2 DEF Gone, GoneInv
      <3> QED BY <3>1, <3>3, <3>4 DEF CredInv, GoneInv
    <2> QED BY <2>1, <2>2
  <1>9. Gone' => ActiveRows' = {}
    BY <1>5 DEF ZoomInv, ConnectionInv, Gone
  <1>10. ConnectionInv'
    BY <1>6, <1>7, <1>8, <1>9 DEF ConnectionInv
  <1>11. MeetingsAside
    <2>1. y.pc \notin JoinPCs \cup {"record"}
      BY <1>3 DEF ConnectionPCs, JoinPCs
    <2>2. \A q \in ZoomCalls \ {h} :
             \/ zoomCall'[q] = zoomCall[q]
             \/ zoomCall'[q].pc = zoomCall[q].pc
                /\ zoomCall[q].pc \in ConnectionPCs
      BY <1>4 DEF InConnection
    <2> QED BY <1>2, <2>1, <2>2 DEF MeetingsAside, ConnectionPCs, JoinPCs
  <1>12. grant' \in 0..MaxToken
    BY DEF ZoomInv, ZoomTypeOK
  <1> QED BY <1>1, <1>10, <1>11, <1>12, ConnectionStep DEF ZoomInv, ZoomTypeOK

\* It writes, and carries it no longer.
LEMMA Writes ==
  ASSUME ZoomInv, NEW h \in ZoomCalls, NEW z \in ZoomHandlers, ZoomTo(h, z),
         InConnection(h), z.pc \in {"idle", "post"},
         blurred' = (blurred \/ ~zoomCall[h].alone),
         credential' \in [CredentialIds -> CredentialRows],
         disconnected' \in BOOLEAN, ~(disconnected' /\ ~revived),
         UNCHANGED <<grant, revived, meetings, posted>>,
         ~blurred' => /\ \A c, d \in ActiveRows' : c = d
                      /\ \A c \in ActiveRows' :
                            credential'[c].token \in {NoToken, grant}
  PROVE  ZoomInv'
  <1>1. ZoomMoves(h, z)
    BY ZoomToMeans
  <1>2. ApartInv'
    BY <1>1 DEF ZoomInv, ConnectionInv, ApartInv, InConnection, ZoomMoves,
                ConnectionPCs
  <1>3. TokenInv'
    BY DEF TokenInv, StoredTokenIsCurrent
  <1>4. ASSUME NEW q \in ZoomCalls PROVE CredInv(zoomCall[q])'
    <2>1. CASE q = h
      <3>1. CredInv(z)'
        BY DEF CredInv, StoringPCs
      <3> QED BY <1>1, <2>1, <3>1 DEF ZoomMoves, CredInv
    <2>2. CASE q # h
      <3>1. PICK y : y = zoomCall[q]
        OBVIOUS
      <3>2. zoomCall'[q] = y
        BY <1>1, <2>2, <3>1 DEF ZoomMoves
      <3>3. CredInv(y)
        BY <3>1 DEF ZoomInv, ConnectionInv
      <3>4. ~blurred' => y.pc \notin ConnectionPCs
        BY <2>2, <3>1 DEF ZoomInv, ConnectionInv, ApartInv, InConnection
      <3>5. CredInv(y)'
        BY <3>3, <3>4 DEF CredInv, ConnectionPCs, StoringPCs
      <3> QED BY <3>2, <3>5 DEF CredInv
    <2> QED BY <2>1, <2>2
  <1>5. ConnectionInv'
    BY <1>2, <1>3, <1>4 DEF ConnectionInv, Gone
  <1>6. MeetingsAside
    BY <1>1 DEF MeetingsAside, ZoomMoves, InConnection, ConnectionPCs, JoinPCs
  <1>7. blurred' \in BOOLEAN
    BY DEF ZoomInv, ZoomTypeOK
  <1> QED BY <1>1, <1>5, <1>6, <1>7, ConnectionStep
          DEF ZoomMoves, ZoomInv, ZoomTypeOK

\* A handler that is elsewhere before and after, or that ends.
LEMMA StaysOut ==
  ASSUME ZoomInv, NEW h \in ZoomCalls, NEW z \in ZoomHandlers, ZoomTo(h, z),
         UNCHANGED <<connection, meetings, posted>>,
         zoomCall[h].pc \notin StoringPCs \cup {"record"},
         z.pc \notin ConnectionPCs \cup JoinPCs \cup {"record"}
  PROVE  ZoomInv'
  <1>1. ZoomMoves(h, z)
    BY ZoomToMeans
  <1>2. ConnectionInv'
    BY <1>1, ConnectionKept DEF ZoomMoves
  <1>3. MeetingsAside
    BY <1>1 DEF MeetingsAside, ZoomMoves
  <1> QED BY <1>1, <1>2, <1>3, ConnectionStep
          DEF ZoomMoves, ZoomInv, ZoomTypeOK, connection
-----------------------------------------------------------------------------
(***************************************************************************)
(* The steps on the connection.                                            *)
(***************************************************************************)
LEMMA AloneInConnection ==
  ASSUME ZoomInv, NEW h \in ZoomCalls, InConnection(h), zoomCall[h].alone
  PROVE  \A q \in ZoomCalls \ {h} : ~InConnection(q)
  BY DEF ZoomInv, ConnectionInv, ApartInv

LEMMA ActiveRowFacts ==
  ASSUME ZoomInv, NEW c \in ActiveRows
  PROVE  /\ c \in CredentialIds /\ c \in 0..MaxCredential
         /\ credential[c] \in CredentialRows
         /\ credential[c].token \in 0..MaxToken
         /\ ~Gone
  BY ZoomAssumption
     DEF ZoomInv, ZoomTypeOK, ConnectionInv, ActiveRows, CredentialIds,
         CredentialRows

LEMMA ConnectionStarts ==
  ASSUME ZoomInv, NEW h \in ZoomCalls,
         \/ StartCreateCredentials(h)
         \/ \E secret, active \in BOOLEAN :
               StartUpdateCredentials(h, secret, active)
         \/ StartExchange(h)
  PROVE  ZoomInv'
  <1>1. CASE StartCreateCredentials(h)
    <2>1. PICK z : z = [IdleZoom EXCEPT !.pc = "insertCredentials"]
      OBVIOUS
    <2>2. z \in ZoomHandlers /\ z.pc = "insertCredentials"
      BY <2>1, IdleZoomMeans DEF ZoomHandlers, ZoomPCs
    <2>3. /\ EnterConnection(h, z) /\ ActiveRows = {}
          /\ zoomCall[h].pc = "idle"
          /\ UNCHANGED <<connection, meetings, posted>>
      BY <1>1, <2>1 DEF StartCreateCredentials, ZoomAt
    <2> QED BY <2>2, <2>3, Enters
            DEF connection, InConnection, ConnectionPCs, GoneInv, StoringPCs
  <1>2. ASSUME NEW secret \in BOOLEAN, NEW active \in BOOLEAN,
               StartUpdateCredentials(h, secret, active)
        PROVE  ZoomInv'
    <2>1. PICK z : z = [IdleZoom EXCEPT !.pc = "updateFind",
                          !.secret = secret, !.active = active]
      OBVIOUS
    <2>2. z \in ZoomHandlers /\ z.pc = "updateFind"
      BY <2>1, IdleZoomMeans DEF ZoomHandlers, ZoomPCs
    <2>3. /\ EnterConnection(h, z) /\ ActiveRows # {}
          /\ zoomCall[h].pc = "idle"
          /\ UNCHANGED <<connection, meetings, posted>>
      BY <1>2, <2>1 DEF StartUpdateCredentials, ZoomAt
    <2>4. ~Gone
      BY <2>3, ActiveRowFacts
    <2> QED BY <2>2, <2>3, <2>4, Enters
            DEF connection, InConnection, ConnectionPCs
  <1>3. CASE StartExchange(h)
    <2>1. PICK z : z = [IdleZoom EXCEPT !.pc = "storeFind", !.token = grant']
      OBVIOUS
    <2>2. grant' \in 0..MaxToken
      BY <1>3, ZoomAssumption
         DEF StartExchange, FreshToken, ZoomInv, ZoomTypeOK
    <2>3. /\ z \in ZoomHandlers /\ z.pc = "storeFind" /\ z.then = "idle"
          /\ z.token = grant'
      BY <2>1, <2>2, IdleZoomMeans DEF ZoomHandlers, ZoomPCs
    <2>4. /\ EnterConnection(h, z) /\ zoomCall[h].pc = "idle"
          /\ UNCHANGED <<credential, blurred, disconnected, revived>>
          /\ UNCHANGED <<meetings, posted>>
      BY <1>3, <2>1 DEF StartExchange, ZoomAt
    <2> QED BY <2>2, <2>3, <2>4, Enters
            DEF InConnection, ConnectionPCs, GoneInv
  <1> QED BY <1>1, <1>2, <1>3

\* A new row of credentials is at the next free id.
LEMMA CredentialInserted ==
  ASSUME ZoomInv, NEW token \in 0..MaxToken,
         InsertCredential([state |-> "active", token |-> token])
  PROVE  /\ credential' \in [CredentialIds -> CredentialRows]
         /\ \E c \in CredentialIds :
               /\ ActiveRows' = ActiveRows \cup {c}
               /\ credential'[c].token = token
  <1>1. PICK c \in CredentialIds :
           credential' = [credential EXCEPT ![c] =
                            [state |-> "active", token |-> token]]
    BY DEF InsertCredential
  <1>2. /\ credential' \in [CredentialIds -> CredentialRows]
        /\ credential'[c] = [state |-> "active", token |-> token]
        /\ \A d \in CredentialIds \ {c} : credential'[d] = credential[d]
    BY <1>1 DEF ZoomInv, ZoomTypeOK, CredentialRows
  <1>3. ActiveRows' = ActiveRows \cup {c}
    BY <1>2 DEF ActiveRows
  <1> QED BY <1>2, <1>3

LEMMA CreateCredentialsKeeps ==
  ASSUME ZoomInv, NEW h \in ZoomCalls, CreateCredentials(h)
  PROVE  ZoomInv'
  <1>1. PICK z : z = zoomCall[h]
    OBVIOUS
  <1>2. z.pc = "insertCredentials" /\ CredInv(z) /\ z.alone \in BOOLEAN
    BY <1>1, ZoomFields DEF CreateCredentials, ZoomAt
  <1>3. /\ blurred' = (blurred \/ ~z.alone) /\ disconnected' = FALSE
        /\ ZoomTo(h, IdleZoom)
        /\ UNCHANGED <<grant, revived, meetings, posted>>
        /\ InsertCredential([state |-> "active", token |-> NoToken])
    BY <1>1 DEF CreateCredentials, ZoomEnds
  <1>4. NoToken \in 0..MaxToken
    BY ZoomAssumption DEF NoToken
  <1>5. /\ credential' \in [CredentialIds -> CredentialRows]
        /\ \E c \in CredentialIds : /\ ActiveRows' = ActiveRows \cup {c}
                                    /\ credential'[c].token = NoToken
    BY <1>3, <1>4, CredentialInserted
  <1>6. ~blurred' => ActiveRows = {}
    BY <1>2, <1>3 DEF CredInv
  <1>7. InConnection(h)
    BY <1>1, <1>2 DEF InConnection, ConnectionPCs
  <1> QED BY <1>1, <1>3, <1>5, <1>6, <1>7, IdleZoomMeans, Writes

LEMMA UpdateFindKeeps ==
  ASSUME ZoomInv, NEW h \in ZoomCalls, UpdateFind(h)
  PROVE  ZoomInv'
  <1>1. PICK z : z = zoomCall[h]
    OBVIOUS
  <1>2. /\ z \in ZoomHandlers /\ z.pc = "updateFind"
        /\ UNCHANGED <<connection, meetings, posted>>
    BY <1>1, ZoomFields DEF UpdateFind, ZoomAt
  <1>3. CASE ZoomEnds(h)
    BY <1>1, <1>2, <1>3, IdleZoomMeans, StaysOut
       DEF ZoomEnds, StoringPCs, ConnectionPCs, JoinPCs
  <1>4. ASSUME NEW c \in ActiveRows, NEW y,
               y = [z EXCEPT !.pc = "updateSave", !.cred = c,
                             !.token = credential[c].token],
               ZoomTo(h, y)
        PROVE  ZoomInv'
    <2>1. /\ c \in CredentialIds /\ c \in 0..MaxCredential
          /\ credential[c].token \in 0..MaxToken /\ ~Gone
      BY ActiveRowFacts
    <2>2. /\ y \in ZoomHandlers /\ y.pc = "updateSave" /\ y.cred = c
          /\ y.token = credential[c].token /\ y.alone = z.alone
      BY <1>2, <1>4, <2>1 DEF ZoomHandlers, ZoomPCs
    <2>3. InConnection(h)
      BY <1>1, <1>2 DEF InConnection, ConnectionPCs
    <2>4. ASSUME ~blurred, z.alone
          PROVE  /\ ActiveRows \subseteq {c}
                 /\ credential[c].token \in {NoToken, grant}
      <3>1. \A q \in ZoomCalls : zoomCall[q].pc \notin StoringPCs
        BY <1>1, <1>2, <2>3, <2>4, AloneInConnection
           DEF InConnection, ConnectionPCs, StoringPCs
      <3> QED BY <2>4, <3>1
              DEF ZoomInv, ConnectionInv, TokenInv, StoredTokenIsCurrent,
                  StoringPCs
    <2>5. CredInv(y)
      BY <2>1, <2>2, <2>4 DEF CredInv, StoringPCs
    <2> QED BY <1>1, <1>2, <1>4, <2>1, <2>2, <2>3, <2>5, CarriesOn
            DEF ConnectionPCs, StoringPCs
  <1> QED BY <1>1, <1>3, <1>4 DEF UpdateFind

LEMMA UpdateSaveKeeps ==
  ASSUME ZoomInv, NEW h \in ZoomCalls, UpdateSave(h)
  PROVE  ZoomInv'
  <1>1. PICK z : z = zoomCall[h]
    OBVIOUS
  <1>2. /\ z \in ZoomHandlers /\ z.pc = "updateSave" /\ CredInv(z) /\ ~Gone
        /\ z.token \in 0..MaxToken /\ NoToken \in 0..MaxToken
        /\ z.cred \in CredentialIds
    BY <1>1, ZoomFields, ZoomAssumption
       DEF UpdateSave, ZoomAt, GoneInv, NoToken, CredInv
  <1>3. PICK row : row =
           [state |-> IF z.active THEN "active" ELSE "inactive",
            token |-> IF z.secret THEN NoToken ELSE z.token]
    OBVIOUS
  <1>4. /\ credential' = [credential EXCEPT ![z.cred] = row]
        /\ blurred' = (blurred \/ ~z.alone) /\ ZoomTo(h, IdleZoom)
        /\ UNCHANGED <<grant, disconnected, revived, meetings, posted>>
    BY <1>1, <1>3 DEF UpdateSave, ZoomEnds
  <1>5. /\ row \in CredentialRows /\ row.token \in {NoToken, z.token}
    BY <1>2, <1>3 DEF CredentialRows
  <1>6. /\ credential' \in [CredentialIds -> CredentialRows]
        /\ credential'[z.cred] = row
        /\ \A d \in CredentialIds \ {z.cred} : credential'[d] = credential[d]
    BY <1>2, <1>4, <1>5 DEF ZoomInv, ZoomTypeOK
  <1>7. ASSUME ~blurred' PROVE /\ ActiveRows' \subseteq {z.cred}
                               /\ row.token \in {NoToken, grant}
    <2>1. ActiveRows \subseteq {z.cred} /\ z.token \in {NoToken, grant}
      BY <1>2, <1>4, <1>7 DEF CredInv
    <2> QED BY <1>5, <1>6, <2>1 DEF ActiveRows
  <1>8. InConnection(h)
    BY <1>1, <1>2 DEF InConnection, ConnectionPCs
  <1>9. disconnected' \in BOOLEAN /\ ~(disconnected' /\ ~revived)
    BY <1>2, <1>4 DEF Gone, ZoomInv, ZoomTypeOK
  <1> QED BY <1>1, <1>4, <1>6, <1>7, <1>8, <1>9, IdleZoomMeans, Writes

LEMMA DeleteCredentialsKeeps ==
  ASSUME ZoomInv, DeleteCredentials
  PROVE  ZoomInv'
  <1>1. /\ credential' = [c \in CredentialIds |->
                        IF c \in ActiveRows
                        THEN [credential[c] EXCEPT !.state = "inactive"]
                        ELSE credential[c]]
        /\ disconnected' = TRUE
        /\ revived' = (revived \/ \E h \in ZoomCalls : InConnection(h))
        /\ UNCHANGED <<grant, blurred, meetings, posted, zoomCall>>
    BY DEF DeleteCredentials
  <1>2. ActiveRows' = {}
    <2>1. \A c \in CredentialIds : credential'[c].state # "active"
      BY <1>1 DEF ActiveRows, ZoomInv, ZoomTypeOK, CredentialRows
    <2> QED BY <2>1 DEF ActiveRows
  <1>3. credential' \in [CredentialIds -> CredentialRows]
    <2>1. \A c \in CredentialIds :
             /\ credential[c] \in CredentialRows
             /\ [credential[c] EXCEPT !.state = "inactive"] \in CredentialRows
      BY DEF ZoomInv, ZoomTypeOK, CredentialRows
    <2> QED BY <1>1, <2>1
  <1>4. ApartInv' /\ TokenInv'
    BY <1>1, <1>2 DEF ZoomInv, ConnectionInv, ApartInv, InConnection, TokenInv,
                      StoredTokenIsCurrent
  <1>5. ASSUME NEW q \in ZoomCalls
        PROVE  CredInv(zoomCall[q])' /\ (Gone => GoneInv(zoomCall[q]))'
    <2>1. PICK z : z = zoomCall[q]
      OBVIOUS
    <2>2. CredInv(z)'
      BY <1>1, <1>2, <2>1 DEF CredInv, ZoomInv, ConnectionInv
    <2>3. (Gone => GoneInv(z))'
      BY <1>1, <2>1 DEF Gone, GoneInv, InConnection, ConnectionPCs, StoringPCs
    <2> QED BY <1>1, <2>1, <2>2, <2>3 DEF CredInv, GoneInv
  <1>6. ConnectionInv'
    BY <1>2, <1>4, <1>5 DEF ConnectionInv
  <1>7. MeetingsAside /\ disconnected' \in BOOLEAN /\ revived' \in BOOLEAN
    BY <1>1 DEF MeetingsAside, ZoomInv, ZoomTypeOK
  <1> QED BY <1>1, <1>3, <1>6, <1>7, ConnectionStep DEF ZoomInv, ZoomTypeOK
-----------------------------------------------------------------------------
(***************************************************************************)
(* The steps on the tokens.                                                *)
(***************************************************************************)
LEMMA ReadRefreshTokenKeeps ==
  ASSUME ZoomInv, NEW h \in ZoomCalls, ReadRefreshToken(h)
  PROVE  ZoomInv'
  <1>1. PICK z : z = zoomCall[h]
    OBVIOUS
  <1>2. /\ z \in ZoomHandlers /\ z.pc = "refreshRead"
        /\ UNCHANGED <<connection, meetings, posted>>
    BY <1>1, ZoomFields DEF ReadRefreshToken, ZoomAt
  <1>3. CASE ZoomEnds(h)
    BY <1>1, <1>2, <1>3, IdleZoomMeans, StaysOut
       DEF ZoomEnds, StoringPCs, ConnectionPCs, JoinPCs
  <1>4. ASSUME NEW c \in ActiveRows, NEW y,
               y = [z EXCEPT !.pc = "refreshCall",
                             !.token = credential[c].token],
               ZoomTo(h, y)
        PROVE  ZoomInv'
    <2>1. credential[c].token \in 0..MaxToken /\ ~Gone
      BY ActiveRowFacts
    <2>2. y \in ZoomHandlers /\ y.pc = "refreshCall" /\ y.alone = z.alone
      BY <1>2, <1>4, <2>1 DEF ZoomHandlers, ZoomPCs
    <2>3. CredInv(y)
      BY <2>2 DEF CredInv, StoringPCs
    <2> QED BY <1>1, <1>2, <1>4, <2>1, <2>2, <2>3, CarriesOn
            DEF InConnection, ConnectionPCs, StoringPCs
  <1> QED BY <1>1, <1>3, <1>4 DEF ReadRefreshToken

\* Others that carry the connection know that they are not alone: a token
\* that is no longer the one Zoom takes is nothing they count on.
LEMMA TokenGiven ==
  ASSUME ZoomInv, NEW h \in ZoomCalls, NEW z \in ZoomHandlers, ZoomTo(h, z),
         FreshToken, zoomCall[h].pc = "refreshCall",
         UNCHANGED <<credential, disconnected, revived, meetings, posted>>,
         \/ /\ z.pc = "storeFind" /\ z.token = grant' /\ UNCHANGED blurred
            /\ z.alone = zoomCall[h].alone
         \/ z.pc = "idle" /\ blurred' = TRUE
  PROVE  ZoomInv'
  <1>1. ZoomMoves(h, z)
    BY ZoomToMeans
  <1>2. grant' \in 0..MaxToken /\ blurred' \in BOOLEAN
    <2>1. grant \in 0..MaxToken /\ blurred \in BOOLEAN
      BY DEF ZoomInv, ZoomTypeOK
    <2>2. grant' \in 0..MaxToken
      BY <2>1, ZoomAssumption DEF FreshToken
    <2>3. blurred' \in BOOLEAN
      BY <2>1
    <2> QED BY <2>2, <2>3
  <1>3. InConnection(h) /\ ~Gone
    BY ZoomFields DEF InConnection, ConnectionPCs, GoneInv
  <1>4. ApartInv'
    BY <1>1, <1>3 DEF ZoomInv, ConnectionInv, ApartInv, InConnection, ZoomMoves,
                      ConnectionPCs
  <1>5. ActiveRows' = ActiveRows
    BY DEF ActiveRows
  <1>6. TokenInv'
    <2>1. blurred' \/ z.pc \in StoringPCs
      BY DEF StoringPCs
    <2> QED BY <1>1, <1>5, <2>1
            DEF ZoomInv, ConnectionInv, TokenInv, StoredTokenIsCurrent,
                StoringPCs, ZoomMoves
  <1>7. ASSUME NEW q \in ZoomCalls PROVE CredInv(zoomCall[q])'
    <2>1. CASE q = h
      <3>1. CredInv(z)'
        BY DEF CredInv, StoringPCs
      <3> QED BY <1>1, <2>1, <3>1 DEF ZoomMoves, CredInv
    <2>2. CASE q # h
      <3>1. PICK y : y = zoomCall[q]
        OBVIOUS
      <3>2. zoomCall'[q] = y
        BY <1>1, <2>2, <3>1 DEF ZoomMoves
      <3>3. CredInv(y) /\ (y.pc \in ConnectionPCs => ~y.alone)
        BY <1>3, <2>2, <3>1 DEF ZoomInv, ConnectionInv, ApartInv, InConnection
      <3>4. CredInv(y)'
        BY <3>3 DEF CredInv, ConnectionPCs, StoringPCs
      <3> QED BY <3>2, <3>4 DEF CredInv
    <2> QED BY <2>1, <2>2
  <1>8. ConnectionInv'
    BY <1>3, <1>4, <1>6, <1>7 DEF ConnectionInv, Gone
  <1>9. MeetingsAside
    BY <1>1 DEF MeetingsAside, ZoomMoves, JoinPCs
  <1> QED BY <1>1, <1>2, <1>8, <1>9, ConnectionStep
          DEF ZoomMoves, ZoomInv, ZoomTypeOK

LEMMA CallRefreshKeeps ==
  ASSUME ZoomInv, NEW h \in ZoomCalls, CallRefresh(h)
  PROVE  ZoomInv'
  <1>1. PICK z : z = zoomCall[h]
    OBVIOUS
  <1>2. /\ z \in ZoomHandlers /\ z.pc = "refreshCall"
        /\ UNCHANGED <<credential, disconnected, revived, meetings, posted>>
    BY <1>1, ZoomFields DEF CallRefresh, ZoomAt
  <1>3. CASE ZoomEnds(h) /\ UNCHANGED <<grant, blurred>>
    BY <1>1, <1>2, <1>3, IdleZoomMeans, StaysOut
       DEF ZoomEnds, StoringPCs, ConnectionPCs, JoinPCs, connection
  <1>4. CASE FreshToken /\ ZoomEnds(h) /\ blurred' = TRUE
    BY <1>1, <1>2, <1>4, IdleZoomMeans, TokenGiven DEF ZoomEnds
  <1>5. CASE /\ FreshToken /\ UNCHANGED blurred
             /\ ZoomTo(h, [z EXCEPT !.pc = "storeFind", !.token = grant'])
    <2>1. PICK y : y = [z EXCEPT !.pc = "storeFind", !.token = grant']
      OBVIOUS
    <2>2. grant' \in 0..MaxToken
      BY <1>5, ZoomAssumption DEF FreshToken, ZoomInv, ZoomTypeOK
    <2>3. /\ y \in ZoomHandlers /\ y.pc = "storeFind" /\ y.alone = z.alone
          /\ y.token = grant'
      BY <1>2, <2>1, <2>2 DEF ZoomHandlers, ZoomPCs
    <2> QED BY <1>1, <1>2, <1>5, <2>1, <2>3, TokenGiven
  <1> QED BY <1>1, <1>3, <1>4, <1>5 DEF CallRefresh

LEMMA StoreFindKeeps ==
  ASSUME ZoomInv, NEW h \in ZoomCalls, StoreFind(h)
  PROVE  ZoomInv'
  <1>1. PICK z : z = zoomCall[h]
    OBVIOUS
  <1>2. /\ z \in ZoomHandlers /\ z.pc = "storeFind" /\ CredInv(z)
        /\ Gone => GoneInv(z)
        /\ UNCHANGED <<connection, meetings, posted>>
    BY <1>1, ZoomFields DEF StoreFind, ZoomAt
  <1>3. PICK c \in 0..MaxCredential :
           /\ ZoomTo(h, [z EXCEPT !.pc = "storeSave", !.cred = c])
           /\ ActiveRows = {} \/ c \in ActiveRows
    <2>1. CASE /\ ActiveRows = {}
               /\ ZoomTo(h, [z EXCEPT !.pc = "storeSave", !.cred = 0])
      <3>1. 0 \in 0..MaxCredential
        BY ZoomAssumption
      <3> QED BY <2>1, <3>1
    <2>2. ASSUME NEW d \in ActiveRows,
                 ZoomTo(h, [z EXCEPT !.pc = "storeSave", !.cred = d])
          PROVE  \E c \in 0..MaxCredential :
                    /\ ZoomTo(h, [z EXCEPT !.pc = "storeSave", !.cred = c])
                    /\ ActiveRows = {} \/ c \in ActiveRows
      <3>1. d \in 0..MaxCredential
        BY ActiveRowFacts
      <3> QED BY <2>2, <3>1
    <2> QED BY <1>1, <2>1, <2>2 DEF StoreFind
  <1>4. PICK y : y = [z EXCEPT !.pc = "storeSave", !.cred = c]
    OBVIOUS
  <1>5. /\ y \in ZoomHandlers /\ y.pc = "storeSave" /\ y.alone = z.alone
        /\ y.cred = c /\ y.token = z.token /\ y.then = z.then
    BY <1>2, <1>3, <1>4 DEF ZoomHandlers, ZoomPCs
  <1>6. ~blurred => ActiveRows \subseteq {c}
    BY <1>3 DEF ZoomInv, ConnectionInv, TokenInv
  <1>7. CredInv(y) /\ (Gone => GoneInv(y))
    BY <1>2, <1>5, <1>6 DEF CredInv, GoneInv, StoringPCs
  <1> QED BY <1>1, <1>2, <1>3, <1>4, <1>5, <1>7, CarriesOn
          DEF InConnection, ConnectionPCs, StoringPCs

LEMMA StoreSaveKeeps ==
  ASSUME ZoomInv, NEW h \in ZoomCalls, StoreSave(h)
  PROVE  ZoomInv'
  <1>1. PICK z, row :
           /\ z = zoomCall[h] /\ row = [state |-> "active", token |-> z.token]
    OBVIOUS
  <1>2. /\ z \in ZoomHandlers /\ z.pc = "storeSave" /\ CredInv(z)
        /\ Gone => GoneInv(z)
        /\ z.token \in 0..MaxToken /\ z.cred \in 0..MaxCredential
    BY <1>1, ZoomFields DEF StoreSave, ZoomAt
  <1>3. /\ IF z.cred = 0 THEN InsertCredential(row)
           ELSE credential' = [credential EXCEPT ![z.cred] = row]
        /\ blurred' = (blurred \/ ~z.alone)
        /\ disconnected' = (disconnected /\ z.then = "post")
        /\ UNCHANGED <<grant, revived, meetings, posted>>
    BY <1>1 DEF StoreSave
  <1>4. PICK y \in ZoomHandlers : ZoomTo(h, y) /\ y.pc \in {"idle", "post"}
    <2>1. CASE z.then = "post"
      <3>1. PICK y : y = [z EXCEPT !.pc = "post", !.cred = 0,
                                   !.token = NoToken, !.alone = TRUE]
        OBVIOUS
      <3>2. y \in ZoomHandlers /\ y.pc = "post"
        <4>1. 0 \in 0..MaxCredential /\ NoToken \in 0..MaxToken
          BY ZoomAssumption DEF NoToken
        <4> QED BY <1>2, <3>1, <4>1 DEF ZoomHandlers, ZoomPCs
      <3> QED BY <1>1, <2>1, <3>1, <3>2 DEF StoreSave, ZoomGoesOn
    <2>2. CASE z.then # "post"
      BY <1>1, <2>2, IdleZoomMeans DEF StoreSave, ZoomGoesOn, ZoomEnds
    <2> QED BY <2>1, <2>2
  <1>5. PICK c \in CredentialIds :
           /\ credential' \in [CredentialIds -> CredentialRows]
           /\ credential'[c].token = z.token
           /\ ActiveRows' \subseteq ActiveRows \cup {c}
           /\ z.cred = 0 \/ c = z.cred
    <2>1. CASE z.cred = 0
      BY <1>1, <1>2, <1>3, <2>1, CredentialInserted
    <2>2. CASE z.cred # 0
      <3>1. z.cred \in CredentialIds
        BY <1>2, <2>2, ZoomAssumption DEF CredentialIds
      <3>2. row \in CredentialRows
        BY <1>1, <1>2 DEF CredentialRows
      <3>3. /\ credential' \in [CredentialIds -> CredentialRows]
            /\ credential'[z.cred] = row
            /\ \A d \in CredentialIds \ {z.cred} :
                  credential'[d] = credential[d]
        BY <1>3, <2>2, <3>1, <3>2 DEF ZoomInv, ZoomTypeOK
      <3> QED BY <1>1, <3>1, <3>3 DEF ActiveRows
    <2> QED BY <2>1, <2>2
  <1>6. ASSUME ~blurred' PROVE ActiveRows' \subseteq {c} /\ z.token = grant
    <2>1. ActiveRows \subseteq {z.cred} /\ z.token = grant
      BY <1>2, <1>3, <1>6 DEF CredInv, StoringPCs
    <2>2. ActiveRows \subseteq {c}
      BY <1>5, <2>1, ZoomAssumption DEF ActiveRows, CredentialIds
    <2> QED BY <1>5, <2>1, <2>2
  <1>7. disconnected' \in BOOLEAN /\ ~(disconnected' /\ ~revived)
    BY <1>2, <1>3 DEF Gone, GoneInv, StoringPCs, ZoomInv, ZoomTypeOK
  <1>8. InConnection(h)
    BY <1>1, <1>2 DEF InConnection, ConnectionPCs
  <1> QED BY <1>1, <1>3, <1>4, <1>5, <1>6, <1>7, <1>8, Writes
-----------------------------------------------------------------------------
(***************************************************************************)
(* Counting meetings.                                                      *)
(***************************************************************************)
LEMMA Counts ==
  ASSUME ZoomInv
  PROVE  /\ IsFiniteSet(RecordedMeetings)
         /\ Cardinality(RecordedMeetings) \in Nat
         /\ IsFiniteSet(ToRecord) /\ Cardinality(ToRecord) \in Nat
         /\ onZoom \in 0..MaxMeeting /\ unrecorded \in 0..MaxMeeting
         /\ onZoom = Cardinality(RecordedMeetings) + unrecorded
                     + Cardinality(ToRecord)
  <1>1. IsFiniteSet(RecordedMeetings)
    <2>1. IsFiniteSet(MeetingIds)
      BY FS_Interval, ZoomAssumption DEF MeetingIds
    <2>2. RecordedMeetings \subseteq MeetingIds
      BY DEF RecordedMeetings
    <2> QED BY <2>1, <2>2, FS_Subset
  <1>2. IsFiniteSet(ToRecord)
    BY DEF ZoomInv, MeetingsInv, MadeInv
  <1>3. Cardinality(RecordedMeetings) \in Nat /\ Cardinality(ToRecord) \in Nat
    BY <1>1, <1>2, FS_CardinalityType
  <1> QED BY <1>1, <1>2, <1>3
          DEF ZoomInv, ZoomTypeOK, MeetingsInv, MadeInv,
              EveryMeetingIsRecorded, RecordedMeetings, ToRecord

\* A step that leaves the connection alone.
LEMMA MeetingsStep ==
  ASSUME ZoomInv, UNCHANGED connection,
         \A q \in ZoomCalls :
            \/ zoomCall'[q] = zoomCall[q]
            \/ /\ zoomCall[q].pc \notin StoringPCs
               /\ zoomCall'[q].pc \notin ConnectionPCs,
         zoomCall' \in [ZoomCalls -> ZoomHandlers],
         meeting' \in [MeetingIds -> MeetingRows],
         wantedMeeting' \in [MeetingIds -> MeetingRows],
         overlapped' \in SUBSET MeetingIds,
         onZoom' \in 0..MaxMeeting, unrecorded' \in Nat, MeetingsInv'
  PROVE  ZoomInv'
  <1>1. ConnectionInv'
    BY ConnectionKept
  <1>2. unrecorded' \in 0..MaxMeeting
    <2>1. IsFiniteSet(RecordedMeetings')
      <3>1. IsFiniteSet(MeetingIds)
        BY FS_Interval, ZoomAssumption DEF MeetingIds
      <3>2. RecordedMeetings' \subseteq MeetingIds
        BY DEF RecordedMeetings
      <3> QED BY <3>1, <3>2, FS_Subset
    <2>2. IsFiniteSet(ToRecord')
      BY DEF MeetingsInv, MadeInv
    <2>3. Cardinality(RecordedMeetings') \in Nat /\ Cardinality(ToRecord') \in Nat
      BY <2>1, <2>2, FS_CardinalityType
    <2>4. onZoom' = Cardinality(RecordedMeetings') + unrecorded'
                    + Cardinality(ToRecord')
      BY DEF MeetingsInv, MadeInv, EveryMeetingIsRecorded, RecordedMeetings,
             ToRecord
    <2> QED BY <2>3, <2>4, ZoomAssumption
  <1>3. ZoomTypeOK'
    BY <1>2 DEF ZoomInv, ZoomTypeOK, connection
  <1> QED BY <1>1, <1>3 DEF ZoomInv

\* What is recorded already is not written, nor is a join begun.
LEMMA JoinsKept ==
  ASSUME ZoomInv,
         \A m \in RecordedMeetings : meeting'[m] = meeting[m],
         \A q \in ZoomCalls : \/ zoomCall'[q] = zoomCall[q]
                              \/ zoomCall'[q].pc \notin JoinPCs
  PROVE  \A q \in ZoomCalls : JoinInv(zoomCall[q])'
  <1>1. RecordedMeetings \subseteq RecordedMeetings'
    BY DEF RecordedMeetings, Recorded
  <1>2. ASSUME NEW q \in ZoomCalls PROVE JoinInv(zoomCall[q])'
    <2>1. PICK z : z = zoomCall'[q]
      OBVIOUS
    <2>2. JoinInv(z) \/ z.pc \notin JoinPCs
      BY <2>1 DEF ZoomInv, MeetingsInv
    <2>3. JoinInv(z)'
      BY <1>1, <2>2 DEF JoinInv, JoinPCs
    <2> QED BY <2>1, <2>3 DEF JoinInv
  <1> QED BY <1>2

\* A handler that was to record a meeting has done so, or has failed.
LEMMA RecordsNoLonger ==
  ASSUME ZoomInv, NEW h \in ZoomCalls, zoomCall[h].pc = "record",
         ZoomMoves(h, IdleZoom)
  PROVE  /\ ToRecord' = ToRecord \ {h} /\ IsFiniteSet(ToRecord')
         /\ Cardinality(ToRecord') = Cardinality(ToRecord) - 1
         /\ Cardinality(ToRecord') \in Nat
         /\ zoomCall[h].meeting \in (1..onZoom) \ RecordedMeetings
         /\ \A q \in ToRecord' :
               /\ zoomCall'[q] = zoomCall[q] /\ q \in ToRecord
               /\ zoomCall[q].meeting # zoomCall[h].meeting
  <1>1. h \in ToRecord /\ h \notin ToRecord'
    BY IdleZoomMeans DEF ToRecord, ZoomAt, ZoomMoves
  <1>2. ToRecord' = ToRecord \ {h}
    BY <1>1 DEF ToRecord, ZoomAt, ZoomMoves
  <1>3. /\ IsFiniteSet(ToRecord \ {h})
        /\ Cardinality(ToRecord \ {h}) = Cardinality(ToRecord) - 1
    BY <1>1, Counts, FS_RemoveElement
  <1>4. Cardinality(ToRecord \ {h}) \in Nat
    BY <1>3, FS_CardinalityType
  <1>5. ASSUME NEW q \in ToRecord'
        PROVE  /\ zoomCall'[q] = zoomCall[q] /\ q \in ToRecord
               /\ zoomCall[q].meeting # zoomCall[h].meeting
    BY <1>1, <1>2 DEF ZoomMoves, ToRecord, ZoomInv, MeetingsInv, MadeInv
  <1>6. zoomCall[h].meeting \in (1..onZoom) \ RecordedMeetings
    BY <1>1 DEF ZoomInv, MeetingsInv, MadeInv
  <1> QED BY <1>2, <1>3, <1>4, <1>5, <1>6

\* It has failed, or was refused: the meeting is known to Zoom alone.
LEMMA RecordFails ==
  ASSUME ZoomInv, NEW h \in ZoomCalls, zoomCall[h].pc = "record",
         ZoomEnds(h), unrecorded' = unrecorded + 1,
         UNCHANGED <<connection, meetings, onZoom>>
  PROVE  ZoomInv'
  <1>1. ZoomMoves(h, IdleZoom)
    BY ZoomEndsMeans
  <1>2. UNCHANGED <<meeting, wantedMeeting, overlapped>>
        /\ RecordedMeetings' = RecordedMeetings
    BY DEF meetings, RecordedMeetings, Recorded
  <1>3. /\ IsFiniteSet(ToRecord')
        /\ Cardinality(ToRecord') = Cardinality(ToRecord) - 1
        /\ Cardinality(ToRecord') \in Nat
        /\ \A q \in ToRecord' : zoomCall'[q] = zoomCall[q] /\ q \in ToRecord
    BY <1>1, RecordsNoLonger
  <1>4. onZoom' = Cardinality(RecordedMeetings') + unrecorded'
                  + Cardinality(ToRecord')
    BY <1>2, <1>3, Counts
  <1>5. EveryMeetingIsRecorded'
    BY <1>4 DEF EveryMeetingIsRecorded, RecordedMeetings, ToRecord
  <1>6. MadeInv'
    BY <1>2, <1>3, <1>5 DEF ZoomInv, MeetingsInv, MadeInv
  <1>7. \A q \in ZoomCalls : JoinInv(zoomCall[q])'
    BY <1>1, <1>2, IdleZoomMeans, JoinsKept DEF ZoomMoves, JoinPCs
  <1>8. MeetingAsAsked'
    BY <1>2 DEF ZoomInv, MeetingsInv, MeetingAsAsked
  <1>9. MeetingsInv'
    BY <1>6, <1>7, <1>8 DEF MeetingsInv
  <1>10. unrecorded' \in Nat /\ onZoom' \in 0..MaxMeeting
    BY Counts
  <1>11. \A q \in ZoomCalls :
            \/ zoomCall'[q] = zoomCall[q]
            \/ /\ zoomCall[q].pc \notin StoringPCs
               /\ zoomCall'[q].pc \notin ConnectionPCs
    BY <1>1, IdleZoomMeans DEF ZoomMoves, StoringPCs, ConnectionPCs
  <1> QED BY <1>1, <1>2, <1>9, <1>10, <1>11, MeetingsStep
          DEF ZoomMoves, ZoomInv, ZoomTypeOK
-----------------------------------------------------------------------------
(***************************************************************************)
(* Making a meeting.                                                       *)
(***************************************************************************)
LEMMA StartMeetingKeeps ==
  ASSUME ZoomInv, NEW h \in ZoomCalls, NEW class \in BOOLEAN,
         StartMeeting(h, class)
  PROVE  ZoomInv'
  <1>1. PICK z : z = [IdleZoom EXCEPT !.pc = "readTokens", !.then = "post",
                                      !.class = class]
    OBVIOUS
  <1>2. z \in ZoomHandlers /\ z.pc = "readTokens"
    BY <1>1, IdleZoomMeans DEF ZoomHandlers, ZoomPCs
  <1>3. /\ ZoomTo(h, z) /\ zoomCall[h].pc = "idle"
        /\ UNCHANGED <<connection, meetings, posted>>
    BY <1>1 DEF StartMeeting, ZoomAt
  <1> QED BY <1>2, <1>3, StaysOut DEF StoringPCs, ConnectionPCs, JoinPCs

\* A handler that is to refresh the token first.
LEMMA ToRefresh ==
  ASSUME ZoomInv, NEW h \in ZoomCalls, NEW z, z = zoomCall[h],
         z.pc \in {"readTokens", "post"}, NEW retried \in BOOLEAN,
         EnterConnection(h, [z EXCEPT !.pc = "refreshRead",
                                      !.retried = retried]),
         UNCHANGED <<connection, meetings, posted>>
  PROVE  ZoomInv'
  <1>1. PICK y : y = [z EXCEPT !.pc = "refreshRead", !.retried = retried]
    OBVIOUS
  <1>2. y \in ZoomHandlers /\ y.pc = "refreshRead"
    <2>1. z \in ZoomHandlers
      BY ZoomFields
    <2> QED BY <1>1, <2>1 DEF ZoomHandlers, ZoomPCs
  <1>3. ~InConnection(h) /\ zoomCall[h].pc # "record"
    BY DEF InConnection, ConnectionPCs
  <1>4. EnterConnection(h, y)
    BY <1>1
  <1>5. UNCHANGED <<credential, grant, blurred, disconnected, revived>>
    BY DEF connection
  <1> QED BY <1>2, <1>3, <1>4, <1>5, Enters
          DEF ConnectionPCs, GoneInv, StoringPCs

LEMMA ReadTokensKeeps ==
  ASSUME ZoomInv, NEW h \in ZoomCalls, ReadTokens(h)
  PROVE  ZoomInv'
  <1>1. PICK z : z = zoomCall[h]
    OBVIOUS
  <1>2. /\ z \in ZoomHandlers /\ z.pc = "readTokens" /\ z.retried \in BOOLEAN
        /\ UNCHANGED <<connection, meetings, posted>>
    BY <1>1, ZoomFields DEF ReadTokens, ZoomAt, ZoomHandlers
  <1>3. CASE ZoomEnds(h)
    BY <1>1, <1>2, <1>3, IdleZoomMeans, StaysOut
       DEF ZoomEnds, StoringPCs, ConnectionPCs, JoinPCs
  <1>4. CASE ZoomTo(h, [z EXCEPT !.pc = "post"])
    <2>1. PICK y : y = [z EXCEPT !.pc = "post"]
      OBVIOUS
    <2>2. y \in ZoomHandlers /\ y.pc = "post"
      BY <1>2, <2>1 DEF ZoomHandlers, ZoomPCs
    <2> QED BY <1>1, <1>2, <1>4, <2>1, <2>2, StaysOut
            DEF StoringPCs, ConnectionPCs, JoinPCs
  <1>5. CASE EnterConnection(h, [z EXCEPT !.pc = "refreshRead"])
    <2>1. [z EXCEPT !.pc = "refreshRead"] =
             [z EXCEPT !.pc = "refreshRead", !.retried = z.retried]
      BY <1>2 DEF ZoomHandlers
    <2> QED BY <1>1, <1>2, <1>5, <2>1, ToRefresh
  <1> QED BY <1>1, <1>3, <1>4, <1>5 DEF ReadTokens

\* A meeting is made at Zoom, and its handler knows of it or does not.
LEMMA MadeOnZoom ==
  ASSUME ZoomInv, NEW h \in ZoomCalls, NEW z \in ZoomHandlers, ZoomTo(h, z),
         zoomCall[h].pc = "post", MakeOnZoom, UNCHANGED <<connection, meetings>>,
         \/ z.pc = "record" /\ z.meeting = onZoom' /\ UNCHANGED unrecorded
         \/ z.pc = "idle" /\ unrecorded' = unrecorded + 1
  PROVE  ZoomInv'
  <1>1. ZoomMoves(h, z)
    BY ZoomToMeans
  <1>2. /\ UNCHANGED <<meeting, wantedMeeting, overlapped>>
        /\ RecordedMeetings' = RecordedMeetings
    BY DEF meetings, RecordedMeetings, Recorded
  <1>3. /\ onZoom' = onZoom + 1 /\ onZoom \in Nat /\ onZoom' \in 0..MaxMeeting
        /\ unrecorded \in Nat /\ unrecorded' \in Nat
    BY Counts, ZoomAssumption DEF MakeOnZoom
  <1>4. h \notin ToRecord
    BY DEF ToRecord, ZoomAt
  <1>5. \A q \in ToRecord : zoomCall'[q] = zoomCall[q] /\ q \in ToRecord'
    BY <1>1, <1>4 DEF ToRecord, ZoomAt, ZoomMoves
  <1>6. ToRecord' = IF z.pc = "record" THEN ToRecord \cup {h} ELSE ToRecord
    BY <1>1, <1>4 DEF ToRecord, ZoomAt, ZoomMoves
  <1>7. /\ IsFiniteSet(ToRecord')
        /\ onZoom' = Cardinality(RecordedMeetings') + unrecorded'
                     + Cardinality(ToRecord')
    <2>1. CASE z.pc = "record"
      <3>1. /\ IsFiniteSet(ToRecord \cup {h})
            /\ Cardinality(ToRecord \cup {h}) = Cardinality(ToRecord) + 1
        BY <1>4, Counts, FS_AddElement
      <3> QED BY <1>2, <1>3, <1>6, <2>1, <3>1, Counts
    <2>2. CASE z.pc = "idle"
      BY <1>2, <1>3, <1>6, <2>2, Counts
    <2> QED BY <2>1, <2>2
  <1>8. EveryMeetingIsRecorded'
    BY <1>7 DEF EveryMeetingIsRecorded, RecordedMeetings, ToRecord
  <1>9. \A m \in RecordedMeetings' : m <= onZoom'
    BY <1>2, <1>3 DEF ZoomInv, MeetingsInv, MadeInv, RecordedMeetings, MeetingIds
  <1>10. \A q \in ToRecord : zoomCall[q].meeting \in (1..onZoom) \ RecordedMeetings
    BY DEF ZoomInv, MeetingsInv, MadeInv
  <1>11. z.pc = "record" => z.meeting \in (1..onZoom') \ RecordedMeetings
    BY <1>3 DEF ZoomInv, MeetingsInv, MadeInv, RecordedMeetings, MeetingIds
  <1>12. \A q \in ToRecord' :
            zoomCall'[q].meeting \in (1..onZoom') \ RecordedMeetings'
    BY <1>1, <1>2, <1>3, <1>5, <1>6, <1>10, <1>11 DEF ZoomMoves
  <1>13. \A g, q \in ToRecord' :
            zoomCall'[g].meeting = zoomCall'[q].meeting => g = q
    <2>1. \A q \in ToRecord : zoomCall[q].meeting # onZoom'
      BY <1>3, <1>10
    <2>2. \A g, q \in ToRecord :
             zoomCall[g].meeting = zoomCall[q].meeting => g = q
      BY DEF ZoomInv, MeetingsInv, MadeInv
    <2> QED BY <1>1, <1>5, <1>6, <2>1, <2>2 DEF ZoomMoves
  <1>14. MadeInv'
    BY <1>7, <1>8, <1>9, <1>12, <1>13 DEF MadeInv
  <1>15. \A q \in ZoomCalls : JoinInv(zoomCall[q])'
    BY <1>1, <1>2, JoinsKept DEF ZoomMoves, JoinPCs
  <1>16. MeetingAsAsked'
    BY <1>2 DEF ZoomInv, MeetingsInv, MeetingAsAsked
  <1>17. MeetingsInv'
    BY <1>14, <1>15, <1>16 DEF MeetingsInv
  <1>18. \A q \in ZoomCalls :
            \/ zoomCall'[q] = zoomCall[q]
            \/ /\ zoomCall[q].pc \notin StoringPCs
               /\ zoomCall'[q].pc \notin ConnectionPCs
    BY <1>1 DEF ZoomMoves, StoringPCs, ConnectionPCs
  <1> QED BY <1>1, <1>2, <1>3, <1>17, <1>18, MeetingsStep
          DEF ZoomMoves, ZoomInv, ZoomTypeOK

LEMMA PostKeeps ==
  ASSUME ZoomInv, NEW h \in ZoomCalls, Post(h)
  PROVE  ZoomInv'
  <1>1. PICK z : z = zoomCall[h]
    OBVIOUS
  <1>2. z \in ZoomHandlers /\ z.pc = "post" /\ UNCHANGED <<connection, meetings>>
    BY <1>1, ZoomFields DEF Post, ZoomAt
  <1>3. CASE /\ MakeOnZoom /\ UNCHANGED unrecorded
             /\ ZoomTo(h, [z EXCEPT !.pc = "record", !.meeting = onZoom'])
    <2>1. PICK y : y = [z EXCEPT !.pc = "record", !.meeting = onZoom']
      OBVIOUS
    <2>2. onZoom' \in 0..MaxMeeting
      BY <1>3, Counts, ZoomAssumption DEF MakeOnZoom
    <2>3. y \in ZoomHandlers /\ y.pc = "record" /\ y.meeting = onZoom'
      BY <1>2, <2>1, <2>2 DEF ZoomHandlers, ZoomPCs
    <2> QED BY <1>1, <1>2, <1>3, <2>1, <2>3, MadeOnZoom
  <1>4. CASE /\ EnterConnection(h,
                  [z EXCEPT !.pc = "refreshRead", !.retried = TRUE])
             /\ UNCHANGED posted
    BY <1>1, <1>2, <1>4, ToRefresh
  <1>5. CASE ZoomEnds(h) /\ UNCHANGED posted
    BY <1>1, <1>2, <1>5, IdleZoomMeans, StaysOut
       DEF ZoomEnds, StoringPCs, ConnectionPCs, JoinPCs
  <1>6. CASE MakeOnZoom /\ ZoomEnds(h) /\ unrecorded' = unrecorded + 1
    BY <1>1, <1>2, <1>6, IdleZoomMeans, MadeOnZoom DEF ZoomEnds
  <1> QED BY <1>1, <1>3, <1>4, <1>5, <1>6 DEF Post

LEMMA RecordMeetingKeeps ==
  ASSUME ZoomInv, NEW h \in ZoomCalls, RecordMeeting(h)
  PROVE  ZoomInv'
  <1>1. PICK z, m, row :
           /\ z = zoomCall[h] /\ m = z.meeting
           /\ row = [status |-> "scheduled", participants |-> {}]
    OBVIOUS
  <1>2. /\ z.pc = "record" /\ ZoomEnds(h)
        /\ UNCHANGED <<connection, onZoom, overlapped>>
    BY <1>1 DEF RecordMeeting, ZoomAt
  <1>3. CASE ~z.class
    BY <1>1, <1>2, <1>3, RecordFails DEF RecordMeeting, meetings
  <1>4. CASE z.class
    <2>1. /\ meeting' = [meeting EXCEPT ![m] = row]
          /\ wantedMeeting' = [wantedMeeting EXCEPT ![m] = row]
          /\ UNCHANGED unrecorded
      BY <1>1, <1>4 DEF RecordMeeting
    <2>2. ZoomMoves(h, IdleZoom)
      BY <1>2, ZoomEndsMeans
    <2>3. /\ IsFiniteSet(ToRecord')
          /\ Cardinality(ToRecord') = Cardinality(ToRecord) - 1
          /\ Cardinality(ToRecord') \in Nat
          /\ m \in (1..onZoom) \ RecordedMeetings
          /\ \A q \in ToRecord' :
               /\ zoomCall'[q] = zoomCall[q] /\ q \in ToRecord
               /\ zoomCall[q].meeting # m
      BY <1>1, <1>2, <2>2, RecordsNoLonger
    <2>4. m \in MeetingIds /\ m <= onZoom
      BY <2>3, Counts, ZoomAssumption DEF MeetingIds
    <2>5. row \in MeetingRows /\ row.status # "none"
      BY <1>1 DEF MeetingRows, MeetingStatus
    <2>6. /\ meeting' \in [MeetingIds -> MeetingRows] /\ meeting'[m] = row
          /\ wantedMeeting' \in [MeetingIds -> MeetingRows]
          /\ wantedMeeting'[m] = row
          /\ \A n \in MeetingIds \ {m} : /\ meeting'[n] = meeting[n]
                                         /\ wantedMeeting'[n] = wantedMeeting[n]
      BY <2>1, <2>4, <2>5 DEF ZoomInv, ZoomTypeOK
    <2>7. RecordedMeetings' = RecordedMeetings \cup {m}
      BY <2>4, <2>5, <2>6 DEF RecordedMeetings, Recorded
    <2>8. Cardinality(RecordedMeetings \cup {m}) = Cardinality(RecordedMeetings) + 1
      BY <2>3, Counts, FS_AddElement
    <2>9. onZoom' = Cardinality(RecordedMeetings') + unrecorded'
                    + Cardinality(ToRecord')
      BY <1>2, <2>1, <2>3, <2>7, <2>8, Counts
    <2>10. EveryMeetingIsRecorded'
      BY <2>9 DEF EveryMeetingIsRecorded, RecordedMeetings, ToRecord
    <2>11. MadeInv'
      BY <1>2, <2>3, <2>4, <2>7, <2>10 DEF ZoomInv, MeetingsInv, MadeInv
    <2>12. \A q \in ZoomCalls : JoinInv(zoomCall[q])'
      <3>1. \A n \in RecordedMeetings : meeting'[n] = meeting[n]
        BY <2>3, <2>6 DEF RecordedMeetings
      <3> QED BY <2>2, <3>1, IdleZoomMeans, JoinsKept DEF ZoomMoves, JoinPCs
    <2>13. MeetingAsAsked'
      BY <1>2, <2>6 DEF ZoomInv, MeetingsInv, MeetingAsAsked
    <2>14. MeetingsInv'
      BY <2>11, <2>12, <2>13 DEF MeetingsInv
    <2>15. \A q \in ZoomCalls :
              \/ zoomCall'[q] = zoomCall[q]
              \/ /\ zoomCall[q].pc \notin StoringPCs
                 /\ zoomCall'[q].pc \notin ConnectionPCs
      BY <1>1, <1>2, <2>2, IdleZoomMeans
         DEF ZoomMoves, StoringPCs, ConnectionPCs
    <2> QED BY <1>2, <2>1, <2>2, <2>6, <2>14, <2>15, Counts, MeetingsStep
            DEF ZoomMoves, ZoomInv, ZoomTypeOK
  <1> QED BY <1>3, <1>4
-----------------------------------------------------------------------------
(***************************************************************************)
(* Joining a meeting, and changing one.                                    *)
(***************************************************************************)
LEMMA JoinGoesOn ==
  ASSUME ZoomInv, NEW h \in ZoomCalls, NEW z \in ZoomHandlers, ZoomTo(h, z),
         zoomCall[h].pc \in JoinPCs \cup {"idle"}, z.pc \in JoinPCs,
         JoinInv(z), UNCHANGED <<connection, meetings, posted>>
  PROVE  ZoomInv'
  <1>1. ZoomMoves(h, z)
    BY ZoomToMeans
  <1>2. /\ UNCHANGED <<meeting, wantedMeeting, overlapped, onZoom, unrecorded>>
        /\ RecordedMeetings' = RecordedMeetings
    BY DEF meetings, posted, RecordedMeetings, Recorded
  <1>3. ToRecord' = ToRecord /\ \A q \in ToRecord : zoomCall'[q] = zoomCall[q]
    BY <1>1 DEF ToRecord, ZoomAt, ZoomMoves, JoinPCs
  <1>4. MadeInv'
    BY <1>2, <1>3
       DEF ZoomInv, MeetingsInv, MadeInv, EveryMeetingIsRecorded, ToRecord,
           RecordedMeetings
  <1>5. ASSUME NEW q \in ZoomCalls PROVE JoinInv(zoomCall[q])'
    <2>1. PICK y : y = zoomCall'[q]
      OBVIOUS
    <2>2. JoinInv(y)
      BY <1>1, <2>1 DEF ZoomInv, MeetingsInv, ZoomMoves
    <2>3. JoinInv(y)'
      BY <1>2, <2>2 DEF JoinInv
    <2> QED BY <2>1, <2>3 DEF JoinInv
  <1>6. MeetingsInv'
    BY <1>2, <1>4, <1>5 DEF ZoomInv, MeetingsInv, MeetingAsAsked
  <1>7. \A q \in ZoomCalls :
           \/ zoomCall'[q] = zoomCall[q]
           \/ /\ zoomCall[q].pc \notin StoringPCs
              /\ zoomCall'[q].pc \notin ConnectionPCs
    BY <1>1 DEF ZoomMoves, StoringPCs, ConnectionPCs, JoinPCs
  <1> QED BY <1>1, <1>2, <1>6, <1>7, Counts, MeetingsStep
          DEF ZoomMoves, ZoomInv, ZoomTypeOK

LEMMA MeetingFields ==
  ASSUME ZoomInv, NEW m \in RecordedMeetings
  PROVE  /\ m \in MeetingIds /\ m \in 0..MaxMeeting
         /\ meeting[m] \in MeetingRows /\ meeting[m].status # "none"
         /\ wantedMeeting[m] \in MeetingRows
  BY ZoomAssumption
     DEF ZoomInv, ZoomTypeOK, RecordedMeetings, Recorded, MeetingIds

LEMMA StartJoinKeeps ==
  ASSUME ZoomInv, NEW h \in ZoomCalls, NEW m \in MeetingIds,
         NEW who \in Joiners \cup {NotANumber}, StartJoin(h, m, who)
  PROVE  ZoomInv'
  <1>1. /\ meeting[m].status \in {"active", "scheduled"}
        /\ zoomCall[h].pc = "idle"
        /\ UNCHANGED <<connection, meetings, posted>>
    BY DEF StartJoin, ZoomAt
  <1>2. m \in RecordedMeetings
    BY <1>1 DEF RecordedMeetings, Recorded
  <1>3. PICK row : row = [IdleZoom.row EXCEPT !.status = meeting[m].status]
    OBVIOUS
  <1>4. row \in MeetingRows /\ row.status # "none"
    <2>1. IdleZoom.row \in MeetingRows
      BY IdleZoomMeans DEF ZoomHandlers
    <2> QED BY <1>1, <1>3, <2>1 DEF MeetingRows, MeetingStatus
  <1>5. PICK z : z = [IdleZoom EXCEPT !.pc = "joinList", !.meeting = m,
                                      !.who = who, !.row = row]
    OBVIOUS
  <1>6. z \in ZoomHandlers /\ z.pc = "joinList" /\ z.meeting = m /\ z.row = row
    BY <1>2, <1>4, <1>5, IdleZoomMeans, MeetingFields DEF ZoomHandlers, ZoomPCs
  <1>7. ZoomTo(h, z)
    <2>1. z = [IdleZoom EXCEPT !.pc = "joinList", !.meeting = m, !.who = who,
                               !.row.status = meeting[m].status]
      BY <1>3, <1>5, IdleZoomMeans DEF ZoomHandlers
    <2> QED BY <2>1 DEF StartJoin
  <1>8. JoinInv(z)
    BY <1>2, <1>4, <1>6 DEF JoinInv
  <1> QED BY <1>1, <1>6, <1>7, <1>8, JoinGoesOn DEF JoinPCs

LEMMA JoinListKeeps ==
  ASSUME ZoomInv, NEW h \in ZoomCalls, JoinList(h)
  PROVE  ZoomInv'
  <1>1. PICK z, m : z = zoomCall[h] /\ m = z.meeting
    OBVIOUS
  <1>2. /\ z \in ZoomHandlers /\ z.pc = "joinList" /\ z.row \in MeetingRows
        /\ m \in RecordedMeetings /\ z.row.status # "none"
        /\ UNCHANGED <<connection, meetings, posted>>
    BY <1>1, ZoomFields DEF JoinList, ZoomAt, JoinInv, JoinPCs
  <1>3. CASE ZoomEnds(h)
    BY <1>1, <1>2, <1>3, IdleZoomMeans, StaysOut
       DEF ZoomEnds, StoringPCs, ConnectionPCs, JoinPCs
  <1>4. CASE ~ZoomEnds(h)
    <2>1. PICK row : row = [z.row EXCEPT !.participants = meeting[m].participants]
      OBVIOUS
    <2>2. /\ row \in MeetingRows /\ row.status # "none"
          /\ row.participants = meeting[m].participants
      BY <1>2, <2>1, MeetingFields DEF MeetingRows
    <2>3. PICK y : y = [z EXCEPT !.pc = "joinFind", !.row = row]
      OBVIOUS
    <2>4. /\ y \in ZoomHandlers /\ y.pc = "joinFind" /\ y.meeting = m
          /\ y.row = row
      BY <1>1, <1>2, <2>2, <2>3 DEF ZoomHandlers, ZoomPCs
    <2>5. ZoomTo(h, y)
      <3>1. y = [z EXCEPT !.pc = "joinFind",
                          !.row.participants = meeting[m].participants]
        BY <1>2, <2>1, <2>3 DEF ZoomHandlers
      <3> QED BY <1>1, <1>4, <3>1 DEF JoinList
    <2>6. JoinInv(y)
      BY <1>2, <2>2, <2>4 DEF JoinInv
    <2> QED BY <1>1, <1>2, <2>4, <2>5, <2>6, JoinGoesOn DEF JoinPCs
  <1> QED BY <1>3, <1>4

LEMMA JoinFindKeeps ==
  ASSUME ZoomInv, NEW h \in ZoomCalls, JoinFind(h)
  PROVE  ZoomInv'
  <1>1. PICK z, m : z = zoomCall[h] /\ m = z.meeting
    OBVIOUS
  <1>2. /\ z \in ZoomHandlers /\ z.pc = "joinFind" /\ z.row \in MeetingRows
        /\ m \in RecordedMeetings /\ JoinInv(z)
        /\ UNCHANGED <<connection, meetings, posted>>
    BY <1>1, ZoomFields DEF JoinFind, ZoomAt, JoinInv, JoinPCs
  <1>3. PICK row : row = [z.row EXCEPT !.status = meeting[m].status]
    OBVIOUS
  <1>4. /\ row \in MeetingRows /\ row.status = meeting[m].status
        /\ row.status # "none" /\ row.participants = z.row.participants
    BY <1>2, <1>3, MeetingFields DEF MeetingRows
  <1>5. PICK y : y = [z EXCEPT !.pc = "joinSave", !.row = row]
    OBVIOUS
  <1>6. /\ y \in ZoomHandlers /\ y.pc = "joinSave" /\ y.meeting = m
        /\ y.row = row /\ y.alone = z.alone
    BY <1>1, <1>2, <1>4, <1>5 DEF ZoomHandlers, ZoomPCs
  <1>7. ZoomTo(h, y)
    <2>1. y = [z EXCEPT !.pc = "joinSave", !.row.status = meeting[m].status]
      BY <1>2, <1>3, <1>5 DEF ZoomHandlers
    <2> QED BY <1>1, <2>1 DEF JoinFind
  <1>8. JoinInv(y)
    BY <1>1, <1>2, <1>4, <1>6 DEF JoinInv
  <1> QED BY <1>1, <1>2, <1>6, <1>7, <1>8, JoinGoesOn DEF JoinPCs
\* The handlers in S that hold the row of meeting m know of the write to it.
OutdatedAmong(S, m, pcs) ==
    \A q \in S :
        zoomCall'[q] = IF zoomCall[q].meeting = m /\ zoomCall[q].pc \in pcs
                       THEN [zoomCall[q] EXCEPT !.alone = FALSE]
                       ELSE zoomCall[q]

LEMMA OutdateMeans ==
  ASSUME ZoomInv, NEW m, NEW pcs
  PROVE  /\ Outdate(m, pcs) \in [ZoomCalls -> ZoomHandlers]
         /\ \A q \in ZoomCalls : Outdate(m, pcs)[q] =
               IF zoomCall[q].meeting = m /\ zoomCall[q].pc \in pcs
               THEN [zoomCall[q] EXCEPT !.alone = FALSE] ELSE zoomCall[q]
  <1>1. \A q \in ZoomCalls : /\ zoomCall[q] \in ZoomHandlers
                             /\ [zoomCall[q] EXCEPT !.alone = FALSE] \in ZoomHandlers
    BY DEF ZoomInv, ZoomTypeOK, ZoomHandlers
  <1> QED BY <1>1 DEF Outdate

LEMMA MeetingWritten ==
  ASSUME ZoomInv, NEW m \in RecordedMeetings, NEW S \in SUBSET ZoomCalls,
         NEW pcs \in {{"joinSave"}, {"joinFind", "joinSave"}},
         zoomCall' \in [ZoomCalls -> ZoomHandlers], OutdatedAmong(S, m, pcs),
         \A q \in ZoomCalls \ S : /\ zoomCall[q].pc \in JoinPCs
                                  /\ zoomCall'[q] = IdleZoom,
         NEW row \in MeetingRows, row.status # "none",
         meeting' = [meeting EXCEPT ![m] = row],
         \/ "joinFind" \in pcs
         \/ row.participants = meeting[m].participants,
         wantedMeeting' \in [MeetingIds -> MeetingRows],
         overlapped' \in SUBSET MeetingIds, MeetingAsAsked',
         UNCHANGED <<connection, posted>>
  PROVE  ZoomInv'
  <1>1. /\ meeting' \in [MeetingIds -> MeetingRows] /\ meeting'[m] = row
        /\ \A n \in MeetingIds \ {m} : meeting'[n] = meeting[n]
    BY MeetingFields DEF ZoomInv, ZoomTypeOK
  <1>2. RecordedMeetings' = RecordedMeetings
    BY <1>1 DEF RecordedMeetings, Recorded
  <1>3. UNCHANGED <<onZoom, unrecorded>>
    BY DEF posted
  <1>4. ASSUME NEW q \in S
        PROVE  /\ zoomCall'[q].pc = zoomCall[q].pc
               /\ zoomCall'[q].meeting = zoomCall[q].meeting
               /\ zoomCall'[q].row = zoomCall[q].row
               /\ \/ zoomCall'[q] = zoomCall[q]
                  \/ zoomCall[q].pc \in JoinPCs
               /\ zoomCall'[q].alone => /\ zoomCall[q].alone
                                        /\ ~(/\ zoomCall[q].meeting = m
                                             /\ zoomCall[q].pc \in pcs)
    <2>1. PICK x, y : x = zoomCall[q] /\ y = zoomCall'[q]
      OBVIOUS
    <2>2. x \in ZoomHandlers
      BY <2>1 DEF ZoomInv, ZoomTypeOK
    <2>3. CASE x.meeting = m /\ x.pc \in pcs
      <3>1. y = [x EXCEPT !.alone = FALSE]
        BY <2>1, <2>3 DEF OutdatedAmong
      <3>2. /\ y.pc = x.pc /\ y.meeting = x.meeting /\ y.row = x.row /\ ~y.alone
        BY <2>2, <3>1 DEF ZoomHandlers
      <3>3. x.pc \in JoinPCs
        BY <2>3 DEF JoinPCs
      <3> QED BY <2>1, <3>2, <3>3
    <2>4. CASE ~(x.meeting = m /\ x.pc \in pcs)
      BY <2>1, <2>4 DEF OutdatedAmong
    <2> QED BY <2>3, <2>4
  <1>5. /\ ToRecord' = ToRecord
        /\ \A q \in ToRecord : zoomCall'[q] = zoomCall[q]
    BY <1>4, IdleZoomMeans DEF ToRecord, ZoomAt, JoinPCs
  <1>6. MadeInv'
    BY <1>2, <1>3, <1>5
       DEF ZoomInv, MeetingsInv, MadeInv, EveryMeetingIsRecorded, ToRecord,
           RecordedMeetings
  <1>7. ASSUME NEW q \in ZoomCalls PROVE JoinInv(zoomCall[q])'
    <2>1. PICK x, y : x = zoomCall[q] /\ y = zoomCall'[q]
      OBVIOUS
    <2>2. CASE q \in S
      <3>1. /\ y.pc = x.pc /\ y.meeting = x.meeting /\ y.row = x.row
            /\ y.alone => x.alone /\ ~(x.meeting = m /\ x.pc \in pcs)
        BY <1>4, <2>1, <2>2
      <3>2. JoinInv(x)
        BY <2>1 DEF ZoomInv, MeetingsInv
      <3>3. y.pc \in JoinPCs => /\ y.meeting \in RecordedMeetings
                                /\ y.row.status # "none"
        BY <3>1, <3>2 DEF JoinInv
      <3>4. ASSUME y.alone, y.pc \in {"joinFind", "joinSave"}
            PROVE  /\ y.row.participants = meeting'[y.meeting].participants
                   /\ y.pc = "joinSave" =>
                         y.row.status = meeting'[y.meeting].status
        <4>1. y.meeting \in MeetingIds
          BY <3>3, <3>4, MeetingFields DEF JoinPCs
        <4>2. CASE y.meeting = m
          BY <1>1, <3>1, <3>2, <3>4, <4>2 DEF JoinInv
        <4>3. CASE y.meeting # m
          BY <1>1, <3>1, <3>2, <3>4, <4>1, <4>3 DEF JoinInv
        <4> QED BY <4>2, <4>3
      <3>5. JoinInv(y)'
        BY <1>2, <3>3, <3>4 DEF JoinInv
      <3> QED BY <2>1, <3>5 DEF JoinInv
    <2>3. CASE q \notin S
      BY <2>1, <2>3, IdleZoomMeans DEF JoinInv, JoinPCs
    <2> QED BY <2>2, <2>3
  <1>8. MeetingsInv'
    BY <1>6, <1>7 DEF MeetingsInv
  <1>9. ASSUME NEW q \in ZoomCalls
        PROVE  \/ zoomCall'[q] = zoomCall[q]
               \/ /\ zoomCall[q].pc \notin StoringPCs
                  /\ zoomCall'[q].pc \notin ConnectionPCs
    <2>1. CASE q \in S
      BY <1>4, <2>1 DEF JoinPCs, StoringPCs, ConnectionPCs
    <2>2. CASE q \notin S
      BY <2>2, IdleZoomMeans DEF JoinPCs, StoringPCs, ConnectionPCs
    <2> QED BY <2>1, <2>2
  <1>10. onZoom' \in 0..MaxMeeting /\ unrecorded' \in Nat
    BY <1>3, Counts
  <1> QED BY <1>1, <1>8, <1>9, <1>10, MeetingsStep

LEMMA SetMeetingStatusKeeps ==
  ASSUME ZoomInv, NEW m \in MeetingIds, NEW status \in MeetingStatus,
         SetMeetingStatus(m, status)
  PROVE  ZoomInv'
  <1>1. /\ m \in RecordedMeetings
        /\ meeting' = [meeting EXCEPT ![m].status = status]
        /\ wantedMeeting' = [wantedMeeting EXCEPT ![m].status = status]
        /\ zoomCall' = Outdate(m, {"joinSave"})
        /\ UNCHANGED <<overlapped, connection, posted>>
    BY DEF SetMeetingStatus, RecordedMeetings
  <1>2. PICK row, wanted : /\ row = [meeting[m] EXCEPT !.status = status]
                           /\ wanted = [wantedMeeting[m] EXCEPT !.status = status]
    OBVIOUS
  <1>3. /\ row \in MeetingRows /\ wanted \in MeetingRows
        /\ row.status # "none" /\ row.participants = meeting[m].participants
    BY <1>1, <1>2, MeetingFields DEF MeetingRows, MeetingStatus
  <1>4. /\ meeting' = [meeting EXCEPT ![m] = row]
        /\ wantedMeeting' = [wantedMeeting EXCEPT ![m] = wanted]
    BY <1>1, <1>2
  <1>5. wantedMeeting' \in [MeetingIds -> MeetingRows]
    BY <1>3, <1>4 DEF ZoomInv, ZoomTypeOK
  <1>6. MeetingAsAsked'
    <2>1. \A n \in MeetingIds :
             /\ meeting'[n] = IF n = m THEN row ELSE meeting[n]
             /\ wantedMeeting'[n] = IF n = m THEN wanted ELSE wantedMeeting[n]
      BY <1>4 DEF ZoomInv, ZoomTypeOK
    <2>2. m \notin overlapped => row = wanted
      BY <1>2 DEF ZoomInv, MeetingsInv, MeetingAsAsked
    <2> QED BY <1>1, <2>1, <2>2 DEF ZoomInv, MeetingsInv, MeetingAsAsked
  <1>7. /\ zoomCall' \in [ZoomCalls -> ZoomHandlers]
        /\ OutdatedAmong(ZoomCalls, m, {"joinSave"})
    BY <1>1, OutdateMeans DEF OutdatedAmong
  <1>8. overlapped' \in SUBSET MeetingIds
    BY <1>1 DEF ZoomInv, ZoomTypeOK
  <1> QED BY <1>1, <1>3, <1>4, <1>5, <1>6, <1>7, <1>8, MeetingWritten

\* What a join saves is the meeting as it is, with one participant more,
\* unless the meeting was written since the join read it.
LEMMA JoinSaveKeeps ==
  ASSUME ZoomInv, NEW h \in ZoomCalls, JoinSave(h)
  PROVE  ZoomInv'
  <1>1. PICK z, m : z = zoomCall[h] /\ m = z.meeting
    OBVIOUS
  <1>2. /\ z \in ZoomHandlers /\ z.pc = "joinSave" /\ z.row \in MeetingRows
        /\ z.who \in Joiners \cup {NotANumber} /\ z.alone \in BOOLEAN
        /\ m \in RecordedMeetings /\ JoinInv(z) /\ z.row.status # "none"
        /\ UNCHANGED <<connection, posted>>
    BY <1>1, ZoomFields DEF JoinSave, ZoomAt, JoinInv, JoinPCs
  <1>3. CASE z.who = NotANumber
    BY <1>1, <1>2, <1>3, IdleZoomMeans, StaysOut
       DEF JoinSave, ZoomEnds, StoringPCs, ConnectionPCs, JoinPCs
  <1>4. CASE z.who # NotANumber
    <2>1. PICK row, wanted :
             /\ row = [z.row EXCEPT !.participants = @ \cup {z.who}]
             /\ wanted = [wantedMeeting[m] EXCEPT !.participants = @ \cup {z.who}]
      OBVIOUS
    <2>2. /\ row \in MeetingRows /\ wanted \in MeetingRows
          /\ row.status = z.row.status
          /\ row.participants = z.row.participants \cup {z.who}
      BY <1>2, <1>4, <2>1, MeetingFields DEF MeetingRows
    <2>3. /\ meeting' = [meeting EXCEPT ![m] = row]
          /\ wantedMeeting' = [wantedMeeting EXCEPT ![m] = wanted]
          /\ overlapped' = IF z.alone THEN overlapped ELSE overlapped \cup {m}
          /\ zoomCall' = [Outdate(m, {"joinFind", "joinSave"})
                            EXCEPT ![h] = IdleZoom]
      BY <1>1, <1>4, <2>1 DEF JoinSave
    <2>4. m \in MeetingIds /\ meeting[m] \in MeetingRows
      BY <1>2, MeetingFields
    <2>5. wantedMeeting' \in [MeetingIds -> MeetingRows]
      BY <2>2, <2>3 DEF ZoomInv, ZoomTypeOK
    <2>6. overlapped' \in SUBSET MeetingIds
      BY <2>3, <2>4 DEF ZoomInv, ZoomTypeOK
    <2>7. MeetingAsAsked'
      <3>1. \A n \in MeetingIds :
               /\ meeting'[n] = IF n = m THEN row ELSE meeting[n]
               /\ wantedMeeting'[n] = IF n = m THEN wanted ELSE wantedMeeting[n]
        BY <2>3 DEF ZoomInv, ZoomTypeOK
      <3>2. ASSUME z.alone, m \notin overlapped PROVE row = wanted
        <4>1. wantedMeeting[m] = meeting[m]
          BY <2>4, <3>2 DEF ZoomInv, MeetingsInv, MeetingAsAsked
        <4>2. z.row = meeting[m]
          BY <1>1, <1>2, <2>4, <3>2 DEF JoinInv, MeetingRows
        <4> QED BY <2>1, <4>1, <4>2
      <3>3. \A n \in MeetingIds \ overlapped' :
               n \notin overlapped /\ (n = m => z.alone)
        BY <2>3
      <3> QED BY <3>1, <3>2, <3>3 DEF ZoomInv, MeetingsInv, MeetingAsAsked
    <2>8. /\ zoomCall' \in [ZoomCalls -> ZoomHandlers]
          /\ zoomCall'[h] = IdleZoom
          /\ OutdatedAmong(ZoomCalls \ {h}, m, {"joinFind", "joinSave"})
      BY <2>3, OutdateMeans, IdleZoomMeans DEF OutdatedAmong
    <2>9. \A q \in ZoomCalls \ (ZoomCalls \ {h}) :
             zoomCall[q].pc \in JoinPCs /\ zoomCall'[q] = IdleZoom
      BY <1>1, <1>2, <2>8 DEF JoinPCs
    <2> QED BY <1>2, <2>2, <2>3, <2>5, <2>6, <2>7, <2>8, <2>9, MeetingWritten
  <1> QED BY <1>3, <1>4

\* Tokens that were not stored are lost, and the record of a meeting.
LEMMA ZoomCallFailsKeeps ==
  ASSUME ZoomInv, NEW h \in ZoomCalls, ZoomCallFails(h)
  PROVE  ZoomInv'
  <1>1. /\ blurred' = (blurred \/ zoomCall[h].pc \in StoringPCs)
        /\ unrecorded' = IF zoomCall[h].pc = "record" THEN unrecorded + 1
                         ELSE unrecorded
        /\ ZoomTo(h, IdleZoom) /\ ZoomEnds(h)
        /\ UNCHANGED <<credential, grant, disconnected, revived, meetings,
                       onZoom>>
    BY DEF ZoomCallFails, ZoomAt, ZoomEnds, StoringPCs
  <1>2. blurred \in BOOLEAN
    BY DEF ZoomInv, ZoomTypeOK
  <1>3. CASE zoomCall[h].pc = "record"
    BY <1>1, <1>2, <1>3, RecordFails DEF connection, StoringPCs
  <1>4. CASE zoomCall[h].pc \notin StoringPCs \cup {"record"}
    <2>1. UNCHANGED <<connection, meetings, posted>>
      BY <1>1, <1>2, <1>4 DEF connection, posted
    <2> QED BY <1>1, <1>4, <2>1, IdleZoomMeans, StaysOut
            DEF ConnectionPCs, JoinPCs
  <1>5. CASE zoomCall[h].pc \in StoringPCs
    <2>1. ZoomMoves(h, IdleZoom)
      BY <1>1, ZoomEndsMeans
    <2>2. blurred' = TRUE /\ UNCHANGED posted
      BY <1>1, <1>5 DEF posted, StoringPCs
    <2>3. ActiveRows' = ActiveRows
      BY <1>1 DEF ActiveRows
    <2>4. ApartInv'
      BY <2>1, IdleZoomMeans DEF ZoomInv, ConnectionInv, ApartInv,
                                 InConnection, ZoomMoves, ConnectionPCs
    <2>5. TokenInv'
      BY <2>2 DEF TokenInv, StoredTokenIsCurrent
    <2>6. ASSUME NEW q \in ZoomCalls
          PROVE  CredInv(zoomCall[q])' /\ (Gone => GoneInv(zoomCall[q]))'
      <3>1. PICK y : y = zoomCall'[q]
        OBVIOUS
      <3>2. \/ CredInv(y) /\ (Gone => GoneInv(y))
            \/ y.pc = "idle"
        BY <2>1, <3>1, IdleZoomMeans DEF ZoomInv, ConnectionInv, ZoomMoves
      <3>3. CredInv(y)' /\ (Gone => GoneInv(y))'
        BY <1>1, <2>2, <3>2 DEF CredInv, Gone, GoneInv, StoringPCs
      <3> QED BY <3>1, <3>3 DEF CredInv, GoneInv
    <2>7. Gone' => ActiveRows' = {}
      BY <1>1, <2>3 DEF Gone, ZoomInv, ConnectionInv
    <2>8. ConnectionInv'
      BY <2>4, <2>5, <2>6, <2>7 DEF ConnectionInv
    <2>9. MeetingsAside
      BY <1>5, <2>1, IdleZoomMeans
         DEF MeetingsAside, ZoomMoves, StoringPCs, JoinPCs
    <2> QED BY <1>1, <2>1, <2>2, <2>8, <2>9, ConnectionStep
            DEF ZoomMoves, ZoomInv, ZoomTypeOK
  <1> QED BY <1>3, <1>4, <1>5

-----------------------------------------------------------------------------
(***************************************************************************)
(* The invariant, and the theorems.                                        *)
(***************************************************************************)
LEMMA ZoomInitKeeps == ASSUME ZoomInit PROVE ZoomInv
  <1>1. NoMeeting \in MeetingRows
    BY DEF NoMeeting, MeetingRows
  <1>2. ZoomTypeOK
    <2>1. /\ grant \in 0..MaxToken /\ onZoom \in 0..MaxMeeting
          /\ unrecorded \in 0..MaxMeeting
          /\ [state |-> "none", token |-> NoToken] \in CredentialRows
      BY ZoomAssumption DEF ZoomInit, NoToken, CredentialRows
    <2> QED BY <1>1, <2>1, IdleZoomMeans DEF ZoomInit, ZoomTypeOK
  <1>3. ActiveRows = {} /\ RecordedMeetings = {} /\ ToRecord = {}
    BY IdleZoomMeans DEF ZoomInit, ActiveRows, RecordedMeetings, Recorded,
                         ToRecord, ZoomAt, NoMeeting
  <1>4. \A h \in ZoomCalls : zoomCall[h] = IdleZoom
    BY DEF ZoomInit
  <1>5. ConnectionInv
    BY <1>3, <1>4, IdleZoomMeans
       DEF ConnectionInv, ApartInv, InConnection, ConnectionPCs, CredInv,
           StoringPCs, TokenInv, StoredTokenIsCurrent, Gone, GoneInv
  <1>6. MadeInv
    <2>1. IsFiniteSet({}) /\ Cardinality({}) = 0
      BY FS_EmptySet
    <2>2. onZoom = Cardinality(RecordedMeetings) + unrecorded
                   + Cardinality(ToRecord)
      BY <1>3, <2>1 DEF ZoomInit
    <2>3. EveryMeetingIsRecorded
      BY <2>2 DEF EveryMeetingIsRecorded, RecordedMeetings, ToRecord
    <2> QED BY <1>3, <2>1, <2>3 DEF MadeInv
  <1>7. MeetingsInv
    BY <1>4, <1>6, IdleZoomMeans
       DEF MeetingsInv, JoinInv, JoinPCs, MeetingAsAsked, ZoomInit
  <1> QED BY <1>2, <1>5, <1>7 DEF ZoomInv

LEMMA ZoomNextKeeps ==
  ASSUME ZoomInv, [ZoomNext]_zoomVars
  PROVE  ZoomInv'
  <1>1. CASE UNCHANGED zoomVars
    <2>1. UNCHANGED <<connection, meetings, posted, zoomCall>>
      BY <1>1 DEF zoomVars
    <2>2. MeetingsAside /\ ConnectionInv'
      BY <2>1, ConnectionKept DEF MeetingsAside
    <2> QED BY <2>1, <2>2, ConnectionStep DEF ZoomInv, ZoomTypeOK, connection
  <1>2. CASE DeleteCredentials
    BY <1>2, DeleteCredentialsKeeps
  <1>3. ASSUME NEW m \in MeetingIds, NEW status \in MeetingStatus,
               SetMeetingStatus(m, status)
        PROVE  ZoomInv'
    BY <1>3, SetMeetingStatusKeeps
  <1>4. ASSUME NEW h \in ZoomCalls, ZoomStep(h) PROVE ZoomInv'
    <2>1. CASE \/ StartCreateCredentials(h) \/ StartExchange(h)
               \/ \E secret, active \in BOOLEAN :
                     StartUpdateCredentials(h, secret, active)
      BY <2>1, ConnectionStarts
    <2>2. CASE \/ CreateCredentials(h) \/ UpdateFind(h) \/ UpdateSave(h)
               \/ StoreFind(h) \/ StoreSave(h) \/ ReadRefreshToken(h)
               \/ CallRefresh(h)
      BY <2>2, CreateCredentialsKeeps, UpdateFindKeeps, UpdateSaveKeeps,
         StoreFindKeeps, StoreSaveKeeps, ReadRefreshTokenKeeps,
         CallRefreshKeeps
    <2>3. CASE \/ \E class \in BOOLEAN : StartMeeting(h, class)
               \/ ReadTokens(h) \/ Post(h) \/ RecordMeeting(h)
               \/ ZoomCallFails(h)
      BY <2>3, StartMeetingKeeps, ReadTokensKeeps, PostKeeps,
         RecordMeetingKeeps, ZoomCallFailsKeeps
    <2>4. CASE \/ \E m \in MeetingIds, who \in Joiners \cup {NotANumber} :
                     StartJoin(h, m, who)
               \/ JoinList(h) \/ JoinFind(h) \/ JoinSave(h)
      BY <2>4, StartJoinKeeps, JoinListKeeps, JoinFindKeeps, JoinSaveKeeps
    <2> QED BY <1>4, <2>1, <2>2, <2>3, <2>4 DEF ZoomStep
  <1> QED BY <1>1, <1>2, <1>3, <1>4 DEF ZoomNext

(***************************************************************************)
(* The inductive invariant: what handlers carry of the connection and of a *)
(* meeting between their round trips, with the properties themselves.      *)
(***************************************************************************)
THEOREM ZoomInvariance == ZoomSpec => []ZoomInv
  <1>1. ZoomInit => ZoomInv
    BY ZoomInitKeeps
  <1>2. ZoomInv /\ [ZoomNext]_zoomVars => ZoomInv'
    BY ZoomNextKeeps
  <1> QED BY <1>1, <1>2, PTL DEF ZoomSpec

\* The credentials, the meetings, the requests and the histories keep their
\* types; with no cap on meetings but MaxMeeting, no count passes it.
THEOREM ZoomTypes == ZoomSpec => []ZoomTypeOK
  <1>1. ZoomInv => ZoomTypeOK
    BY DEF ZoomInv
  <1> QED BY <1>1, ZoomInvariance, PTL

(***************************************************************************)
(* However exchanges, refreshes and updates follow each other, the refresh *)
(* token in an active row is the one that Zoom takes, unless writers       *)
(* overlapped or one was cut short (storeOAuthTokens of the repository).   *)
(***************************************************************************)
THEOREM TokenIsCurrent == ZoomSpec => []StoredTokenIsCurrent
  <1>1. ZoomInv => StoredTokenIsCurrent
    BY DEF ZoomInv, ConnectionInv, TokenInv
  <1> QED BY <1>1, ZoomInvariance, PTL

(***************************************************************************)
(* No request that begins after a teacher has disconnected brings the      *)
(* connection back, but a new exchange or new credentials.                 *)
(***************************************************************************)
THEOREM StaysDisconnected == ZoomSpec => []DisconnectedStaysSo
  <1>1. ZoomInv => DisconnectedStaysSo
    BY DEF ZoomInv, ConnectionInv, Gone, DisconnectedStaysSo
  <1> QED BY <1>1, ZoomInvariance, PTL

(***************************************************************************)
(* Each meeting made at Zoom is recorded, about to be, or counted as lost  *)
(* with the request that made it: no retry makes a second one              *)
(* (zoom.service.ts createMeeting).                                        *)
(***************************************************************************)
THEOREM MeetingsAreRecorded == ZoomSpec => []EveryMeetingIsRecorded
  <1>1. ZoomInv => EveryMeetingIsRecorded
    BY DEF ZoomInv, MeetingsInv, MadeInv
  <1> QED BY <1>1, ZoomInvariance, PTL

(***************************************************************************)
(* A meeting's status and participants are what the requests asked for,    *)
(* although a join saves what it read in two reads, unless another write   *)
(* came in between (zoom.service.ts joinMeeting).                          *)
(***************************************************************************)
THEOREM MeetingsAsAsked == ZoomSpec => []MeetingAsAsked
  <1>1. ZoomInv => MeetingAsAsked
    BY DEF ZoomInv, MeetingsInv
  <1> QED BY <1>1, ZoomInvariance, PTL

=============================================================================
