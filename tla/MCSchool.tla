----------------------------- MODULE MCSchool -----------------------------
(***************************************************************************)
(* The components around the money, in one run: `part' is chosen once and  *)
(* says which of them moves, and on which instance.                        *)
(***************************************************************************)
EXTENDS InvoiceNumber, Enrollment, Reminders, Sessions, Zoom, Profiles,
        Coursework, Files, Rates, TLC

VARIABLE part

Parts == {"invoice numbers",
          "billing", "updates", "requests", "generation",
          "reminder list", "reminder channels", "reminder overlap",
          "sessions", "account",
          "zoom connection", "zoom meetings",
          "profiles", "registrations",
          "grading", "records", "register",
          "files", "storage", "rates"}

mcvars == <<vars, enrollmentVars, remindersVars, sessionsVars, zoomVars,
            profilesVars, courseworkVars, filesVars, ratesVars, part>>

-----------------------------------------------------------------------------
(***************************************************************************)
(* Invoice numbers: creations that race for the numbers of a year.         *)
(***************************************************************************)
Numbering(action) ==
    /\ action
    /\ UNCHANGED <<enrollmentVars, remindersVars, sessionsVars, zoomVars,
                   profilesVars, courseworkVars, filesVars, ratesVars, part>>

NumberMoves ==
    \/ \E r \in Requests : Numbering(StartCreate(r))
    \/ \E r \in Requests, n \in Given : Numbering(StartNumbered(r, n))
    \/ \E r \in Requests : Numbering(ReadNumber(r))
    \/ \E r \in Requests : Numbering(Insert(r))
    \/ \E r \in Requests : Numbering(TryAgain(r))
    \/ \E r \in Requests : Numbering(GiveUp(r))
    \/ \E r \in Requests : Numbering(Stop(r))
    \/ \E n \in Numbers : Numbering(RemoveInvoice(n))
    \/ Numbering(CustomNumber)

-----------------------------------------------------------------------------
(***************************************************************************)
(* Enrolments: requests that raise invoices, of two classes; those that    *)
(* replace and drop the rows of two classes; requests about one class, and *)
(* invoices generated on demand for it.                                    *)
(***************************************************************************)
EnrollmentParts == {"billing", "updates", "requests", "generation"}
Enrolling(action) ==
    /\ action
    /\ UNCHANGED <<vars, remindersVars, sessionsVars, zoomVars,
                   profilesVars, courseworkVars, filesVars, ratesVars, part>>

OfferedClasses == IF part \in {"billing", "updates"} THEN Classes
                  ELSE {CHOOSE c \in Classes : TRUE}

EnrollmentMoves ==
    \/ \E r \in Slots, c \in OfferedClasses :
          part = "billing" /\ Enrolling(StartEnroll(r, c, "inactive"))
    \/ \E r \in Slots, c \in OfferedClasses :
          \E status \in {"active", "pending_payment"} :
             part = "requests" /\ Enrolling(StartClassBulk(r, c, status))
    \/ \E r \in Slots, S \in SUBSET OfferedClasses :
          part = "billing" /\ Enrolling(StartBulk(r, S, "inactive"))
    \/ \E r \in Slots, S \in SUBSET OfferedClasses, status \in Statuses :
          part = "generation" /\ Enrolling(StartBulk(r, S, status))
    \/ \E r \in Slots, S \in SUBSET OfferedClasses :
          /\ part \in {"billing", "requests"} => S = {}
          /\ Enrolling(StartCreateStudent(r, S))
    \/ \E r \in Slots, S \in SUBSET OfferedClasses :
          /\ part # "billing" /\ (part = "requests" => S = {})
          /\ Enrolling(StartUpdate(r, S))
    \/ \E r \in Slots :
          part \in {"requests", "generation"} /\ Enrolling(StartLeave(r))
    \/ \E r \in Slots : part = "generation" /\ Enrolling(StartGenerate(r))
    \/ \E r \in Slots, c \in OfferedClasses, status \in Statuses :
          part = "requests" /\ Enrolling(StartSetStatus(r, c, status))
    \/ \E r \in Slots, c \in OfferedClasses, enabled \in BOOLEAN :
          part = "requests" /\ Enrolling(StartToggle(r, c, enabled))
    \/ \E r \in Slots : Enrolling(BulkCheck(r))
    \/ \E r \in Slots : Enrolling(CreateNext(r))
    \/ \E r \in Slots : Enrolling(InsertRow(r))
    \/ \E r \in Slots : Enrolling(RowRefused(r))
    \/ \E r \in Slots : Enrolling(BillRead(r))
    \/ \E r \in Slots : Enrolling(BillNothing(r))
    \/ \E r \in Slots : Enrolling(BillUpdate(r))
    \/ \E r \in Slots : Enrolling(BillCreate(r))
    \/ \E r \in Slots : Enrolling(BillFails(r))
    \/ \E r \in Slots : Enrolling(DropNext(r))
    \/ \E r \in Slots : Enrolling(Answer(r))
    \/ \E r \in Slots : Enrolling(LeaveParents(r))
    \/ \E r \in Slots : Enrolling(RowWrite(r))
    \/ \E r \in Slots : Enrolling(GenerateInvoice(r))
    \/ \E r \in Slots : Enrolling(GenerateNothing(r))
    \/ \E r \in Slots : part # "updates" /\ Enrolling(RequestFails(r))
    \/ \E c \in OfferedClasses :
          part # "billing" /\ Enrolling(RemoveEnrollment(c))
    \/ \E c \in OfferedClasses :
          part \in {"requests", "generation"} /\ Enrolling(RemoveClass(c))
    \/ \E i \in Invoices : part = "billing" /\ Enrolling(DeleteInvoice(i))
    \/ part = "billing" /\ Enrolling(StaffInvoice)
    \/ part = "billing" /\ Enrolling(NextMonth)

-----------------------------------------------------------------------------
(***************************************************************************)
(* Reminders: two invoices by e-mail; one on every channel; two runs.      *)
(***************************************************************************)
RemindersParts == {"reminder list", "reminder channels", "reminder overlap"}
Reminding(action) ==
    /\ action
    /\ UNCHANGED <<vars, enrollmentVars, sessionsVars, zoomVars,
                   profilesVars, courseworkVars, filesVars, ratesVars, part>>

OfferedBills == IF part = "reminder list" THEN Bills
                ELSE {CHOOSE b \in Bills : TRUE}
OfferedRuns == IF part = "reminder overlap" THEN Runs ELSE {1}
OfferedContacts == IF part = "reminder channels" THEN ContactSets
                   ELSE {{}, {"email"}}

RemindersMoves ==
    \/ \E r \in OfferedRuns : Reminding(StartDaily(r))
    \/ \E r \in OfferedRuns : Reminding(StartWeekly(r))
    \/ \E r \in OfferedRuns, b \in OfferedBills :
          Reminding(StartRequested(r, b))
    \/ \E r \in OfferedRuns, b \in OfferedBills :
          Reminding(StartUpcoming(r, b))
    \/ \E r \in Runs : Reminding(ReadList(r))
    \/ \E r \in Runs : Reminding(PickBill(r))
    \/ \E r \in Runs : Reminding(EndRun(r))
    \/ \E r \in Runs : Reminding(LookUp(r))
    \/ \E r \in Runs : Reminding(LookUpNothing(r))
    \/ \E r \in Runs : Reminding(SendMail(r))
    \/ \E r \in Runs : Reminding(MessageRefused(r))
    \/ \E r \in Runs : Reminding(CreateSmsLog(r))
    \/ \E r \in Runs : Reminding(CallProvider(r))
    \/ \E r \in Runs : Reminding(NoSuchProvider(r))
    \/ \E r \in Runs : Reminding(UpdateSmsLog(r))
    \/ \E r \in Runs : Reminding(LogReminder(r))
    \/ \E r \in Runs : Reminding(LogReminderFails(r))
    \/ \E r \in Runs : Reminding(LogFailure(r))
    \/ \E r \in Runs : Reminding(LogFailureFails(r))
    \/ \E b \in OfferedBills :
          part # "reminder channels" /\ Reminding(BecomeOverdue(b))
    \/ \E b \in OfferedBills :
          part # "reminder channels" /\ Reminding(SettleBill(b))
    \/ \E b \in OfferedBills :
          part # "reminder channels" /\ Reminding(RemoveBill(b))
    \/ part # "reminder channels"
       /\ Reminding(ChangeContacts /\ contacts' \in OfferedContacts)
    \/ Reminding(CrashRuns)

-----------------------------------------------------------------------------
(***************************************************************************)
(* Sessions: logging in, refreshing and ending; or the account alone.      *)
(***************************************************************************)
SessionsParts == {"sessions", "account"}
SigningIn(action) ==
    /\ action
    /\ UNCHANGED <<vars, enrollmentVars, remindersVars, zoomVars,
                   profilesVars, courseworkVars, filesVars, ratesVars, part>>

FirstChange == part = "sessions" => counters.password = 1

SessionsMoves ==
    \/ \E h \in Callers : part = "sessions" /\ SigningIn(StartLogin(h))
    \/ \E h \in Callers : SigningIn(CreateSession(h))
    \/ \E h \in Callers, s \in SessionIds : SigningIn(StartRefresh(h, s))
    \/ \E h \in Callers : SigningIn(RefreshUser(h))
    \/ \E h \in Callers : SigningIn(RefreshRead(h))
    \/ \E h \in Callers : SigningIn(RefreshSave(h))
    \/ \E h \in Callers : SigningIn(RefreshAnswer(h))
    \/ \E s \in SessionIds : SigningIn(Logout(s))
    \/ \E h \in Callers : FirstChange /\ SigningIn(StartReset(h))
    \/ \E h \in Callers, s \in SessionIds :
          FirstChange /\ SigningIn(StartChangePassword(h, s))
    \/ \E h \in Callers : SigningIn(DeleteByUserId(h))
    \/ \E h \in Callers : part = "account" /\ SigningIn(StartConfirmEmail(h))
    \/ \E h \in Callers :
          part = "account" /\ SigningIn(StartConfirmNewEmail(h))
    \/ \E h \in Callers : SigningIn(HashNewPassword(h))
    \/ \E h \in Callers : SigningIn(AccountRead(h))
    \/ \E h \in Callers : SigningIn(AccountSave(h))
    \/ FirstChange /\ SigningIn(RemoveUser)
    \/ \E h \in Callers : SigningIn(CallFails(h))

-----------------------------------------------------------------------------
(***************************************************************************)
(* Zoom: a teacher's connection; or the meetings, with the tokens of one   *)
(* connection.                                                             *)
(***************************************************************************)
ZoomParts == {"zoom connection", "zoom meetings"}
Zooming(action) ==
    /\ action
    /\ UNCHANGED <<vars, enrollmentVars, remindersVars, sessionsVars,
                   profilesVars, courseworkVars, filesVars, ratesVars, part>>

Connecting(action) == part = "zoom connection" /\ Zooming(action)
Meeting(action) == part = "zoom meetings" /\ Zooming(action)
OnlyConnection == part = "zoom meetings" => grant = NoToken

ZoomMoves ==
    \/ \E h \in ZoomCalls : Connecting(StartCreateCredentials(h))
    \/ \E h \in ZoomCalls : Connecting(CreateCredentials(h))
    \/ \E h \in ZoomCalls, given \in BOOLEAN :
          Connecting(StartUpdateCredentials(h, given, given))
    \/ \E h \in ZoomCalls : Connecting(UpdateFind(h))
    \/ \E h \in ZoomCalls : Connecting(UpdateSave(h))
    \/ Connecting(DeleteCredentials)
    \/ \E h \in ZoomCalls : OnlyConnection /\ Zooming(StartExchange(h))
    \/ \E h \in ZoomCalls : Zooming(StoreFind(h))
    \/ \E h \in ZoomCalls : Zooming(StoreSave(h))
    \/ \E h \in ZoomCalls : Connecting(ReadRefreshToken(h))
    \/ \E h \in ZoomCalls : Connecting(CallRefresh(h))
    \/ \E h \in ZoomCalls : Zooming(StartMeeting(h, TRUE))
    \/ \E h \in ZoomCalls : Meeting(StartMeeting(h, FALSE))
    \/ \E h \in ZoomCalls : Zooming(ReadTokens(h))
    \/ \E h \in ZoomCalls : Zooming(Post(h))
    \/ \E h \in ZoomCalls : Zooming(RecordMeeting(h))
    \/ \E h \in ZoomCalls, m \in MeetingIds,
          who \in Joiners \cup {NotANumber} : Meeting(StartJoin(h, m, who))
    \/ \E h \in ZoomCalls : Meeting(JoinList(h))
    \/ \E h \in ZoomCalls : Meeting(JoinFind(h))
    \/ \E h \in ZoomCalls : Meeting(JoinSave(h))
    \/ \E m \in MeetingIds, status \in MeetingStatus :
          Meeting(SetMeetingStatus(m, status))
    \/ \E h \in ZoomCalls : Meeting(ZoomCallFails(h))

-----------------------------------------------------------------------------
(***************************************************************************)
(* Profiles: students made, asked for, updated and removed; or made while  *)
(* parents register and buy, and accounts are removed.                     *)
(***************************************************************************)
ProfilesParts == {"profiles", "registrations"}
Profiling(action) ==
    /\ action
    /\ UNCHANGED <<vars, enrollmentVars, remindersVars, sessionsVars,
                   zoomVars, courseworkVars, filesVars, ratesVars, part>>

Updating(action) == part = "profiles" /\ Profiling(action)
Enlisting(action) == part = "registrations" /\ Profiling(action)

ProfilesMoves ==
    \/ \E h \in ProfileCalls, email \in Owners :
          Profiling(StartCreateProfile(h, email, Nobody))
    \/ \E h \in ProfileCalls, user \in Addresses :
          Enlisting(StartCreateProfile(h, Nobody, user))
    \/ \E h \in ProfileCalls, a \in Addresses, op \in {"parent", "purchase"} :
          Enlisting(StartRegisterParent(h, a, op))
    \/ \E h \in ProfileCalls : Profiling(GenerateStudentId(h))
    \/ \E h \in ProfileCalls : Profiling(CheckUser(h))
    \/ \E h \in ProfileCalls : Profiling(CheckEmail(h))
    \/ \E h \in ProfileCalls : Profiling(CreateUser(h))
    \/ \E h \in ProfileCalls : Profiling(InsertProfile(h))
    \/ \E h \in ProfileCalls : Profiling(ProfileRefused(h))
    \/ \E h \in ProfileCalls, a \in Addresses : Profiling(StartEnsure(h, a))
    \/ \E h \in ProfileCalls : Profiling(EnsureUser(h))
    \/ \E h \in ProfileCalls : Profiling(EnsureEmail(h))
    \/ \E h \in ProfileCalls, p \in ProfileIds, user \in Owners :
          Updating(StartUpdateProfile(h, p, user))
    \/ \E h \in ProfileCalls : Updating(UpdateFindProfile(h))
    \/ \E h \in ProfileCalls : Updating(UpdateUser(h))
    \/ \E h \in ProfileCalls : Updating(UpdateRead(h))
    \/ \E h \in ProfileCalls : Updating(UpdateSaveProfile(h))
    \/ \E p \in ProfileIds : Updating(RemoveProfile(p))
    \/ \E a \in Addresses : Enlisting(RemoveAccount(a))
    \/ \E h \in ProfileCalls : Enlisting(ProfileCallFails(h))

-----------------------------------------------------------------------------
(***************************************************************************)
(* Coursework: one submission that is handed in again, updated and graded; *)
(* several, while staff keep the performance record by hand; a day's       *)
(* register.  A row is removed while it is the only one of its table.      *)
(***************************************************************************)
CourseworkParts == {"grading", "records", "register"}
Working(action) ==
    /\ action
    /\ UNCHANGED <<vars, enrollmentVars, remindersVars, sessionsVars,
                   zoomVars, profilesVars, filesVars, ratesVars, part>>

Grading(action) == part \in {"grading", "records"} /\ Working(action)
Recording(action) == part = "records" /\ Working(action)
Registering(action) == part = "register" /\ Working(action)

FirstOf(table) == \A r \in RecordIds : r > 1 => table[r].state = "none"
AMark == CHOOSE m \in Marks : TRUE
ListOfPlaces == {[place |-> p, mark |-> AMark] : p \in Places}
ItemsAlone == [place : {CHOOSE p \in Places : TRUE}, mark : Marks]

CourseworkMoves ==
    \/ \E h \in WorkCalls :
          /\ part = "grading" => \A q \in WorkCalls : WorkAt(q, "idle")
          /\ Grading(StartSubmit(h, NoScore))
    \/ \E h \in WorkCalls : Grading(SubmitInsert(h))
    \/ \E h \in WorkCalls, s \in RecordIds, score \in {NoScore, MaxScore} :
          part = "grading" /\ Grading(StartUpdateSubmission(h, s, score))
    \/ \E h \in WorkCalls : Grading(FindSubmission(h))
    \/ \E h \in WorkCalls : Grading(UpdateSaveSubmission(h))
    \/ \E h \in WorkCalls, s \in RecordIds, score \in 1..MaxScore :
          /\ part = "records" => score = 1
          /\ Grading(StartGrade(h, s, score))
    \/ \E h \in WorkCalls : Grading(GradeSave(h))
    \/ \E h \in WorkCalls : Grading(GradeRelations(h))
    \/ \E h \in WorkCalls : Recording(StartCreateRecord(h, MaxScore))
    \/ \E h \in WorkCalls, p \in RecordIds :
          Recording(StartUpdateRecord(h, p, MaxScore))
    \/ \E h \in WorkCalls : Grading(RecordCheck(h))
    \/ \E h \in WorkCalls : Grading(RecordFind(h))
    \/ \E h \in WorkCalls : Grading(RecordInsert(h))
    \/ \E h \in WorkCalls : Grading(RecordSave(h))
    \/ \E h \in WorkCalls, item \in ItemsAlone :
          Registering(StartCreateDay(h, item))
    \/ \E h \in WorkCalls, a \in RecordIds, mark \in Marks :
          Registering(StartUpdateDay(h, a, mark))
    \/ \E h \in WorkCalls : Registering(StartBulkDays(h, ListOfPlaces))
    \/ \E h \in WorkCalls : Registering(DayCheck(h))
    \/ \E h \in WorkCalls : Registering(DayFind(h))
    \/ \E h \in WorkCalls : Registering(DayInsert(h))
    \/ \E h \in WorkCalls : Registering(DaySave(h))
    \/ \E s \in RecordIds :
          FirstOf(submission) /\ Recording(RemoveSubmission(s))
    \/ \E p \in RecordIds :
          FirstOf(performance) /\ Recording(RemoveRecord(p))
    \/ \E a \in RecordIds :
          FirstOf(attendance) /\ Registering(RemoveDay(a))
    \/ \E h \in WorkCalls : Recording(WorkCallFails(h))

-----------------------------------------------------------------------------
(***************************************************************************)
(* Files: uploads with deletions; or with saves of the settings.           *)
(* Rates: requests for currency rates over some days.                      *)
(***************************************************************************)
FilesParts == {"files", "storage"}
Filing(action) ==
    /\ action
    /\ UNCHANGED <<vars, enrollmentVars, remindersVars, sessionsVars,
                   zoomVars, profilesVars, courseworkVars, ratesVars, part>>

Removing(action) == part = "files" /\ Filing(action)
Configuring(action) == part = "storage" /\ Filing(action)

FilesMoves ==
    \/ \E h \in FileCalls, f \in FileIds : Filing(StartUpload(h, f))
    \/ \E h \in FileCalls : Filing(ReadSettings(h))
    \/ \E h \in FileCalls : Filing(ApplyConfig(h))
    \/ \E h \in FileCalls : Filing(IgnoreSettings(h))
    \/ \E h \in FileCalls : Filing(Bucket(h))
    \/ \E h \in FileCalls : Filing(PutObject(h))
    \/ \E h \in FileCalls : Filing(RecordFile(h))
    \/ \E h \in FileCalls, d \in Drivers : Configuring(SaveSettings(h, d))
    \/ \E h \in FileCalls : Configuring(RefreshConfig(h))
    \/ \E h \in FileCalls, f \in FileIds : Removing(DeleteFile(h, f))
    \/ \E h \in FileCalls : Removing(DeleteFilesByContext(h))
    \/ \E h \in FileCalls : Removing(DeleteRows(h))
    \/ \E h \in FileCalls : Filing(FileCallFails(h))
    \/ Filing(RestartFiles)

Rating(action) ==
    /\ action
    /\ UNCHANGED <<vars, enrollmentVars, remindersVars, sessionsVars,
                   zoomVars, profilesVars, courseworkVars, filesVars, part>>

RatesMoves ==
    \/ \E h \in RateCalls, key \in BOOLEAN : Rating(GetRateForDate(h, key))
    \/ \E h \in RateCalls : Rating(FetchRates(h))
    \/ \E h \in RateCalls : Rating(FetchFails(h))
    \/ \E h \in RateCalls : Rating(SaveRates(h))
    \/ \E h \in RateCalls : Rating(LatestRate(h))
    \/ \E h \in RateCalls : Rating(RateCallFails(h))
    \/ Rating(NextDay)
    \/ Rating(ProviderUpdates)

-----------------------------------------------------------------------------
MCInit ==
    /\ part \in Parts
    /\ Init
    /\ EnrollmentInit
    /\ RemindersInit
    /\ contacts \in OfferedContacts
    /\ FindOverdue \subseteq OfferedBills
    /\ part \notin RemindersParts => contacts = {} /\ FindOverdue = {}
    /\ SessionsInit
    /\ ZoomInit
    /\ ProfilesInit
    /\ CourseworkInit
    /\ FilesInit
    /\ part \notin FilesParts => savedDriver = EnvDriver
    /\ RatesInit

MCNext ==
    \/ part = "invoice numbers" /\ NumberMoves
    \/ part \in EnrollmentParts /\ EnrollmentMoves
    \/ part \in RemindersParts /\ RemindersMoves
    \/ part \in SessionsParts /\ SessionsMoves
    \/ part \in ZoomParts /\ ZoomMoves
    \/ part \in ProfilesParts /\ ProfilesMoves
    \/ part \in CourseworkParts /\ CourseworkMoves
    \/ part \in FilesParts /\ FilesMoves
    \/ part = "rates" /\ RatesMoves

MCSpec == MCInit /\ [][MCNext]_mcvars

\* Nothing tells two handlers apart.
Interchangeable == Permutations(Callers)

\* Fees of two digits: three of them still fit the column.
TwoDigits == [c \in Entries |-> 50]

-----------------------------------------------------------------------------
\* The rows, histories and handlers of the component that moves keep their
\* types: what is read is of the row that was asked for, and no field is lost.
SchoolTypeOK ==
    /\ part = "invoice numbers" => TypeOK
    /\ part \in EnrollmentParts => EnrollmentTypeOK
    /\ part \in RemindersParts => RemindersTypeOK
    /\ part \in SessionsParts => SessionsTypeOK
    /\ part \in ZoomParts => ZoomTypeOK
    /\ part \in ProfilesParts => ProfilesTypeOK
    /\ part \in CourseworkParts => CourseworkTypeOK
    /\ part \in FilesParts => FilesTypeOK
    /\ part = "rates" => RatesTypeOK
=============================================================================
