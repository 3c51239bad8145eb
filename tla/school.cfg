SPECIFICATION MCSpec
CONSTANTS
  Requests = {q1, q2, q3}
  MaxNumber = 4
  MaxRetries = 2
  Given = {3}
  Ops = {"remove", "custom"}
  Classes = {c1, c2}
  Statuses = {"inactive", "pending_payment"}
  MaxInvoice = 2
  Slots = {h1, h2}
  Fee <- TwoDigits
  MaxAmount = 99999999
  None = None
  Bills = {b1, b2}
  MaxRun = 2
  MaxSession = 2
  MaxHash = 3
  MaxPassword = 3
  Callers = {h1, h2}
  MaxCredential = 2
  MaxToken = 2
  MaxMeeting = 1
  Joiners = {j1}
  NotANumber = NotANumber
  ZoomCalls = {h1, h2}
  Addresses = {a1}
  Nobody = Nobody
  MaxProfile = 2
  ProfileCalls = {h1, h2}
  MaxScore = 2
  MaxRecord = 2
  Places = {p1, p2}
  Marks = {present, absent}
  NoMark = NoMark
  Unsure = Unsure
  WorkCalls = {h1, h2}
  EnvDriver = "s3"
  MaxFile = 2
  FileCalls = {h1, h2}
  MaxDay = 3
  RateCalls = {h1, h2}
SYMMETRY Interchangeable
INVARIANTS SchoolTypeOK
           GivesUpOnlyWhenOvertaken NoGaps
           NoDoubleCharge ChargedUnlessOverlapped UpdateIsExact RowsAsAsked
           ReportedReminderWasSent RemindedWasOwed EndedRunIsComplete
           HeldHashIsCurrent EndedSessionStaysEnded AccountAsWanted
           StoredTokenIsCurrent DisconnectedStaysSo
           EveryMeetingIsRecorded MeetingAsAsked
           RefusedOnlyBehindAnother OneProfilePerAccount
           RemovedProfileStaysRemoved
           OneRecordEach GradesAgree RegisterAsTaken
           RecordedFileIsStored StoredAsConfigured RatesNeverGoBack
PROPERTY KeepsEnrollmentBook
CHECK_DEADLOCK FALSE
