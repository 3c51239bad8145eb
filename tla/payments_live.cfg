SPECIFICATION FairSpec
CONSTANTS
  s1 = s1
  Students = {s1}
  Owner <- OneOwner
  Invoices = {i1}
  Trackers = {k1, k2}
  MaxTxn = 1
  Slots = {r1, r2}
  Batch = 1
  HookCarries = "tracker"
  Events = {"succeeded", "failed"}
  Ops = {"invoiceSession", "createSession", "cleanup", "remove", "crash"}
  None = None
  External = External
PROPERTIES PaymentIsEventuallySettled
CHECK_DEADLOCK FALSE
