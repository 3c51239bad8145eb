SPECIFICATION Spec
CONSTANTS
  s1 = s1
  Students = {s1}
  Owner <- OneOwner
  Invoices = {i1}
  Trackers = {k1}
  MaxTxn = 2
  Slots = {r1}
  Batch = 1
  HookCarries = "tracker"
  Events = {"succeeded", "failed", "refunded"}
  Ops = {"invoiceSession", "createSession", "refund", "cleanup", "bankTransfer",
         "update", "markPaid", "approve", "remove", "dbError", "crash"}
  None = None
  External = External
INVARIANTS SuccessMeansSettled
PROPERTIES ImplementsLedger
CHECK_DEADLOCK FALSE
