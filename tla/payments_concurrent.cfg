SPECIFICATION Spec
CONSTANTS
  s1 = s1
  Students = {s1}
  Owner <- OneOwner
  Invoices = {i1, i2}
  Trackers = {k1, k2}
  MaxTxn = 2
  Slots = {r1, r2}
  Batch = 1
  HookCarries = "tracker"
  Events = {"succeeded", "failed"}
  Ops = {"invoiceSession", "createSession", "refund", "crash"}
  None = None
  External = External
SYMMETRY Interchangeable
INVARIANTS TypeOK PaymentIsBacked RefundIsBacked AnsweredPaymentIsSettled
PROPERTIES ImplementsLedger
CHECK_DEADLOCK FALSE
