SPECIFICATION Spec
CONSTANTS
  s1 = s1
  Students = {s1}
  Owner <- OneOwner
  Invoices = {i1}
  Trackers = {k1}
  MaxTxn = 1
  Slots = {r1}
  Batch = 1
  HookCarries = "transactionId"
  Events = {"succeeded"}
  Ops = {"createSession"}
  None = None
  External = External
INVARIANTS AnsweredPaymentIsSettled
CHECK_DEADLOCK FALSE
