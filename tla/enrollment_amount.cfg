SPECIFICATION EnrollmentSpec
CONSTANTS
  Classes = {c1, c2}
  Statuses = {"inactive"}
  MaxInvoice = 1
  Slots = {r1}
  Fee <- TwoDigits
  MaxAmount = 99999999
  None = None
INVARIANT AmountIsTheSum
CHECK_DEADLOCK FALSE
