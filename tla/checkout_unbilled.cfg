SPECIFICATION Spec
CONSTANTS
  Students = {s1}
  Classes = {c1}
  Statuses = {"dropped"}
  MaxCart = 2
  MaxItem = 2
  Slots = {r1, r2}
  Ops = {"get", "add", "checkout", "fail"}
  None = None
INVARIANTS AnsweredCheckoutIsBilled
CHECK_DEADLOCK FALSE
