SPECIFICATION Spec
CONSTANTS
  Requests = {r1, r2}
  MaxNumber = 3
  MaxRetries = 5
  Given = {}
  Ops = {"custom"}
INVARIANTS GivesUpOnlyInRaces
CHECK_DEADLOCK FALSE
