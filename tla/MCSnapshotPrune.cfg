CONSTANTS
  Proc = {p, q}
  MaxSnap = 2
  MaxDay = 2
  KeepDays = 1
  Overnight = FALSE
SPECIFICATION Spec
CHECK_DEADLOCK FALSE
PROPERTY NeverDeletesReferenced
