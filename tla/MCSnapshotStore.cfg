CONSTANTS
  Proc = {p, q}
  MaxSnap = 3
  MaxDay = 2
  KeepDays = 1
  Overnight = TRUE
SPECIFICATION Spec
CHECK_DEADLOCK FALSE
SYMMETRY Processes
INVARIANTS
  ReferencesResolve
  RecentDaysKept
