CONSTANTS
  Tiled = {1, 2, 3, 4}
  Floating = {5}
  NoWindow = 0
  home <- MCHome
  Budget = 9
  Starts <- MCStarts
  MaxRuns = 2
  MaxUser = 1
SPECIFICATION Spec
CHECK_DEADLOCK FALSE
INVARIANTS
  AtMostOneCallAstray
  UndisturbedRunVerifies
  OneRunPerApproval
  IntentsCoverCalls
  AtMostOneCallLate
PROPERTY VerifiedIsDesired
