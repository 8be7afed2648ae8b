CONSTANTS
  MaxPid = 3
  Sessions = {s1, s2}
  MaxStarts = 3
  MaxBefore = 5
  MaxDisturbed = 3
SYMMETRY Interchangeable
SPECIFICATION Spec
INVARIANTS
  KeepsEveryTab
  SavesForegroundJob
  SavesPresentSession
  RunningAgentsNotReplayed
  DeclarationFollowsAgent
CHECK_DEADLOCK FALSE
