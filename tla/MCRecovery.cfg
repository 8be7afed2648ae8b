CONSTANTS
  Approval = {a, b}
  Root = {q, r}
  Ref = {1, 2}
  Focus = 3
  NoTarget = 0
  MaxSession = 2
  MaxEffects = 1
SPECIFICATION Spec
CHECK_DEADLOCK FALSE
SYMMETRY Interchangeable
INVARIANTS
  UnresolvedBlocks
  EffectsJournalled
  VerifiedIsComplete
