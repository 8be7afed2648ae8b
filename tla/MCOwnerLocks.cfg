CONSTANTS
  Commands = {c1, c2}
  Roots = {r1, r2}
  Compositors = {k1}
  Nobody = nobody
  MaxInodes = 4
SPECIFICATION Spec
INVARIANTS
  AloneUnlessOusted
  OverlapIsNoticed
  OneActorPerCompositor
CHECK_DEADLOCK FALSE
