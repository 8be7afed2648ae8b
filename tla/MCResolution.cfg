SPECIFICATION Spec
CONSTANTS
  Attempt = {a1, a2, a3}
  Resolution = {r1, r2}
  Profile = {p1, p2, p3}
  MaxBoot = 2
  MaxSession = 3
SYMMETRY Symmetry
CHECK_DEADLOCK FALSE
INVARIANTS
  OneUnaccounted
  AbandonedIsSettled
  OneTransaction
PROPERTY FinalNeverAhead
