SPECIFICATION Spec
CONSTANTS
  Session = {s1, s2}
  Grant = {g1, g2, g3}
  Request = {r1, r2}
  None = None
  RefreshTtl = 1
  MaxTime = 0
  AllowCrash = TRUE
SYMMETRY Symmetry
INVARIANTS OneLiveToken LineageIsAChain HalvesAgree EndedIsInactive
PROPERTY ImplementsChain
CHECK_DEADLOCK FALSE
