SPECIFICATION Spec
CONSTANTS
  Tab = {t1}
  Call = {c1}
  Job = {j1}
  Session = {s1}
  Grant = {g1, g2}
  None = None
SYMMETRY Symmetry
INVARIANT RetriedCallAuthenticates
CHECK_DEADLOCK FALSE
