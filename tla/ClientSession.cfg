SPECIFICATION Spec
CONSTANTS
  Tab = {t1, t2}
  Call = {c1, c2}
  Job = {j1, j2}
  Session = {s1, s2}
  Grant = {g1, g2, g3}
  None = None
CONSTRAINTS OneDisturbance FewGrants
SYMMETRY Symmetry
INVARIANTS TypeOK ReplayIsExcused CredentialsAreHonoured LogoutSticks
CHECK_DEADLOCK FALSE
