SPECIFICATION FairSpec
CONSTANTS
  Session = {s1}
  Grant = {g1, g2, g3}
  Request = {r1, r2}
  None = None
  RefreshTtl = 1
  MaxTime = 1
  AllowCrash = FALSE
PROPERTY ReplayClosesSession
CHECK_DEADLOCK FALSE
