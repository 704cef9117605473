SPECIFICATION Spec
CONSTANTS
  Session = {s1}
  Request = {r1}
  Secret = {k1}
  Batch = {b1}
  Slot = {i1}
  None = None
  Offered = {"enroll", "confirm", "verify", "disable", "regenerate"}
  MfaThreshold = 5
INVARIANT RepeatedMissesLock
CHECK_DEADLOCK FALSE
