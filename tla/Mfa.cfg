SPECIFICATION Spec
CONSTANTS
  Session = {s1}
  Request = {r1, r2}
  Secret = {k1, k2}
  Batch = {b1, b2}
  Slot = {i1}
  None = None
  Offered = {"enroll", "confirm", "verify", "disable", "regenerate"}
  MfaThreshold = 5
SYMMETRY Symmetry
INVARIANTS ListedCodeOnce RedeemedCodeIsSpent SecretIsConfirmed
CHECK_DEADLOCK FALSE
