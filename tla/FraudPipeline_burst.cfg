SPECIFICATION Spec
CONSTANTS
  None = None
  User = {u1}
  Device = {d1}
  Address = {a1}
  Private = {a1}
  Place = {home, abroad}
  PlaceOf <- HomeAndAbroad
  Origin = origin
  Claims = {home}
  Amounts = {1}
  Nights = {FALSE}
  IpRisks = {10}
  Answers <- Calm
  AiAttempts = 1
  AlertStatus = {}
  Slot = {s1, s2}
  VelocityWindow = 1
  FailureWindow = 1
  MaxTxns = 5
  MaxTime = 1
  AllowFailure = FALSE
  a1 = a1
  a2 = a2
  home = home
  abroad = abroad
INVARIANTS BurstIsBounded AllowedIsVouched BlockIsEarned
SYMMETRY Symmetry
CHECK_DEADLOCK FALSE
