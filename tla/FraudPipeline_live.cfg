SPECIFICATION FairSpec
CONSTANTS
  None = None
  User = {u1}
  Device = {d1}
  Address = {a1, a2}
  Private = {}
  Place = {home, abroad}
  PlaceOf <- HomeAndAbroad
  Origin = origin
  Claims = {abroad, None}
  Amounts = {1}
  Nights = {FALSE}
  IpRisks = {10}
  Answers <- AllOrNothing
  AiAttempts = 2
  AlertStatus = {"RESOLVED"}
  Slot = {s1, s2}
  VelocityWindow = 1
  FailureWindow = 1
  MaxTxns = 2
  MaxTime = 0
  AllowFailure = TRUE
  a1 = a1
  a2 = a2
  home = home
  abroad = abroad
INVARIANT LastPaymentDecides
PROPERTIES RequestsEnd SuspicionIsAlerted
CHECK_DEADLOCK FALSE
