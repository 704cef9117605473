SPECIFICATION MCSpec
CONSTANTS
  None = None
  Amounts <- BoundaryAmounts
  Velocities <- BoundaryVelocities
  Failures <- BoundaryFailures
  IpRisks <- BoundaryIpRisks
  Forest <- BoundaryForest
  Answers <- AnswersSeen
  Payments = {p1, p2}
  Limits = {1, 2}
  Customer = {c1, c2}
  Number = {1, 2}
  Thread = {t1, t2}
  Torn = Torn
  MaxBreaks = 2
  Field = {f1, f2}
  BaseVersion = {v1, v2}
  MaxTime = 1
  MaxSecret = 3
INVARIANTS DeskTypeOK OneSignalNeverBlocks AiOnlyRaises
  SuspicionIsShownOnce CountersDriftOnlyByRaces BlockedIsSaid RecordsAreKept OnlineIsLatest
  FieldsStayReadable
PROPERTY EvidenceNeverHelps
SYMMETRY Symmetry
CHECK_DEADLOCK FALSE
