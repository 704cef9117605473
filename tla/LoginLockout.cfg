SPECIFICATION Spec
CONSTANTS
  Email = {e1, e2}
  Registered = {e1}
  Address = {i1}
  Attempt = {a1, a2}
  LockMax = 1
  ResetAfter = 0
  MaxTime = 1
  MaxFailures = 3
  MaxCrashes = 1
  None = None
  Threshold = 2
  LockBase = 1
SYMMETRY Symmetry
CONSTRAINT SerialAfterCrash
INVARIANTS LocksAreEarned SerialLocksAtThreshold SerialLockHolds
PROPERTY SerialOffensesNeverDrop
CHECK_DEADLOCK FALSE
