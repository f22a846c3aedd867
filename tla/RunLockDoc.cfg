SPECIFICATION LockSpec
CONSTANTS
  Procs = {p1, p2}
  MaxAttempts = 2
INVARIANTS MutualExclusion
CHECK_DEADLOCK FALSE
