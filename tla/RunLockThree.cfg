SPECIFICATION LockSpec
CONSTANTS
  Procs = {p1, p2, p3}
  MaxAttempts = 2
SYMMETRY Symmetry
INVARIANTS OverlapNeedsUnlinkRace NoStaleLock
CHECK_DEADLOCK FALSE
