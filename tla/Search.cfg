SPECIFICATION FairSpec
CONSTANTS
  Tags <- MCTags
  Target <- MCTarget
  Line = 16
  Epsilon = 3
  Curves <- MCCurves
  Faults = {"stlIdle", "stlRunning", "noTx", "lowTx"}
  None = None
INVARIANTS TypeOK AnnouncedIsRecorded RecordedIsMeasured StricterIsLower NoLoadMeasuredTwice WithinEpsilon
PROPERTIES SearchEnds
CHECK_DEADLOCK FALSE
