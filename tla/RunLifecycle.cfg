SPECIFICATION Spec
CONSTANTS
  Duration = 3
  MaxDelay = 1
  Settings = {s1, s2}
  Intervals <- MCIntervals
  RetryCount = 2
  Measurements = 2
  Runs = 2
  Down = Down
INVARIANTS CompleteStats ServedAsAsked QuietBetweenRuns
PROPERTIES RunEnds
CHECK_DEADLOCK FALSE
