SPECIFICATION Spec
CONSTANTS
  Configs <- MCConfigs
  Bursts <- MCBursts
  Others = 1
  PortMask = 2
  LatencyMask = 4
INVARIANTS RowsAreTheChains TotalsCountOnce
CHECK_DEADLOCK FALSE
