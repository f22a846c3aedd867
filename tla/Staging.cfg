SPECIFICATION FairSpec
CONSTANTS
  Situations <- MCSituations
  Hosts <- MCHosts
  Retries = 2
  MaxFaults = 2
INVARIANTS ReusedNeverDeleted OneHypervisor LeavesWhatItFound NothingDeletedTwice
PROPERTIES RunEnds
CHECK_DEADLOCK FALSE
