SPECIFICATION FairSpec
CONSTANTS
  Leftovers <- MCLeftovers
  Answers <- MCAnswers
  MaxPolls = 2
  MaxFaults = 1
INVARIANTS LeftAfterPasses
PROPERTIES OnlyWhatWasAsked EveryCleanupEnds
