SPECIFICATION FairSpec
CONSTANTS
  a = a
  b = b
  c = c
  d = d
  Chains <- MCChains
  Macs = {a, b, c, d}
  Configs <- MCConfigs
  RetryCount = 2
  ArpRetries = 2
INVARIANTS VerdictIsExact ResolvedMeansAnswered QuietWhenOver
PROPERTIES CheckEnds
CHECK_DEADLOCK FALSE
