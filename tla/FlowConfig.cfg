SPECIFICATION Spec
CONSTANTS
  Options <- MCOptions
  Frames <- MCFrames
  Imix = 0
  Random <- MCRandom
  LatencyRate = 3
  PortMask = 4
  LatencyMask = 8
INVARIANTS ChainsApart UntoldIsExact ExactStaysExact TrafficAsAsked
CHECK_DEADLOCK FALSE
