SPECIFICATION Spec
CONSTANTS
  Handlers = {h1}
  RequestIds = {r1, r2, r3, r4}
  MaxLen = 2
  NoId = NoId
  MainMayDie = TRUE
SYMMETRY Symmetry
INVARIANTS FreeMeansIdle ResultsBounded
PROPERTIES ImplementsRunService
