SPECIFICATION Spec
CONSTANTS
  Handlers = {h1, h2}
  RequestIds = {r1, r2, r3}
  MaxLen = 1
  NoId = NoId
  MainMayDie = TRUE
SYMMETRY Symmetry
INVARIANTS RunsExactlyOnceInOrder ResultIsOfFinishedRun
PROPERTIES NotFoundIsHonest OnlyBadBodiesLockOut
