SPECIFICATION FairSpec
CONSTANTS
  Handlers = {h1, h2}
  RequestIds = {r1, r2}
  MaxLen = 1
  NoId = NoId
  MainMayDie = FALSE
PROPERTIES EveryAcceptedRunFinishes ServerBecomesFree
