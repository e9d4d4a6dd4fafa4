SPECIFICATION FairSpec
CONSTANTS
  r1 = r1
  r2 = r2
  r3 = r3
  Req = {r1, r2, r3}
  Shapes <- MCStoreShapes
  Devices = {"d1", "d2"}
  MaxConn = 2
  MaxRestarts = 1
  StreamFaults = FALSE
INVARIANTS LocationIsLatest
PROPERTIES ImplementsStore EveryRequestEnds OnlyPostsLeak
CHECK_DEADLOCK FALSE
