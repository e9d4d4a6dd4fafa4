SPECIFICATION Spec
CONSTANTS
  r1 = r1
  r2 = r2
  r3 = r3
  Req = {r1, r2, r3}
  Shapes <- MCPlaceShapes
  Devices = {"d1", "d2"}
  MaxConn = 2
  MaxRestarts = 0
  StreamFaults = TRUE
INVARIANT LocationIsLatest
CHECK_DEADLOCK FALSE
