SPECIFICATION Spec
CONSTANTS
  r1 = r1
  r2 = r2
  Req = {r1, r2}
  Shapes <- MCCleanShapes
  Devices = {"d1", "d2"}
  MaxConn = 1
  MaxRestarts = 0
  StreamFaults = FALSE
INVARIANT NilDbAnswered
CHECK_DEADLOCK FALSE
