SPECIFICATION Spec
CONSTANTS
  c1 = c1
  c2 = c2
  c3 = c3
  Client = {c1, c2, c3}
  Shapes <- MCFewShapes
  MaxConn = 2
  MaxFds = 4
  MaxRestarts = 0
  Faults = {"read"}
INVARIANT ReadsExact
CHECK_DEADLOCK FALSE
