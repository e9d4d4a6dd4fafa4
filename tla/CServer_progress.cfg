SPECIFICATION FairSpec
CONSTANTS
  c1 = c1
  c2 = c2
  c3 = c3
  Client = {c1, c2, c3}
  Shapes <- MCFewShapes
  MaxConn = 1
  MaxFds = 2
  MaxRestarts = 0
  Faults = {"read"}
PROPERTIES AcceptedEnds OnlySilentStay
CHECK_DEADLOCK FALSE
