SPECIFICATION Spec
CONSTANTS
  c1 = c1
  c2 = c2
  c3 = c3
  Client = {c1, c2, c3}
  Shapes <- MCCutShapes
  MaxConn = 1
  MaxFds = 2
  MaxRestarts = 1
  Faults = {"cut"}
SYMMETRY Symmetry
INVARIANTS TypeOK StatusTellsTruth ServiceBound
PROPERTIES FullDatabaseMute ImplementsStore
CHECK_DEADLOCK FALSE
