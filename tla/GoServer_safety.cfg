SPECIFICATION Spec
CONSTANTS
  r1 = r1
  r2 = r2
  r3 = r3
  Req = {r1, r2, r3}
  Shapes <- MCShapes
  Devices = {"d1", "d2"}
  MaxConn = 2
  MaxRestarts = 1
  StreamFaults = TRUE
SYMMETRY Symmetry
INVARIANTS TypeOK StatusTellsTruth MeasurementsExact
PROPERTIES PinnedForever FullPoolMute
CHECK_DEADLOCK FALSE
