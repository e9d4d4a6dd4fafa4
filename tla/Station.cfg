SPECIFICATION FairStation
CONSTANTS
  d1 = d1
  d2 = d2
  Devices = {d1, d2}
  Measurements <- MCMeasurements
  Req <- MCReq
  Shapes <- MCShapes
  MaxConn = 1
  MaxRestarts = 1
  StreamFaults = FALSE
CHECK_DEADLOCK FALSE
INVARIANTS StationTypeOK LateRowsAreOrphans RecordingBound
PROPERTIES RecordsUntilFull
