SPECIFICATION Spec
CONSTANTS
  FrameSize = 3
  BufferSize = 7
  MaxSent = 15
  MaxAltered = 2
INVARIANTS TypeOK
PROPERTIES NoByteTwice ReportIsOldest SkipsOnlyBroken
