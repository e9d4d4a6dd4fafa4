SPECIFICATION Spec
CONSTANTS
  BufferSize = 40
  MaxParams = 5
  MaxEndpoint = 6
  MaxBytes = 5
INVARIANTS BodyAsItsParams ParamAsInQuery Base64RoundTrip StoredAsMeasured
CHECK_DEADLOCK FALSE
