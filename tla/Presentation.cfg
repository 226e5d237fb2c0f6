SPECIFICATION Spec
CONSTANTS
  Count = 3
  NumBuffers = 3
  Liberties = {"stale_present"}
  MaxFrames = 6
  MaxMade = 5
INVARIANTS NoFault AcquiresAccounted
PROPERTIES IsDisplay CallsReturn
CHECK_DEADLOCK FALSE
