SPECIFICATION Spec
CONSTANTS
  Count = 4
  NumBuffers = 3
  HasPass = TRUE
  Liberties = {}
  MaxOps = 6
INVARIANTS NoFault AllBuffersAgree
PROPERTIES IsFrameQueue KeepsGoing
