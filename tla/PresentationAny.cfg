SPECIFICATION Spec
CONSTANTS
  Count = 3
  NumBuffers = 3
  Liberties = {"frames", "unsynced", "order", "stale_present", "stale_acquire"}
  MaxFrames = 3
  MaxMade = 4
INVARIANTS FencesAnswer
CHECK_DEADLOCK FALSE
