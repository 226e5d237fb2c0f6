SPECIFICATION Spec
CONSTANTS
  Count = 2
  NumBuffers = 3
  HasPass = TRUE
  Liberties = {"advance", "mode", "resume", "mix", "reinit"}
  MaxOps = 3
INVARIANTS NeverPending FencesHold PassInStep
CHECK_DEADLOCK FALSE
