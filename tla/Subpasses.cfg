SPECIFICATION Spec
CONSTANTS
  ColorCounts = {1, 3}
  ImageCounts = {2, 3}
  MaxAttachments = 4
  Children = {c1, c2}
  Count = 2
  SubLiberties = {}
  MaxFrames = 3
INVARIANTS Safe  PartsIntact FramesApart
PROPERTIES IsFrameQueue CallsReturn
CHECK_DEADLOCK FALSE
