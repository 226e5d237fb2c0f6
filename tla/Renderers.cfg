SPECIFICATION Spec
CONSTANTS
  Files <- Plain
  Buffers = {u1}
  Images = {i1, i2}
  Passes = {0, 1}
  RendererLiberties = {}
  MaxPipelines = 3
  MaxFrames = 2
  MaxHand = 2
INVARIANTS PipelinesLive DrawnAsBound FileKept
CHECK_DEADLOCK FALSE
