SPECIFICATION Spec
CONSTANTS
  Registry <- TwoDevices
  Own = {7}
  Extensions = {"swapchain", "extra"}
  Default = {"swapchain"}
  Available <- Known
  Families <- FamiliesOf
  Threads = {t1, t2}
  Handlers = {"own"}
  Liberties = {}
  MaxCalls = 2
  MaxInits = 1
INVARIANTS Safe DevicesAsAsked QueuesKept
PROPERTIES CallsReturn
CHECK_DEADLOCK FALSE
