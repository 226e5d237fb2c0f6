SPECIFICATION MemorySpec
CONSTANTS
  Memories = {m1, m2}
  Arrays = {a1, a2}
  Asked <- PlainOrShared
  Sizes = {1, 4}
  Elements = {1, 2}
  Offsets = {0, 1}
  Aligned <- Even
  Wrap = 8
  Types <- TwoTypes
  MemoryLiberties = {}
  MaxAllocations = 2
  MaxBuffers = 2
INVARIANTS MemoryInv NothingLost
CHECK_DEADLOCK FALSE
SYMMETRY Alike
