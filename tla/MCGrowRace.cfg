\* As MCKernelMemory.cfg, with enough frames to fill the dataspace.
CONSTANTS
  c1 = c1
  c2 = c2
  Callers = {c1, c2}
  BootCaller = c1
  FrameCounts <- Plenty
  NTables = 1
  NPages = 14
  PageUnits = 6
  BufSize <- Sizes
  ZMin = 2
  ZNum = 3
  StackPages = 2
  StackBase = 1
  Null = Null
SPECIFICATION Spec
INVARIANTS ChunksDisjoint
CHECK_DEADLOCK FALSE
