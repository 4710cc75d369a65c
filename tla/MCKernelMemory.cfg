\* Two callers, and numbers of frames with which growth is full, partial and
\* impossible at different points.
CONSTANTS
  c1 = c1
  c2 = c2
  Callers = {c1, c2}
  BootCaller = c1
  FrameCounts <- Counts
  NTables = 1
  NPages = 14
  PageUnits = 6
  BufSize <- Sizes
  ZMin = 2
  ZNum = 3
  StackPages = 2
  StackBase = 1
  Null = Null
SPECIFICATION FairSpec
INVARIANTS HeldMemoryMapped NothingLost
PROPERTIES AllocationReturns SoundWhenOneGrows
CHECK_DEADLOCK FALSE
