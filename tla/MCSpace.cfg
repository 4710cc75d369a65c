CONSTANTS
  c1 = c1
  c2 = c2
  None = None
  Longest = 3
  Callers = {c1, c2}
  RangeLists <- Lists
  WordBits = 2
  UNUMBER = 2
  NNUMBER = 2
  W = 64
  P = 2
  PdBegin = 32
  PdEnd = 55
  sub = sub
  Kernel = Kernel
  Mappers = {Kernel, sub}
  SubSize <- Subs
  Objects <- Objs
  First = "first"
  Entries = 4
  MaxPages = 3
  ObjSize <- Sizes
  Type <- Types
  Target <- Targets
  DsPages <- Frames
  DsBytes <- Bytes
  Tabled <- Tables
  MaxRounds = 4
  Cpus = {1}
  Addresses <- Faults
  Null = Null
SPECIFICATION MCSpec
INVARIANTS BitmapsDisjoint BootReport OwnedOnce RegionsApart FaultInWindow
PROPERTIES CallsReturn PagefaultFindsPage PagefaultReturns
\* A CPU that is lost in a null mapper or a torn list, or runs in a ring, stops.
CHECK_DEADLOCK FALSE
