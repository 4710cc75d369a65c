SPECIFICATION FairSpec
CONSTANTS
  c1 = c1
  c2 = c2
  i1 = i1
  i2 = i2
  a = a
  b = b
  e = e
  Null = Null
  CPUs = {c1, c2}
  Threads = {i1, i2, a, b, e}
  IdleThread <- IdleOf
  Priority <- PriorityOf
  NRQS = 2
  SchedPrios <- Prios
INVARIANTS EventNeverOverLock CountExact QueuedAtHome
PROPERTIES RingContract EventEnds
CHECK_DEADLOCK FALSE
