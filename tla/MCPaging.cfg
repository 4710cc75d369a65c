CONSTANTS
  c1 = c1
  c2 = c2
  t1 = t1
  t2 = t2
  t3 = t3
  Cpus = {c1, c2}
  Threads = {t1, t3}
  Home <- TwoCpus
  Boot = t1
  Slots = {10, 11, 12}
  Frames = {0, 1, 2}
  FreeFrames = {2}
  Tables = {1, 2}
  Entries = {0}
  Data = {7}
  Ranges <- Some
  PageBytes = 4
  Junk = Junk
  Null = Null
SPECIFICATION Spec
INVARIANTS SlotsHeldOnce AccessReachesFrame
PROPERTIES TablesChangeByEnter
