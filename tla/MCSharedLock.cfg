CONSTANTS
  t1 = t1
  t2 = t2
  t3 = t3
  Threads = {t1, t2}
  Calls <- AllCalls
  WqHead = WqHead
  Null = Null
SPECIFICATION FairSpec
INVARIANTS MutualExclusion NumberCountsHolders NoNullInQueue DrainedIsFree
PROPERTIES DrainForbidsLock DrainSettles DrainedNeverWaits
