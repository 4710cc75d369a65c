CONSTANTS
  t1 = t1
  t2 = t2
  Threads = {t1, t2}
  IdleThread = t1
  Lines = {0, 4, 14}
  Multiboot <- Reports
  Word = 4194304
  Null = Null
SPECIFICATION Spec
INVARIANTS RangesSound BootInOrder StackOfCurrent
PROPERTIES TimerServed
