CONSTANTS
  Heads = {h1, h2}
  Elems = {e1, e2, e3, e4}
  RingSize = 4
  Width = 3
  Height = 2
  TabWidth = 2
  Bits = 8
  LongBits = 12
  Formats <- Calls
  Ops = {"lite", "std"}
  TreeKeys = {1, 2, 3, 4}
  TreeValues = {8, 9}
  Size = 5
  Bytes = {0, 1, 200}
  Firmware <- Tables
  MaxCpus = 2
  High = 25
  Null = Null
SPECIFICATION MCSpec
INVARIANTS RingsRepresentQueues NumbersReadBack OutputIsMeaning ScreenShowsOutput SearchesAgree DepthsExact StringsExact DescribesMachine
PROPERTIES OnlyOnePair
CHECK_DEADLOCK FALSE
