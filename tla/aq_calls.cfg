SPECIFICATION HistorySpec
CONSTANTS
  p1 = p1
  p2 = p2
  c1 = c1
  c2 = c2
  Producers = {p1, p2}
  Consumers = {c1, c2}
  Peekers = {}
  Counters = {c2}
  Creator = c1
  NULL = NULL
  InitialMask = 1
  MaxBlocks = 2
  MaxPushes = 2
  GuintModulus = 16
SYMMETRY Symmetry
INVARIANTS BlockBounds RetiredReclaimed
PROPERTIES NoOverwrite DeliveredOnce LengthBoundedInBlock LinearizableFifo
