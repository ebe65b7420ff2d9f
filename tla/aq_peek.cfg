SPECIFICATION HistorySpec
CONSTANTS
  p1 = p1
  p2 = p2
  c1 = c1
  c2 = c2
  Producers = {p1, p2}
  Consumers = {c1, c2}
  Peekers = {c1, c2}
  Counters = {}
  Creator = c1
  NULL = NULL
  InitialMask = 1
  MaxBlocks = 1
  MaxPushes = 3
  GuintModulus = 16
SYMMETRY Symmetry
PROPERTIES LinearizableFifo
CHECK_DEADLOCK FALSE
