SPECIFICATION Spec
CONSTANTS
  p1 = p1
  c1 = c1
  Producers = {p1}
  Consumers = {c1}
  Peekers = {}
  Counters = {}
  Creator = c1
  NULL = NULL
  InitialMask = 1
  MaxBlocks = 2
  MaxPushes = 3
  GuintModulus = 16
INVARIANT NoElementLost
