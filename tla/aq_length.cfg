SPECIFICATION Spec
CONSTANTS
  p1 = p1
  p2 = p2
  c1 = c1
  Producers = {p1, p2}
  Consumers = {c1}
  Peekers = {}
  Counters = {c1}
  Creator = c1
  NULL = NULL
  InitialMask = 1
  MaxBlocks = 2
  MaxPushes = 2
  GuintModulus = 16
PROPERTY LengthBounded
