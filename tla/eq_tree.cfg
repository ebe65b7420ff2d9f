SPECIFICATION Spec
CONSTANTS
  Events <- TimedEvents
  MaxPushes = 6
  NULL = NULL
INVARIANTS TypeOK
PROPERTIES RefinesQueue
