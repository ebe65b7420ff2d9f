SPECIFICATION Spec
CONSTANTS
  Templates <- CreatedTemplates
  Modes = {"simulator", "realtime"}
  MaxTime = 1
  MaxEvents = 2
  MaxCalls = 4
  NULL = NULL
INVARIANT RoutedAsDeclared
