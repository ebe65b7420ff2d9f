SPECIFICATION FairSpec
CONSTANTS
  Templates <- HandMade
  Modes = {"simulator", "realtime"}
  MaxTime = 1
  MaxEvents = 3
  MaxCalls = 6
  NULL = NULL
INVARIANTS TypeOK OneHome NeverDangling
PROPERTIES NeverLeaked TimeoutAgrees RemindersFirst ReminderNotEarly MarketOrder TimeOrdered Drained
