SPECIFICATION Spec
CONSTANTS
  Walks <- SomeWalks
  Seconds <- SomeSeconds
  Micros <- SomeMicros
  Zones <- SomeZones
INVARIANTS DateOfDay DayOfDate RealDatesOnly ParsedInstant TmFields RoundTrip
CHECK_DEADLOCK FALSE
