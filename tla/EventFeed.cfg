SPECIFICATION Spec
CONSTANTS
  Handlers = 3
  BUFFER = 2
  QUEUE = 1
  WIRE = 1
  MaxEvents = 4
  MaxMishaps = 2
INVARIANTS
  InOrderOnce
  SkippedForAReason
PROPERTIES
  EventsSettle
CHECK_DEADLOCK FALSE
