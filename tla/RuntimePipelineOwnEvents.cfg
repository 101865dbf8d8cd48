SPECIFICATION Spec
CONSTANTS
  MaxCalls = 2
  PerCause = 1
  RingSize = 2
INVARIANTS OwnEventsOnly
CHECK_DEADLOCK FALSE
