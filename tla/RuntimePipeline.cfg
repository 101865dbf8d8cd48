SPECIFICATION Spec
CONSTANTS
  MaxCalls = 2
  PerCause = 1
  RingSize = 2
INVARIANTS NeverBeforeItsCause CountedOnce CapturedIsObserved Complete
PROPERTIES TornDown
CHECK_DEADLOCK FALSE
