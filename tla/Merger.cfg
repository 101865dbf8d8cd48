SPECIFICATION Spec
CONSTANTS
  LastKey = 2
  Locations = {a, b}
  Severities = {2, 4}
  Critical = {2}
  MaxFindings = 2
INVARIANTS NothingTwice NothingLost OnlyTheExercisedSink NoPairLeft GateAgrees
CHECK_DEADLOCK FALSE
