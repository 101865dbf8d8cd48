SPECIFICATION Spec
CONSTANTS
  Chunk = 2
  PipeSize = 3
  MaxBytes = 5
INVARIANTS WholeLines TailShown
PROPERTIES PipesEnd
CHECK_DEADLOCK FALSE
