SPECIFICATION SandboxSpec
CONSTANTS
  Leader = leader
  Children = {c1, c2}
INVARIANTS Contained LeaderGone KillIsComplete
PROPERTIES NoSignalAfterReaping Ends
CHECK_DEADLOCK FALSE
