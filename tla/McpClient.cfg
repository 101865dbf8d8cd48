SPECIFICATION Spec
CONSTANTS
  MaxId = 2
  StdinRoom = 1
  MaxUnread = 6
  Framings = {"ndjson", "framed"}
  Chatter = {"blank", "text"}
  ServerIds = {2}
  NoMessage = NoMessage
INVARIANTS
  OwnAnswer
PROPERTIES
  WaitsOnlyBehindNoise
  AnswerNotDropped
  PortSafeSpec
  EveryRequestEnds
CHECK_DEADLOCK FALSE
