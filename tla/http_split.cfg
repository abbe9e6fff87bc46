CONSTANTS
  Pipelines <- SmallPipelines
  Room = 12
  AtOnce = 2
SPECIFICATION ParserSpec
INVARIANT DeliveredAsSent
CHECK_DEADLOCK FALSE
