CONSTANTS
  c = c
  js = js
  Pipelines <- SmallPipelines
  Room = 12
  AtOnce = 2
  MaxFields = 4
  Dates <- SmallDates
  NotSet = NotSet
  MaxStack = 3
  Words = {c, js}
  Stacks <- SmallStacks
  Rows <- SmallRows
  Chunk = 100
  NameLimit = 50
  TextLimit = 255
SPECIFICATION TextSpec
INVARIANTS TypeOK InBounds RequestsExact DatesAccepted NoBadMonthOrDay PlainRoundTrip RenderedIsJson
PROPERTIES DecodeEnds
\* every one of them ends
CHECK_DEADLOCK FALSE
