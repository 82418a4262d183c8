CONSTANTS
  i1 = i1
  i2 = i2
  x1 = x1
  x2 = x2
  todo = todo
  closed = closed
  q1 = q1
  None = None
  Other = Other
  Issues = {i1, i2}
  Sprints = {x1, x2}
  Statuses = {todo, closed}
  Severities = {"critical", "high", "medium", "low"}
  Category <- MCCategory
  Priority <- MCPriority
  Exact <- MCExact
  Within <- MCWithin
  Rows0 <- MCRows
  Sprints0 <- MCSprints
  BlocksFromLLM = TRUE
  Window = 2
  Durations = {1, 9}
  MaxCalls = 2
  MaxChanges = 2
  MaxRecords = 3
SPECIFICATION FairSpec
INVARIANTS
  TypeOK
  IndInv
  ThreeSilences
  SummaryAddsUp
  SteadySummaryIsTrue
  PercentilesInOrder
PROPERTIES
  EveryReadRenders
CHECK_DEADLOCK FALSE
