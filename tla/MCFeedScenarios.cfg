SPECIFICATION Spec
CONSTANTS
  p1 = p1
  p2 = p2
  FeedItems = {2, 3}
  AppendItems = {1}
  Pollers = {p1, p2}
  Appenders = {a1}
  Consumers = {c1, c2}
  Pruners = {r1}
  MaxItems = 1
  Filters <- EveryItem
  Limit = 2
  Advances = {FALSE, TRUE}
  MaxClock = 1
  MaxFailures = 1
  MaxCrashes = 0
SYMMETRY ConsumerSymmetry
INVARIANTS PassedInOrderIsDelivered CheckpointCoversDocument
CONSTRAINT Scenarios
CHECK_DEADLOCK FALSE
