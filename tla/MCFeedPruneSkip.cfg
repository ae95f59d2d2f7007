SPECIFICATION Spec
CONSTANTS
  FeedItems = {1, 2, 3}
  AppendItems = {}
  Pollers = {p1}
  Appenders = {}
  Consumers = {c1}
  Pruners = {r1}
  MaxItems = 3
  Filters <- OneSource
  Limit = 3
  Advances = {FALSE}
  MaxClock = 1
  MaxFailures = 0
  MaxCrashes = 0
INVARIANTS PassedInOrderIsDelivered
CHECK_DEADLOCK FALSE
