SPECIFICATION FairSpec
CONSTANTS
  FeedItems = {1, 2}
  AppendItems = {}
  Pollers = {p1}
  Appenders = {}
  Consumers = {c1}
  Pruners = {}
  MaxItems = 2
  Filters <- OneSource
  Limit = 1
  Advances = {FALSE}
  MaxClock = 1
  MaxFailures = 1
  MaxCrashes = 1
PROPERTIES PublishedIsDelivered
CHECK_DEADLOCK FALSE
