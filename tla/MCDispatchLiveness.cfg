SPECIFICATION FairSpec
CONSTANTS
  i1 = i1
  i2 = i2
  NoId = NoId
  Intents = {i1}
  Runners = {r1, r2}
  Operators = {o1}
  Commands = {"create"}
  LeaseMs = 1
  Retention = 1
  RunLimit = 1
  ListLimit = 2
  DependencyParams <- NoDependencies
  RunAtParams = {}
  MaxClock = 1
  MaxAttempts = 6
  MaxCrashes = 1
PROPERTIES DueSettlesUnlessTorn
CHECK_DEADLOCK FALSE
