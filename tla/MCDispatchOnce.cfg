SPECIFICATION Spec
CONSTANTS
  i1 = i1
  i2 = i2
  NoId = NoId
  Intents = {i1}
  Runners = {r1, r2}
  Operators = {o1}
  Commands = {"create"}
  LeaseMs = 1
  Retention = 1
  RunLimit = 1
  ListLimit = 2
  DependencyParams <- NoDependencies
  RunAtParams = {}
  MaxClock = 0
  MaxAttempts = 4
  MaxCrashes = 0
INVARIANTS RunsAtMostOnce
CHECK_DEADLOCK FALSE
