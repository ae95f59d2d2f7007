SPECIFICATION Spec
CONSTANTS
  i1 = i1
  i2 = i2
  NoId = NoId
  Intents = {i1, i2}
  Runners = {r1, r2}
  Operators = {o1}
  Commands = {"create", "retry", "prune"}
  LeaseMs = 1
  Retention = 1
  RunLimit = 2
  ListLimit = 2
  DependencyParams <- OneAfterTheOther
  RunAtParams = {}
  MaxClock = 3
  MaxAttempts = 6
  MaxCrashes = 0
SYMMETRY RunnerSymmetry
INVARIANTS DependenciesReached RecentResultHasEvidence
CONSTRAINT Scenarios
CHECK_DEADLOCK FALSE
