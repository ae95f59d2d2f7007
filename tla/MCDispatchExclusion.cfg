SPECIFICATION Spec
CONSTANTS
  i1 = i1
  i2 = i2
  NoId = NoId
  Intents = {i1}
  Runners = {r1, r2}
  Operators = {o1}
  Commands = {"create", "cancel"}
  LeaseMs = 1
  Retention = 1
  RunLimit = 1
  ListLimit = 2
  DependencyParams <- NoDependencies
  RunAtParams = {}
  MaxClock = 2
  MaxAttempts = 4
  MaxCrashes = 1
SYMMETRY RunnerSymmetry
INVARIANTS TypeOK ClaimExclusion
PROPERTIES NeverRequeued FinalOnceQuiet
CHECK_DEADLOCK FALSE
