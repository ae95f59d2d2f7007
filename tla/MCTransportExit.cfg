SPECIFICATION Spec
CONSTANTS
  Calls = {k1, k2}
  NoCall = NoCall
  MaxServers = 2
INVARIANTS ExitedIsItsServer
CHECK_DEADLOCK FALSE
