SPECIFICATION PartsSpec
CONSTANTS
  t1 = t1
  a1 = a1
  a2 = a2
  WorkflowTurns = {t1}
  WaitTimeout = 2
  PollInterval = 1
  ThrowOnFailure = TRUE
  EmptyReads = 1
  Asks = {q1, q2, q3}
  AppServers = 2
  Logins = {a1, a2}
  AnyLogin = 0
  k1 = k1
  k2 = k2
  Calls = {k1, k2}
  NoCall = NoCall
  MaxServers = 2
INVARIANTS
  ServedAfterInitialize WaitIsForItsLogin TransportTypeOK AnswersItsOwnCall WaitsForPresentServer
PROPERTIES RunEnds LinesAreServed SuccessIsNotLate WaitsEnd CallsEnd
CHECK_DEADLOCK FALSE
