SPECIFICATION PartsSpec
CONSTANTS
  p1 = p1
  p2 = p2
  p3 = p3
  p4 = p4
  c1 = c1
  c2 = c2
  IntentIds = {1, 2}
  NoIntent = NoIntent
  Sources <- MCSources
  LocalController = 0
  AnyQueue = 0
  Drains <- MCDrains
  ModeOf <- MCModeOf
  Collectors = {c1, c2}
  CollectQueue = 1
  QueueLease = 1
  QueueClock = 0
  DrainCrashes = 1
  Tasks = {k1, k2}
  LatestTasks = {k1}
  DisabledTasks = {}
  TaskRuns = {1, 2}
  NoRecord = NoRecord
  TornRecord = TornRecord
  TaskClock = 1
  TaskFaults = 1
  Jobs = {j1, j2}
  Work = {w1, w2}
  JobFaults = 2
  Installers = {p1, p2, p3, p4}
  Offer <- MCOffer
  Options <- MCOptions
  Setup <- MCSetup
  Stamps = {1, 2}
  KitEdits = 1
  KitCrashes = 1
  Roots = 2
  Dirs = 2
  WorkflowNames = {1, 2, 3}
  WorkflowTurns = {t1, t2}
  WaitTimeout = 1
  PollInterval = 1
  ThrowOnFailure = TRUE
  EmptyReads = 1
  Turns = {1, 2}
  Parts = {0, 1}
  Deltas <- MCDeltas
  Mode = "summary"
  Lines <- MCLines
  Movers <- MCMovers
  MoveAsks <- MCMoves
  Rollouts = {1}
  FilenameThread <- MCNames
  RolloutThreads = {"a"}
  MaxLines = 2
  MaxStamp = 2
  MoveCrashes = 1
  Transplants = {1, 2}
  TransplantAsks <- MCTransplants
  MemoryFiles = {1, 2}
  SourceFiles <- MCSourceFiles
  FileKind <- MCKinds
  MaxMemoryStamp = 2
  OwnWrites = 1
  FunctionCalls = {f1, f2}
  FunctionFiles = {1, 2}
  FunctionsText <- MCTexts
  ManifestEdits = 2
  MaxMtime = 2
  MaxOdd = 1
  MaxRetries = 1
  Depth = 3
INVARIANTS
  HandoffsAwaitTheirHost PassedIsCollected QuietHealthMatchesRecords
  NothingPrivatePushed ExecutedIsPushed EndedInstallIsComplete FirstManifestWins
  WaitsTellTheTruth ShownIsWhole EndedTurnIsSettled
  ExitTellsOutcome RoutesAgree NoToyboxIsLeft
  AcceptedIsTold ReplacedRolloutSurvives ReplacedMemorySurvives
  CallsRunTheCurrentManifest StateIsFoundAgain ReplacedIsBackedUp
CHECK_DEADLOCK FALSE
