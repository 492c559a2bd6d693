\* A careful operator, every fault, two HTTP executors and the autonomy loop.
SPECIFICATION Spec
CONSTANTS
  s1 = s1
  s2 = s2
  l1 = l1
  l2 = l2
  w1 = w1
  w2 = w2
  auto = auto
  MaxDispatch = 2
  Sessions <- MCSessions
  Lanes <- MCLanes
  CodexLanes <- MCCodex
  HttpWorkers <- TwoWorkers
  Autonomy = auto
  CockpitOperator = TRUE
  Faults <- FaultKinds
INVARIANTS
  TypeOK
  EngineGate
  SoleOwner
  StartIsDurable
  ToldIsDurable
  LogTellsStatus
PROPERTIES
  LaunchedOnce
  SettledForGood
  OrphansAreNeverPickedUp
  ImplementsLedger
