\* An operator who may grant or deny again, every fault, two HTTP executors and the loop, one dispatch.
SPECIFICATION Spec
CONSTANTS
  s1 = s1
  s2 = s2
  l1 = l1
  l2 = l2
  w1 = w1
  w2 = w2
  auto = auto
  MaxDispatch = 1
  Sessions <- MCSessions
  Lanes <- MCLanes
  CodexLanes <- MCCodex
  HttpWorkers <- TwoWorkers
  Autonomy = auto
  CockpitOperator = FALSE
  Faults <- FaultKinds
INVARIANTS
  RegistriesCoherent
