\* The documents say every mutation has an event; a failed run has none.
SPECIFICATION Spec
CONSTANTS
  s1 = s1
  s2 = s2
  l1 = l1
  l2 = l2
  w1 = w1
  w2 = w2
  auto = auto
  MaxDispatch = 1
  Sessions <- MCSessions
  Lanes <- MCLanes
  CodexLanes <- MCCodex
  HttpWorkers <- OneWorker
  Autonomy = auto
  CockpitOperator = TRUE
  Faults <- NoFaults
INVARIANTS
  NothingChangesWithoutEvent
