\* No faults: what begins ends, and the loop serves the queue.
SPECIFICATION FairSpec
CONSTANTS
  s1 = s1
  s2 = s2
  l1 = l1
  l2 = l2
  w1 = w1
  w2 = w2
  auto = auto
  MaxDispatch = 2
  Sessions <- TwoSessions
  Lanes <- MCLanes
  CodexLanes <- MCCodex
  HttpWorkers <- OneWorker
  Autonomy = auto
  CockpitOperator = TRUE
  Faults <- NoFaults
INVARIANTS
  RunningIsOwned
PROPERTIES
  RunsEnd
  QueueIsServed
