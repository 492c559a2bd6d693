\* The loop, two dispatches, three lanes, with every fault.
SPECIFICATION RoutingSpec
CONSTANTS
  s1 = s1
  w1 = w1
  auto = auto
  MaxDispatch = 2
  Sessions <- MCSessions
  Lanes <- MCLanes
  CodexLanes <- MCCodex
  HttpWorkers <- NoWorkers
  Autonomy = auto
  CockpitOperator = TRUE
  Faults <- FaultKinds
  Engine <- MCEngine
  Rank <- MCRank
  Paths <- MCPaths
  LanePolicies <- MCLanePolicies
  Credentials <- MCCredentials
  WorldPolicies <- MCWorldPolicies
  Workspaces <- MCWorkspaces
CONSTRAINT RoutingBound
INVARIANTS
  RoutingTypeOK
  LanesAreThere
  RoutesAreSound
PROPERTIES
  GateSeesWorkspace
