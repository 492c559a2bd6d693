\* Long sequences of calls: two versions, three requests; failed transactions
\* and crashes while FirstOnes holds.
SPECIFICATION Spec
CONSTANTS
  core = core
  echo = echo
  Packages <- MCPackages
  Core = core
  MaxVersion = 2
  MaxApprovals = 3
  CockpitOperator = TRUE
  Faults <- CapsuleFaultKinds
CONSTRAINT FaultsWhileFirst
INVARIANTS
  TypeOK
  ActivatableIsCleared
  ActiveWasCleared
  ReleasedIsNotActive
  AwaitingIsDecidable
