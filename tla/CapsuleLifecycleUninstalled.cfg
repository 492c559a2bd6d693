\* What the cockpit says of an uninstalled package; no faults are needed.
SPECIFICATION Spec
CONSTANTS
  core = core
  echo = echo
  Packages <- MCPackages
  Core = core
  MaxVersion = 2
  MaxApprovals = 2
  CockpitOperator = TRUE
  Faults <- NoFaults
INVARIANTS
  UninstalledIsNotActive
