\* No fault at all.
SPECIFICATION Spec
CONSTANTS
  h1 = h1
  h2 = h2
  c1 = c1
  Handlers <- MCHandlers
  Watchers <- NoWatchers
  Capacity = 1
  MaxEvents = 6
  Faults <- NoFaults
INVARIANT
  EveryEventIsStreamed
SYMMETRY HandlerSymmetry
