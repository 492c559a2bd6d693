\* Failed transactions, crashes and failed loads.
SPECIFICATION Spec
CONSTANTS
  h1 = h1
  h2 = h2
  c1 = c1
  Handlers <- MCHandlers
  Watchers <- OneWatcher
  Capacity = 1
  MaxEvents = 6
  Faults <- FaultKinds
CONSTRAINT WatchedWhileShort
INVARIANTS
  TypeOK
  StreamedIsDurable
  NothingMissed
  SequenceIdentifies
PROPERTIES
  ImplementsHistory
SYMMETRY HandlerSymmetry
