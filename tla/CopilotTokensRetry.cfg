\* What the adapter says of its retry; no faults are needed.
SPECIFICATION Spec
CONSTANTS
  k1 = k1
  k2 = k2
  f1 = f1
  Callers <- OneCaller
  Flows <- OneFlow
  MaxTokens = 2
  Faults <- NoFaults
INVARIANTS
  RetryPresentsAnother
