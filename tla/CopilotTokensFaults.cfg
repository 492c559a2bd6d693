\* Two calls and one device flow, and crashes in the middle of a write.
SPECIFICATION FairSpec
CONSTANTS
  k1 = k1
  k2 = k2
  f1 = f1
  Callers <- TwoCallers
  Flows <- OneFlow
  MaxTokens = 2
  Faults <- CrashOnly
INVARIANTS
  TypeOK
  RetryPresentsCache
  SignInSurvives
PROPERTIES
  LockedOutForGood
  CallsEnd
