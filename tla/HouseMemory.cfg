\* Two runs, one chat and the distiller, with failed transactions and crashes.
SPECIFICATION FairSpec
CONSTANTS
  s1 = s1
  s2 = s2
  r1 = r1
  r2 = r2
  c1 = c1
  Sessions <- MCSessions
  ChatSession = s1
  Runners <- MCRunners
  Chats <- MCChats
  MaxTurns = 3
  MaxQuestions = 1
  HotCount = 2
  WarmCount = 1
  Window = 2
  Remarks <- MCRemarks
  Faults <- MemoryFaultKinds
CONSTRAINT MemoryBound
INVARIANTS
  TypeOK
  OffersAreKept
  AnswersAreAwaited
  TranscriptOnce
  RulesAreDirectives
  DigestAgrees
PROPERTIES
  OffersAreTaken
