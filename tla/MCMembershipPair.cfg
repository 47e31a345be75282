CONSTANTS
  c1 = c1
  Clients = {c1}
  Coordinator = coordinator
  SuspectAfter = 3
  DeadAfter = 6
  ChanCap = 2
  MaxVersion = 3
  MaxCrashes = 1
  Lossy = FALSE
  Punctual = TRUE
SPECIFICATION FairSpec
INVARIANTS
  TypeOK
  NoFalseSuspicionOfAPair
PROPERTIES
  HeardCrashIsReported
  DeadLeavesRing
