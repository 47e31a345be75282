CONSTANTS
  c1 = c1
  c2 = c2
  Clients = {c1, c2}
  Coordinator = coordinator
  SuspectAfter = 1
  DeadAfter = 2
  ChanCap = 1
  MaxVersion = 2
  MaxCrashes = 0
  Lossy = FALSE
  Punctual = TRUE
  MaxTicks = 2
SPECIFICATION BoundedSpec
SYMMETRY ClientsAreAlike
INVARIANTS
  SilenceIsNoticed
PROPERTIES
  NoRevival
\* the clock stops after MaxTicks, and then everybody comes to rest
CHECK_DEADLOCK FALSE
