CONSTANTS
  c1 = c1
  c2 = c2
  Clients = {c1, c2}
  CoordinatorId = coordinator
  TotalRounds = 2
  MailboxCap = 3
  Remote = TRUE
  Clustering = FALSE
  MaxTries = 2
  Scenarios = {{"timeout"}, {"early", "crash"}, {"timeout", "restart"},
               {"crash", "restart", "loss"}, {"crash", "false"}, {"false", "loss"}}
SPECIFICATION HeardSpec
SYMMETRY Symmetry
INVARIANTS
  TypeOK
  NoMissedAggregation
  AveragesOfOneRound
  NoClientCountedTwice
  FaultFreeRounds
PROPERTIES
  FaultFreeTraining
\* training may stop for good after a fault
CHECK_DEADLOCK FALSE
