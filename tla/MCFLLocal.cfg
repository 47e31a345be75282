CONSTANTS
  Clients = {c1, c2, c3}
  CoordinatorId = coordinator
  TotalRounds = 3
  MailboxCap = 4
  Remote = FALSE
  Clustering = TRUE
SPECIFICATION FairSpec
INVARIANTS
  TypeOK
  AveragesAreComplete
  WorkIsConserved
  MetricsLogHasNoGap
PROPERTIES
  ImplementsTrainingLoop
  TrainingEnds
\* the program stops when training is over
CHECK_DEADLOCK FALSE
