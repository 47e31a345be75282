CONSTANTS
  c1 = c1
  c2 = c2
  c3 = c3
  Clients = {c1, c2, c3}
  CoordinatorId = coordinator
  TotalRounds = 2
  MailboxCap = 6
  Remote = TRUE
  Clustering = FALSE
  MaxTries = 1
  Scenarios = {{"crash"}}
SPECIFICATION CrashSpec
PROPERTIES
  TrainingSurvivesCrash
\* the system comes to rest when training is over
CHECK_DEADLOCK FALSE
