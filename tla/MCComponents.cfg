CONSTANTS
  Senders = {s1, s2}
  Capacity = 2
  InCap = 1
  OutCap = 1
  MaxMessages = 4
  Urgent = {3}
  Addresses = {a1, a2}
  Invalid = {a2}
  MailboxCap = 1
  MaxCalls = 2
  MaxReplies = 2
  Actors = {x, y}
  MaxRestarts = 3
  Within = 5
  InitialDelay = 1
  Multiplier = 2
  MaxDelay = 2
  MaxDuration = 3
  MaxTime = 6
  n1 = n1
  n2 = n2
  n3 = n3
  Nodes = {n1, n2, n3}
  NoNode = NoNode
  Replicas = 2
  Hashes = {0, 1, 2, 3, 4, 5}
  HashFunctions <- TLCHashFunctions
  Keys = {key}
  NoMean = NoMean
  Means = {0, 1, 2, 3, 4, 5}
  NumClusters = 3
  ExpectedTotal = 4
  MaxClients = 5
  MaxIterations = 100
  NumSamples = 5
  NumShards = 3
SPECIFICATION FairSpec
INVARIANTS
  TypeOK
  DeliveredInOrder
  OneConnectionPerAddress
  QuestionsAreKeptApart
  EscalatesBeyondLimit
  BackoffSpacesFailures
  RoutedToMembers
  NearestToItsMean
  PartsCoverTheData
PROPERTIES
  AcceptedIsDelivered
  KeysMoveOnlyWithTheirNode
\* every component comes to rest at its bounds
CHECK_DEADLOCK FALSE
