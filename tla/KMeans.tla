-------------------------------- MODULE KMeans --------------------------------
(***************************************************************************)
(* The clustering of federated-learning/actors/clustermanager.go: clients  *)
(* register with the mean of their features, and from ExpectedTotal of     *)
(* them on every registration runs kMeans over all.  The loop of kMeans is *)
(* a step per half, although the actor does nothing in between.            *)
(*                                                                         *)
(* A feature vector has one component, an integer; centers are fractions   *)
(* <<sum, count>>, and distances are compared exactly.  A client without   *)
(* samples has no feature mean, a vector without components.               *)
(***************************************************************************)
EXTENDS Integers, Sequences, FiniteSets, FiniteSetsExt

CONSTANTS
  Means,          \* feature means a client may have
  NoMean,         \* the nil slice
  NumClusters,
  ExpectedTotal,
  MaxClients,     \* bound on the registrations
  MaxIterations   \* 100 in the code

ASSUME KMeansAssumption ==
  /\ Means \subseteq Int /\ NoMean \notin Means /\ NumClusters \in Nat \ {0}
  /\ ExpectedTotal \in Nat \ {0} /\ MaxClients \in Nat /\ MaxIterations \in Nat \ {0}

VARIABLES
  clients,   \* ClusterManagerActor.clients: the feature mean of each
  centers,
  assigned,  \* assigned[i]: the cluster of client i, from 1 on
  round,     \* iterations begun
  step       \* "idle", the half of the iteration that comes next, or "ended"

kmeansVars == <<clients, centers, assigned, round, step>>

KMeansInit ==
  clients = <<>> /\ centers = <<>> /\ assigned = <<>> /\ round = 0 /\ step = "idle"

-----------------------------------------------------------------------------

Smaller(a, b) == IF a < b THEN a ELSE b

Distance(m, center) == LET d == m * center[2] - center[1] IN IF d < 0 THEN -d ELSE d

\* m is nearer to c than to d; a vector without components is at distance 0 of all
Nearer(m, c, d) == m # NoMean /\ Distance(m, c) * d[2] < Distance(m, d) * c[2]

\* the first of the nearest centers
Best(m) ==
  CHOOSE j \in DOMAIN centers : \A i \in DOMAIN centers :
    ~Nearer(m, centers[i], centers[j]) /\ (i < j => Nearer(m, centers[j], centers[i]))

\* RegisterClient; kMeans begins with the first clients as centers
Register(m) ==
  LET k == Smaller(NumClusters, Len(clients')) IN
  /\ step = "idle" /\ Len(clients) < MaxClients
  /\ clients' = Append(clients, m)
  /\ \/ /\ Len(clients') < ExpectedTotal
        /\ UNCHANGED <<centers, assigned, round, step>>
     \/ /\ Len(clients') >= ExpectedTotal
        /\ centers' = [j \in 1..k |-> IF clients'[j] = NoMean THEN NoMean ELSE <<clients'[j], 1>>]
        /\ assigned' = [i \in DOMAIN clients' |-> 1]
        /\ round' = 1 /\ step' = "assign"

\* euclidean takes a component of a center that has none
OutOfRange ==
  /\ \E i \in DOMAIN clients : clients[i] # NoMean
  /\ \E j \in DOMAIN centers : centers[j] = NoMean

\* ... and panics: the actor has no supervisor, and ends
ClusteringPanics ==
  /\ step = "assign" /\ OutOfRange
  /\ step' = "ended"
  /\ UNCHANGED <<clients, centers, assigned, round>>

\* every client to its best center; without a change kMeans returns
Assign ==
  /\ step = "assign" /\ ~OutOfRange
  /\ assigned' = [i \in DOMAIN clients |-> Best(clients[i])]
  /\ step' = IF assigned' = assigned THEN "idle" ELSE "update"
  /\ UNCHANGED <<clients, centers, round>>

ClusterOf(j) == {i \in DOMAIN clients : assigned[i] = j}

\* what each client adds to the sum of its cluster
Summands == [i \in DOMAIN clients |-> IF clients[i] = NoMean THEN 0 ELSE clients[i]]

\* Faulty: the sum of an empty cluster is divided, too.
Mean_OfNobody(j) ==
  <<MapThenSumSet(LAMBDA i : Summands[i], ClusterOf(j)), Cardinality(ClusterOf(j))>>

\* Faulty: the mean includes the former center.
Mean_Dragging(j) ==
  <<MapThenSumSet(LAMBDA i : Summands[i], ClusterOf(j)) + centers[j][1], Cardinality(ClusterOf(j)) + 1>>

\* an empty cluster's center is the zero vector
Mean(j) ==
  IF ClusterOf(j) = {} THEN <<0, 1>>
  ELSE <<MapThenSumSet(LAMBDA i : Summands[i], ClusterOf(j)), Cardinality(ClusterOf(j))>>

Update ==
  /\ step = "update"
  /\ centers' = [j \in DOMAIN centers |-> Mean(j)]
  /\ round' = round + 1
  /\ step' = IF round = MaxIterations THEN "idle" ELSE "assign"
  /\ UNCHANGED <<clients, assigned>>

KMeansNext == (\E m \in Means \cup {NoMean} : Register(m)) \/ Assign \/ ClusteringPanics \/ Update

KMeansSpec == KMeansInit /\ [][KMeansNext]_kmeansVars

-----------------------------------------------------------------------------
(* Properties. *)

KMeansTypeOK ==
  /\ clients \in Seq(Means \cup {NoMean})
  /\ centers \in Seq((Int \X (Nat \ {0})) \cup {NoMean})
  /\ assigned \in Seq(DOMAIN centers)
  /\ round \in 0..(MaxIterations + 1) /\ step \in {"idle", "assign", "update", "ended"}

\* When the clusters are announced every client is at least as near to the mean
\* of its own as to the mean of any other that has members: k-means settles
\* within its 100 iterations, although it breaks ties by position, sets the
\* center of a cluster that has become empty to zero, and counts a client without
\* samples, if it is none of the first centers, as a zero of the first cluster.
NearestToItsMean ==
  step = "idle" /\ Len(clients) >= ExpectedTotal =>
    \A i \in DOMAIN clients : \A j \in DOMAIN centers :
      ClusterOf(j) # {} => ~Nearer(clients[i], Mean(j), Mean(assigned[i]))
=============================================================================
