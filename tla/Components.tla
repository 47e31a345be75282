------------------------------ MODULE Components ------------------------------
(* The components that the larger modules use in the abstract, each by itself: *)
(* a behaviour is one of one of them, the others rest in an initial state.     *)
EXTENDS Mailbox, RemoteCalls, Supervision, HashRing, KMeans, Shards

VARIABLE part

vars == <<part, boxVars, callVars, trackerVars, ringVars, kmeansVars, shardVars>>

Init ==
  /\ part \in {"mailbox", "calls", "supervision", "ring", "kmeans", "shards"}
  /\ IF part = "mailbox" THEN BoxInit ELSE kind = "bounded" /\ BoxInit
  /\ IF part = "ring" THEN RingInit
     ELSE point = [v \in Virtual |-> 0] /\ position = [k \in Keys |-> 0] /\ RingInit
  /\ IF part = "shards" THEN ShardsInit
     ELSE deployment = "local" /\ mode = "iid" /\ ShardsInit
  /\ CallsInit /\ TrackerInit /\ KMeansInit

Next ==
  /\ UNCHANGED part
  /\ \/ part = "mailbox" /\ BoxNext
        /\ UNCHANGED <<callVars, trackerVars, ringVars, kmeansVars, shardVars>>
     \/ part = "calls" /\ CallsNext
        /\ UNCHANGED <<boxVars, trackerVars, ringVars, kmeansVars, shardVars>>
     \/ part = "supervision" /\ TrackerNext
        /\ UNCHANGED <<boxVars, callVars, ringVars, kmeansVars, shardVars>>
     \/ part = "ring" /\ RingNext
        /\ UNCHANGED <<boxVars, callVars, trackerVars, kmeansVars, shardVars>>
     \/ part = "kmeans" /\ KMeansNext
        /\ UNCHANGED <<boxVars, callVars, trackerVars, ringVars, shardVars>>
     \/ part = "shards" /\ ShardsNext
        /\ UNCHANGED <<boxVars, callVars, trackerVars, ringVars, kmeansVars>>

FairSpec == Init /\ [][Next]_vars /\ BoxFairness

\* The variables of each component have their types.
TypeOK ==
  /\ BoxTypeOK /\ CallsTypeOK /\ TrackerTypeOK /\ RingTypeOK /\ KMeansTypeOK /\ ShardsTypeOK
=============================================================================
