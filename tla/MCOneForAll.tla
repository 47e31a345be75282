----------------------------- MODULE MCOneForAll -----------------------------
(* The family of TestOneForAllRestart: a parent and two children under a      *)
(* one-for-all supervisor, spawned one after the other by one thread, and     *)
(* nobody stops them.                                                         *)
EXTENDS ActorSystem, TLC

CONSTANTS parent, child1, child2

Family == (parent :> NoName) @@ (child1 :> parent) @@ (child2 :> parent)

SpawnNext ==
  LET order == <<parent, child1, child2>> IN
  /\ spawned < MaxCells
  /\ \A c \in 1..spawned : cell[c].at \notin {"listed", "published"}
  /\ SpawnList(order[spawned + 1])

FamilySpec ==
  Init /\ [][SpawnNext \/ \E c \in Cells : Spawner(c) \/ Actor(c)]_vars
=============================================================================
