------------------------------- MODULE HashRing -------------------------------
(***************************************************************************)
(* The consistent hash ring of cluster/hashring.go.  Every method holds    *)
(* the lock, so each is one action; who calls them, and when, is left open.*)
(*                                                                         *)
(* The hash function is chosen at the start and stays: every node has      *)
(* replicas virtual nodes, and virtual nodes may hash to the same point.   *)
(* sortedHashes is the set of its elements: a hash that is in it twice is  *)
(* removed twice, and a binary search finds the same.                      *)
(***************************************************************************)
EXTENDS Naturals, FiniteSets, FiniteSetsExt

CONSTANTS
  Nodes, NoNode,
  Replicas,
  Hashes,         \* the range of hash: 32 bits in the code
  HashFunctions,  \* what hash may be on the virtual nodes
  Keys            \* keys that are looked up

\* virtual node i of n, the key "n#i"
Virtual == Nodes \X (0..(Replicas - 1))

ASSUME RingAssumption ==
  /\ NoNode \notin Nodes /\ Replicas \in Nat \ {0}
  /\ Hashes \subseteq Nat /\ HashFunctions \subseteq [Virtual -> Hashes]

VARIABLES
  point,         \* point[n, i]: hash of virtual node i of n
  position,      \* position[k]: hash of a key that is looked up
  ring,          \* ring[h]: the node at h, or NoNode
  sortedHashes,
  members        \* ghost: nodes added and not removed since

ringVars == <<point, position, ring, sortedHashes, members>>

RingInit ==
  /\ point \in HashFunctions
  /\ position \in [Keys -> Hashes]
  /\ ring = [h \in Hashes |-> NoNode]
  /\ sortedHashes = {}
  /\ members = {}

PointsOf(n) == {point[n, i] : i \in 0..(Replicas - 1)}

-----------------------------------------------------------------------------

\* "already added": some node has the hash of n's first virtual node
Present(n) == ring[point[n, 0]] # NoNode

Add(n) ==
  /\ members' = members \cup {n}
  /\ \/ Present(n) /\ UNCHANGED <<ring, sortedHashes>>
     \/ /\ ~Present(n)
        /\ ring' = [h \in Hashes |-> IF h \in PointsOf(n) THEN n ELSE ring[h]]
        /\ sortedHashes' = sortedHashes \cup PointsOf(n)
  /\ UNCHANGED <<point, position>>

\* Faulty: the filter starts behind the first hash.
Remove_DropsFirst(n) ==
  /\ members' = members \ {n}
  /\ ring' = [h \in Hashes |-> IF h \in PointsOf(n) THEN NoNode ELSE ring[h]]
  /\ sortedHashes' = {h \in sortedHashes : ring'[h] # NoNode /\ \E g \in sortedHashes : g < h}
  /\ UNCHANGED <<point, position>>

\* Faulty: the first virtual node is not deleted.
Remove_OffByOne(n) ==
  /\ members' = members \ {n}
  /\ ring' = [h \in Hashes |-> IF h \in {point[n, i] : i \in 1..(Replicas - 1)}
                               THEN NoNode ELSE ring[h]]
  /\ sortedHashes' = {h \in sortedHashes : ring'[h] # NoNode}
  /\ UNCHANGED <<point, position>>

Remove(n) ==
  /\ members' = members \ {n}
  /\ ring' = [h \in Hashes |-> IF h \in PointsOf(n) THEN NoNode ELSE ring[h]]
  /\ sortedHashes' = {h \in sortedHashes : ring'[h] # NoNode}
  /\ UNCHANGED <<point, position>>

\* the node at the first hash from the key's on, or at the very first
Get(k) ==
  LET after == {h \in sortedHashes : h >= position[k]} IN
  IF sortedHashes = {} THEN NoNode
  ELSE ring[Min(IF after = {} THEN sortedHashes ELSE after)]

RingNext == \E n \in Nodes : Add(n) \/ Remove(n)

RingSpec == RingInit /\ [][RingNext]_ringVars

-----------------------------------------------------------------------------
(* Properties. *)

RingTypeOK ==
  /\ point \in HashFunctions /\ position \in [Keys -> Hashes]
  /\ ring \in [Hashes -> Nodes \cup {NoNode}]
  /\ sortedHashes \subseteq Hashes
  /\ members \subseteq Nodes

Distinct == \A v, w \in Virtual : point[v] = point[w] => v = w

\* After any sequence of additions and removals, repeated ones included, a key
\* is never routed to a node that is not a member, whatever hashes collide; and
\* if none do, it is routed to some member as long as there is one.
RoutedToMembers ==
  \A k \in Keys :
    /\ Get(k) \in members \cup {NoNode}
    /\ Distinct /\ members # {} => Get(k) \in members

\* What consistent hashing is for: when no hashes collide, a key only changes
\* its node if it moves to the node that is added or away from the one that is
\* removed.
KeysMoveOnlyWithTheirNode ==
  [][\A k \in Keys : Distinct /\ Get(k)' # Get(k) =>
       Get(k)' \in members' \ members \/ Get(k) \in members \ members']_ringVars
=============================================================================
