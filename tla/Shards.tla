-------------------------------- MODULE Shards --------------------------------
(***************************************************************************)
(* Who trains on which samples: data.Partition as runLocal calls it, once  *)
(* for all clients, and as runClient calls it, once in every client's      *)
(* process (data/partition.go, demo/main.go).                              *)
(*                                                                         *)
(* The training samples, the same file read by all, are numbered in the    *)
(* order of the feature by which the non-IID mode sorts them.  Samples of  *)
(* equal features are sorted the same way by every process.                *)
(***************************************************************************)
EXTENDS Naturals, Sequences, FiniteSets

CONSTANTS
  NumSamples,
  NumShards    \* FLConfig.NumClients

ASSUME ShardsAssumption == NumSamples \in Nat /\ NumShards \in Nat \ {0}

VARIABLES
  deployment,  \* "local" or "distributed"
  mode,        \* FLConfig.PartitionMode
  loaded,      \* the clients that have their samples
  shard        \* shard[c]: the samples client c trains on

shardVars == <<deployment, mode, loaded, shard>>

Trainers == 1..NumShards
TrainSamples == 1..NumSamples

ShardsInit ==
  /\ deployment \in {"local", "distributed"}
  /\ mode \in {"iid", "non_iid"}
  /\ loaded = {}
  /\ shard = [c \in Trainers |-> {}]

-----------------------------------------------------------------------------

\* what the samples may look like in temp: rand.Shuffle is seeded at random in
\* every process, sort.Slice is not
Orders ==
  IF mode = "iid"
  THEN {o \in [TrainSamples -> TrainSamples] : \A i, j \in TrainSamples : o[i] = o[j] => i = j}
  ELSE {[i \in TrainSamples |-> i]}

Size == NumSamples \div NumShards

\* Faulty: the last part ends where the others of its size would.
End_NoRemainder(c) == c * Size

\* the last part takes what is left
End(c) == IF c = NumShards THEN NumSamples ELSE c * Size

Part(order, c) == {order[i] : i \in ((c - 1) * Size + 1)..End(c)}

\* runLocal
LoadAll ==
  /\ deployment = "local" /\ loaded = {}
  /\ loaded' = Trainers
  /\ \E o \in Orders : shard' = [c \in Trainers |-> Part(o, c)]
  /\ UNCHANGED <<deployment, mode>>

\* runClient, in a process that starts for the first time or once more
Load(c) ==
  /\ deployment = "distributed"
  /\ loaded' = loaded \cup {c}
  /\ \E o \in Orders : shard' = [shard EXCEPT ![c] = Part(o, c)]
  /\ UNCHANGED <<deployment, mode>>

ShardsNext == LoadAll \/ \E c \in Trainers : Load(c)

ShardsSpec == ShardsInit /\ [][ShardsNext]_shardVars

-----------------------------------------------------------------------------
(* Properties. *)

ShardsTypeOK ==
  /\ deployment \in {"local", "distributed"} /\ mode \in {"iid", "non_iid"}
  /\ loaded \subseteq Trainers
  /\ shard \in [Trainers -> SUBSET TrainSamples]

\* No sample is trained on by two clients, and together they train on all: in
\* one process in either mode, whatever the remainder; in processes of their own,
\* started at any time and any number of times, in the sorted mode only.
PartsCoverTheData ==
  deployment = "local" \/ mode = "non_iid" =>
    /\ \A c, d \in loaded : c # d => shard[c] \cap shard[d] = {}
    /\ loaded = Trainers => UNION {shard[c] : c \in Trainers} = TrainSamples

\* What the comment of runClient says (demo/main.go:235-237): every client loads
\* the partition that runLocal would assign to it.
SamePartitionAsLocal ==
  \E o \in Orders : \A c \in loaded : shard[c] = Part(o, c)
=============================================================================
