------------------------------- MODULE MCCRDT -------------------------------
(* Three replicas, so that an update comes by a third one; two elements; three *)
(* updates, enough for an add, a remove that saw it and an add it did not see; *)
(* two states under way, so that an older one is merged after a newer one.    *)
EXTENDS CRDT, TLC

Symmetry == Permutations(Replicas) \cup Permutations(Elems)
=============================================================================
