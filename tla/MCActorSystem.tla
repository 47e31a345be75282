---------------------------- MODULE MCActorSystem ----------------------------
(* Three cells of two names: a parent, a supervised child, and a third cell   *)
(* that takes either name, at the same time as the first of it or later.      *)
EXTENDS ActorSystem, TLC

CONSTANTS parent, child

Family == (parent :> NoName) @@ (child :> parent)
=============================================================================
