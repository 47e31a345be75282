----------------------------- MODULE MCFLRemote -----------------------------
(* Two clients and two rounds: a round before and one after the other, and  *)
(* a client besides the one that fails.  Scenarios are the combinations of  *)
(* faults that can act on one another; a third client is in MCFLCrash.      *)
EXTENDS FLRemote, TLC

Symmetry == Permutations(Clients)

\* Both clients are heard of before anything else happens.  That enables reports
\* and prevents nothing, and no property of the run looks at it: what can happen
\* when a client is heard of later, or never, happens here as well.
HeardFirst == heard # Clients => \E c \in Clients : Hear(c)

HeardSpec == Init /\ [][Next /\ HeardFirst]_vars
=============================================================================
