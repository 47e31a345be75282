----------------------------- MODULE MCFLLocal ------------------------------
(* Three clients, as in config.yaml, and three rounds.  Three clients are   *)
(* needed for a round with one update counted, one queued and one missing;  *)
(* three rounds for one before and one after a middle round.                *)
EXTENDS FLLocal

=============================================================================
