-------------------------- MODULE MCMembershipPair --------------------------
(* The coordinator and one client, with the intervals of the code (three and *)
(* six ticks), a clock that never stops and one crash.                       *)
EXTENDS Membership
=============================================================================
