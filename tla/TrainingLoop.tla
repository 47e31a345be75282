---------------------------- MODULE TrainingLoop ----------------------------
(***************************************************************************)
(* What the federated training promises its user, without actors and       *)
(* messages: at most TotalRounds rounds, one after the other; in each one  *)
(* every client contributes exactly one local model; only when all of them *)
(* have contributed is the round evaluated; and training ends, once, after *)
(* an evaluation (or at once when no round is asked for).                  *)
(*                                                                         *)
(* FLLocal, the training of one process, is shown to implement this, and   *)
(* FLRemote, the distributed one, as long as nothing fails.                *)
(***************************************************************************)
EXTENDS Naturals

CONSTANTS Clients,      \* a non-empty set
          TotalRounds   \* a natural number

VARIABLES round,        \* rounds begun so far
          phase,        \* "idle", "training", "evaluating" or "done"
          contributed   \* clients whose local model is in this round's average

loopVars == <<round, phase, contributed>>

Init == round = 0 /\ phase = "idle" /\ contributed = {}

\* a round begins when none is open and the budget of rounds allows it
StartRound ==
  /\ phase \in {"idle", "evaluating"}
  /\ round < TotalRounds
  /\ round' = round + 1
  /\ phase' = "training"
  /\ contributed' = {}

\* a client's model joins the average; the last one closes the round
Contribute(c) ==
  /\ phase = "training"
  /\ c \notin contributed
  /\ contributed' = contributed \cup {c}
  /\ phase' = IF contributed' = Clients THEN "evaluating" ELSE "training"
  /\ UNCHANGED round

\* training ends after an evaluation, converged or out of rounds
Finish ==
  /\ \/ phase = "evaluating"
     \/ phase = "idle" /\ round = TotalRounds
  /\ phase' = "done"
  /\ UNCHANGED <<round, contributed>>

Next ==
  \/ StartRound
  \/ \E c \in Clients : Contribute(c)
  \/ Finish

Spec == Init /\ [][Next]_loopVars
=============================================================================
