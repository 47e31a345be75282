------------------------------ MODULE FLLocal -------------------------------
(***************************************************************************)
(* The training of runLocal in demo/main.go: every actor is in one process *)
(* and every reference is local.  main spawns the actors, registers the    *)
(* clients with the cluster manager, tells the coordinator to start and    *)
(* waits for DoneCh.  The model begins when main has told the coordinator. *)
(***************************************************************************)
EXTENDS FLActors

ASSUME LocalAssumption == Remote = FALSE

\* clientRefs: the spawned clients, each once, in some order
Rosters == {cs \in [1..NumClients -> Clients] : ToSet(cs) = Clients}

Init ==
  \E roster \in Rosters :
  /\ coord = [up |-> TRUE, round |-> 0, clients |-> <<>>, peers |-> FALSE,
              model |-> NoModel, seeded |-> {}]
  /\ doneCh = FALSE
  /\ agg = [expected |-> NumClients, round |-> 0, updates |-> <<>>]
  /\ \E v \in BOOLEAN :   \* does the validation split hold a sample?
       mon = [validation |-> v, model |-> NoModel, log |-> {}]
  /\ registered = <<>>
  /\ coordBox = <<StartFL(roster)>>
  /\ aggBox = <<>> /\ monBox = <<>>
  /\ cmBox = IF Clustering THEN roster ELSE <<>>  \* a RegisterClient for each
  /\ clientBox = [c \in Clients |-> <<>>]
  /\ wire = EmptyBag

\* the actors' loops; no message leaves the process
Next == Actors /\ UNCHANGED wire

\* every actor has a goroutine that keeps taking messages
Fairness ==
  /\ WF_flVars(Coordinator) /\ WF_flVars(Aggregator)
  /\ WF_flVars(Monitor) /\ WF_flVars(CMRegisterClient)
  /\ \A c \in Clients : WF_flVars(Client(c))

Spec == Init /\ [][Next]_flVars
FairSpec == Spec /\ Fairness

-----------------------------------------------------------------------------
(* Properties. *)

\* The message exchange of the actors is the training loop: rounds never
\* overlap, a round is closed by the last of its clients and by no other
\* update, and DoneCh is closed once and only between rounds (a second close
\* would panic and end the coordinator).
ImplementsTrainingLoop == Loop!Spec

TypeOK == ActorsTypeOK /\ wire = EmptyBag

\* the average of one update of round r from every client and of nothing else
OneOfEach(r) == [p \in Clients \X Rounds |-> IF p[2] = r THEN 1 ELSE 0]

\* FedAvg never averages an incomplete, doubled or mixed set of updates: this
\* holds of the model the coordinator serves, of the result on its way to it,
\* and of every model the monitor has measured, which moreover is the model of
\* the very round the metrics are reported for (SetGlobalModel overtakes
\* RoundComplete nowhere).
AveragesAreComplete ==
  /\ coord.model # NoModel =>
       \E r \in 1..coord.round : coord.model = OneOfEach(r)
  /\ \A m \in ToSet(coordBox) : m.type = "AggregationResult" =>
       m.round = coord.round /\ m.model = OneOfEach(m.round)
  /\ \A e \in mon.log : e.of = OneOfEach(e.round)

\* where the work of client c for the current round can be
Asked(c) == \E m \in ToSet(clientBox[c]) : m.type = "StartRound"
Underway(c) == \E m \in ToSet(aggBox) : m.client = c
Places(c) ==
  (IF Asked(c) THEN {"client"} ELSE {})
    \cup (IF Underway(c) THEN {"aggregator"} ELSE {})
    \cup (IF c \in Contributed THEN {"updates"} ELSE {})

\* While a round is open no client's work is lost, doubled or left over from
\* an earlier round: it is in exactly one of the client's mailbox, the
\* aggregator's mailbox and the aggregator's list; between rounds it is nowhere.
WorkIsConserved ==
  /\ \A c \in Clients :
       IF Phase = "training" THEN Cardinality(Places(c)) = 1 ELSE Places(c) = {}
  /\ \A m \in ToSet(aggBox) \cup UNION {ToSet(clientBox[c]) : c \in Clients} :
       m.type \in {"StartRound", "LocalUpdate"} => m.round = coord.round
  /\ Len(aggBox) + Len(agg.updates) <= NumClients

\* With validation samples no round's metrics are lost or taken twice: the log
\* holds one entry for each round whose report was made.
MetricsLogHasNoGap ==
  LET rounds == {e.round : e \in mon.log} IN
  /\ Cardinality(mon.log) = Cardinality(rounds)
  /\ rounds = 1..Cardinality(rounds)
  /\ mon.validation => coord.round - Cardinality(rounds) \in {0, 1}

\* main is released: with validation samples training always ends.  (Without
\* them the monitor stays silent and the coordinator waits for ever.)
TrainingEnds == mon.validation ~> doneCh
=============================================================================
