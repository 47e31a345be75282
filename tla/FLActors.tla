------------------------------ MODULE FLActors ------------------------------
(***************************************************************************)
(* The five actors of the federated training (federated-learning/actors)   *)
(* and the mailboxes and remote calls between them.  One operator per      *)
(* message handler; a handler takes the head of its actor's mailbox, as    *)
(* the message loop of ActorSystem.runActor does.                          *)
(*                                                                         *)
(* An ActorRef is either local (Tell enqueues, and drops when the mailbox  *)
(* is full) or remote (Tell starts a goroutine that performs an RPC, so    *)
(* sends are neither ordered nor sure to arrive).  Remote chooses: in      *)
(* runLocal every reference is local; in the distributed deployment the    *)
(* references between a client process and the coordinator process are     *)
(* remote.  FLLocal and FLRemote are the two deployments.                  *)
(*                                                                         *)
(* Data: a model is named by how often it averages which update (weights,  *)
(* losses and times are left out; the order of the list averaged does not  *)
(* matter to FedAvg), ActorFailed is never sent (the coordinator has no  *)
(* children) and the Started message every handler ignores is left out.    *)
(***************************************************************************)
EXTENDS Integers, FiniteSets, Bags, SequencesExt

CONSTANTS
  Clients,        \* the clients of the configuration (num_clients of them)
  CoordinatorId,  \* the coordinator's node name in the gossip membership
  TotalRounds,    \* num_rounds
  MailboxCap,     \* capacity of an actor's mailbox
  Remote,         \* are clients in processes of their own?
  Clustering      \* a bound: are registrations passed to the cluster manager?
                  \* (what it sends the clients is only printed)

ASSUME ActorsAssumption ==
  /\ IsFiniteSet(Clients) /\ Clients # {} /\ CoordinatorId \notin Clients
  /\ TotalRounds \in Nat
  /\ MailboxCap \in Nat /\ Cardinality(Clients) < MailboxCap
  /\ Remote \in BOOLEAN /\ Clustering \in BOOLEAN

NumClients == Cardinality(Clients)
Rounds == 1..TotalRounds

VARIABLES
  coord,      \* CoordinatorActor: [up, round, clients, peers, model, seeded]
  doneCh,     \* is CoordinatorConfig.DoneCh closed?
  agg,        \* AggregatorActor: [expected, round, updates]
  mon,        \* MonitorActor: [validation, model, log]
  registered, \* ClusterManagerActor.clients
  coordBox, aggBox, monBox, cmBox,  \* mailboxes: sequences of messages
  clientBox,  \* clientBox[c]: the mailbox of client c's actor
  wire        \* remote Tells on their way: a bag of [to, msg]

actorVars == <<coord, doneCh, agg, mon, registered>>
boxVars == <<coordBox, aggBox, monBox, cmBox, clientBox, wire>>
flVars == <<actorVars, boxVars>>

-----------------------------------------------------------------------------
(* Messages. *)

Update(c, r) == [client |-> c, round |-> r]

StartFL(cs) == [type |-> "StartFederatedLearning", clients |-> cs]
SetPeers == [type |-> "SetPeers"]
ClientJoin(c) == [type |-> "ClientJoin", client |-> c]
ClientDown(n) == [type |-> "ClientDown", client |-> n]
AggregationResult(r, m) ==
  [type |-> "AggregationResult", round |-> r, model |-> m]
MetricsReport(r, b) == [type |-> "MetricsReport", round |-> r, converged |-> b]
LocalUpdate(c, r) == [type |-> "LocalUpdate", client |-> c, round |-> r]
RemoveClient(n) == [type |-> "RemoveClient", client |-> n]
SetGlobalModel(m) == [type |-> "SetGlobalModel", model |-> m]
RoundComplete(r) == [type |-> "RoundComplete", round |-> r]
StartRound(r) == [type |-> "StartRound", round |-> r]
ClusterAssign == [type |-> "ClusterAssign"]

\* FedAvg of the list us: how often each client's update of each round is in it
FedAvg(us) == [p \in Clients \X Rounds |->
                 Cardinality({i \in DOMAIN us : us[i] = Update(p[1], p[2])})]

\* no model yet (MonitorActor.globalModel is nil; the coordinator's is all zero)
NoModel == [p \in Clients \X Rounds |-> 0]

-----------------------------------------------------------------------------
(* Sending. *)

\* boundedMailbox.Enqueue through localActorRef.Tell, which ignores ErrMailboxFull
Post(box, m) == IF Len(box) < MailboxCap THEN Append(box, m) ELSE box

\* one StartRound or ClusterAssign to every reference of the list cs.  A remote
\* list may hold a client twice, which then gets the message twice.
SendToClients(cs, m) ==
  IF Remote
  THEN LET Env(c) == [to |-> c, msg |-> m]
           Copies == [e \in {Env(c) : c \in ToSet(cs)} |->
                        Cardinality({i \in DOMAIN cs : Env(cs[i]) = e})]
       IN  wire' = wire (+) Copies /\ UNCHANGED clientBox
  ELSE /\ clientBox' = [c \in Clients |-> IF c \in ToSet(cs)
                                            THEN Post(clientBox[c], m)
                                            ELSE clientBox[c]]
       /\ UNCHANGED wire

-----------------------------------------------------------------------------
(* CoordinatorActor.Receive.  A handler that panics (a nil peer, a second  *)
(* close of DoneCh) ends the actor: it is spawned without a supervisor.    *)

CoordTakes(type) == coord.up /\ coordBox # <<>> /\ Head(coordBox).type = type

CloseDone(c) ==
  /\ doneCh' = TRUE
  /\ coord' = [c EXCEPT !.up = ~doneCh]

\* Faulty: the limit of rounds is compared with <=.
RoundsLeft_OffByOne(c) == c.round <= TotalRounds

RoundsLeft(c) == c.round < TotalRounds

\* startRound, called with the coordinator's fields as the handler left them
BeginRound(c) ==
  \/ /\ RoundsLeft(c)
     /\ coord' = [c EXCEPT !.round = @ + 1]
     /\ SendToClients(c.clients, StartRound(c.round + 1))
     /\ UNCHANGED doneCh
  \/ /\ ~RoundsLeft(c)
     /\ CloseDone(c)
     /\ UNCHANGED <<clientBox, wire>>

CoordStartFL ==
  /\ CoordTakes("StartFederatedLearning")
  /\ coordBox' = Tail(coordBox)
  /\ BeginRound([coord EXCEPT !.clients = Head(coordBox).clients, !.peers = TRUE])
  /\ UNCHANGED <<agg, mon, registered, aggBox, monBox, cmBox>>

\* Faulty: the monitor is told to evaluate before it is given the model.
Report_Swapped(m) == Post(Post(monBox, RoundComplete(m.round)), SetGlobalModel(m.model))

\* an aggregation result, passed on to the monitor
Report(m) == Post(Post(monBox, SetGlobalModel(m.model)), RoundComplete(m.round))

\* Faulty: the next round is begun without waiting for the metrics.
CoordAggregationResult_Hasty ==
  LET m == Head(coordBox) IN
  /\ CoordTakes("AggregationResult")
  /\ coordBox' = Tail(coordBox)
  /\ monBox' = Report(m)
  /\ BeginRound([coord EXCEPT !.model = m.model])
  /\ UNCHANGED <<agg, mon, registered, aggBox, cmBox>>

CoordAggregationResult ==
  LET m == Head(coordBox) IN
  /\ CoordTakes("AggregationResult")
  /\ coordBox' = Tail(coordBox)
  /\ coord' = [coord EXCEPT !.model = m.model, !.up = coord.peers]
  /\ monBox' = IF coord.peers THEN Report(m) ELSE monBox
  /\ UNCHANGED <<doneCh, agg, mon, registered, aggBox, cmBox, clientBox, wire>>

\* Faulty: no return after the close on convergence.
CoordMetricsReport_NoReturn ==
  /\ CoordTakes("MetricsReport")
  /\ coordBox' = Tail(coordBox)
  /\ \/ /\ Head(coordBox).converged
        /\ doneCh' = TRUE
        /\ coord' = [coord EXCEPT !.up = ~doneCh /\ coord.round < TotalRounds,
                                  !.round = IF @ < TotalRounds THEN @ + 1 ELSE @]
        /\ SendToClients(IF coord.round < TotalRounds THEN coord.clients ELSE <<>>,
                         StartRound(coord.round + 1))
     \/ /\ ~Head(coordBox).converged
        /\ BeginRound(coord)
  /\ UNCHANGED <<agg, mon, registered, aggBox, monBox, cmBox>>

CoordMetricsReport ==
  /\ CoordTakes("MetricsReport")
  /\ coordBox' = Tail(coordBox)
  /\ \/ /\ Head(coordBox).converged
        /\ CloseDone(coord)
        /\ UNCHANGED <<clientBox, wire>>
     \/ /\ ~Head(coordBox).converged
        /\ BeginRound(coord)
  /\ UNCHANGED <<agg, mon, registered, aggBox, monBox, cmBox>>

CoordSetPeers ==
  /\ CoordTakes("SetPeers")
  /\ coordBox' = Tail(coordBox)
  /\ coord' = [coord EXCEPT !.peers = TRUE]
  /\ UNCHANGED <<doneCh, agg, mon, registered, aggBox, monBox, cmBox, clientBox, wire>>

\* Faulty: the first round begins one client early.
Complete_OneEarly(cs) == Len(cs) >= NumClients - 1

\* ExpectedTotal of every ClientJoin is num_clients
Complete(cs) == Len(cs) >= NumClients

\* SetPeers is what sets the cluster manager's reference; seeded are the nodes
\* membership.Seed was called for.
CoordClientJoin ==
  LET c == Head(coordBox).client
      joined == [coord EXCEPT !.clients = Append(@, c), !.seeded = @ \cup {c}] IN
  /\ CoordTakes("ClientJoin")
  /\ coordBox' = Tail(coordBox)
  /\ cmBox' = IF coord.peers /\ Clustering THEN Post(cmBox, c) ELSE cmBox
  /\ \/ /\ Complete(joined.clients)
        /\ BeginRound(joined)
     \/ /\ ~Complete(joined.clients)
        /\ coord' = joined
        /\ UNCHANGED <<doneCh, clientBox, wire>>
  /\ UNCHANGED <<agg, mon, registered, aggBox, monBox>>

\* the references that are not node n's, gathered by a loop over the list
Others(cs, n) ==
  LET kept[i \in 0..Len(cs)] ==
        IF i = 0 THEN <<>>
        ELSE IF cs[i] = n THEN kept[i - 1] ELSE Append(kept[i - 1], cs[i])
  IN  kept[Len(cs)]

CoordClientDown ==
  LET n == Head(coordBox).client IN
  /\ CoordTakes("ClientDown")
  /\ coordBox' = Tail(coordBox)
  /\ coord' = [coord EXCEPT !.clients = Others(@, n)]
  /\ aggBox' = IF coord.peers THEN Post(aggBox, RemoveClient(n)) ELSE aggBox
  /\ UNCHANGED <<doneCh, agg, mon, registered, monBox, cmBox, clientBox, wire>>

-----------------------------------------------------------------------------
(* AggregatorActor.Receive. *)

AggTakes(type) == aggBox # <<>> /\ Head(aggBox).type = type

\* Faulty: one update too few is enough.
Enough_OneEarly(a) == Len(a.updates) + 1 >= a.expected

Enough(a) == Len(a.updates) >= a.expected

\* Faulty: the list is not cleared when it has been averaged.
Settle_KeepsList(a) ==
  /\ agg' = a
  /\ IF Enough(a)
     THEN coordBox' = Post(coordBox, AggregationResult(a.round, FedAvg(a.updates)))
     ELSE UNCHANGED coordBox

\* the check that ends both handlers, on the fields as the handler left them
Settle(a) ==
  IF Enough(a)
  THEN /\ coordBox' = Post(coordBox, AggregationResult(a.round, FedAvg(a.updates)))
       /\ agg' = [a EXCEPT !.updates = <<>>]
  ELSE agg' = a /\ UNCHANGED coordBox

\* Faulty: the list is not reset by an update of another round.
Kept_Always(r) == agg.updates

\* what an update of round r leaves of the list it is appended to
Kept(r) == IF r = agg.round THEN agg.updates ELSE <<>>

AggLocalUpdate ==
  LET m == Head(aggBox) IN
  /\ AggTakes("LocalUpdate")
  /\ aggBox' = Tail(aggBox)
  /\ Settle([agg EXCEPT !.round = m.round,
                        !.updates = Append(Kept(m.round), Update(m.client, m.round))])
  /\ UNCHANGED <<coord, doneCh, mon, registered, monBox, cmBox, clientBox, wire>>

\* Faulty: the list is not looked at again when fewer clients are expected.
AggRemoveClient_NoCheck ==
  /\ AggTakes("RemoveClient")
  /\ aggBox' = Tail(aggBox)
  /\ agg' = [agg EXCEPT !.expected = IF @ > 1 THEN @ - 1 ELSE @]
  /\ UNCHANGED <<coord, doneCh, mon, registered, coordBox, monBox, cmBox, clientBox, wire>>

AggRemoveClient ==
  /\ AggTakes("RemoveClient")
  /\ aggBox' = Tail(aggBox)
  /\ Settle([agg EXCEPT !.expected = IF @ > 1 THEN @ - 1 ELSE @])
  /\ UNCHANGED <<coord, doneCh, mon, registered, monBox, cmBox, clientBox, wire>>

-----------------------------------------------------------------------------
(* MonitorActor.Receive.  Whether the loss is under the threshold depends  *)
(* on the data: any outcome.                                               *)

MonTakes(type) == monBox # <<>> /\ Head(monBox).type = type

MonSetGlobalModel ==
  /\ MonTakes("SetGlobalModel")
  /\ monBox' = Tail(monBox)
  /\ mon' = [mon EXCEPT !.model = Head(monBox).model]
  /\ UNCHANGED <<coord, doneCh, agg, registered, coordBox, aggBox, cmBox, clientBox, wire>>

MonRoundComplete ==
  LET r == Head(monBox).round IN
  /\ MonTakes("RoundComplete")
  /\ monBox' = Tail(monBox)
  /\ \/ /\ mon.model # NoModel /\ mon.validation
        /\ mon' = [mon EXCEPT !.log = @ \cup {[round |-> r, of |-> mon.model]}]
        /\ \E converged \in BOOLEAN :
             coordBox' = Post(coordBox, MetricsReport(r, converged))
     \/ /\ mon.model = NoModel \/ ~mon.validation
        /\ UNCHANGED <<mon, coordBox>>
  /\ UNCHANGED <<coord, doneCh, agg, registered, aggBox, cmBox, clientBox, wire>>

-----------------------------------------------------------------------------
(* ClusterManagerActor.Receive (the assignment itself, kMeans, is only     *)
(* printed by the clients and left out) and ClientActor.Receive.           *)

CMRegisterClient ==
  LET cs == Append(registered, Head(cmBox)) IN
  /\ cmBox # <<>>
  /\ cmBox' = Tail(cmBox)
  /\ registered' = cs
  /\ IF Len(cs) >= NumClients THEN SendToClients(cs, ClusterAssign)
                              ELSE UNCHANGED <<clientBox, wire>>
  /\ UNCHANGED <<coord, doneCh, agg, mon, coordBox, aggBox, monBox>>

ClientTakes(c, type) == clientBox[c] # <<>> /\ Head(clientBox[c]).type = type

ClientStartRound(c) ==
  LET u == LocalUpdate(c, Head(clientBox[c]).round) IN
  /\ ClientTakes(c, "StartRound")
  /\ clientBox' = [clientBox EXCEPT ![c] = Tail(@)]
  /\ IF Remote
     THEN /\ wire' = wire (+) SetToBag({[to |-> "aggregator", msg |-> u]})
          /\ UNCHANGED aggBox
     ELSE aggBox' = Post(aggBox, u) /\ UNCHANGED wire
  /\ UNCHANGED <<coord, doneCh, agg, mon, registered, coordBox, monBox, cmBox>>

ClientClusterAssign(c) ==
  /\ ClientTakes(c, "ClusterAssign")
  /\ clientBox' = [clientBox EXCEPT ![c] = Tail(@)]
  /\ UNCHANGED <<actorVars, coordBox, aggBox, monBox, cmBox, wire>>

-----------------------------------------------------------------------------
(* One step of each actor: its message loop takes the next message. *)

Coordinator ==
  \/ CoordStartFL \/ CoordAggregationResult \/ CoordMetricsReport
  \/ CoordSetPeers \/ CoordClientJoin \/ CoordClientDown
Aggregator == AggLocalUpdate \/ AggRemoveClient
Monitor == MonSetGlobalModel \/ MonRoundComplete
Client(c) == ClientStartRound(c) \/ ClientClusterAssign(c)

Actors == Coordinator \/ Aggregator \/ Monitor \/ CMRegisterClient
            \/ \E c \in Clients : Client(c)

-----------------------------------------------------------------------------
(* Types. *)

Models == [Clients \X Rounds -> Nat]

CoordMsg ==
  [type : {"StartFederatedLearning"}, clients : Seq(Clients)]
    \cup [type : {"AggregationResult"}, round : Rounds, model : Models]
    \cup [type : {"MetricsReport"}, round : Rounds, converged : BOOLEAN]
    \cup [type : {"SetPeers"}]
    \cup [type : {"ClientJoin"}, client : Clients]
    \cup [type : {"ClientDown"}, client : Clients \cup {CoordinatorId}]
AggMsg ==
  [type : {"LocalUpdate"}, client : Clients, round : Rounds]
    \cup [type : {"RemoveClient"}, client : Clients \cup {CoordinatorId}]
MonMsg ==
  [type : {"SetGlobalModel"}, model : Models]
    \cup [type : {"RoundComplete"}, round : Rounds]
ClientMsg == [type : {"StartRound"}, round : Rounds] \cup [type : {"ClusterAssign"}]

ActorsTypeOK ==
  /\ coord \in [up : BOOLEAN, round : 0..TotalRounds, clients : Seq(Clients),
                peers : BOOLEAN, model : Models, seeded : SUBSET Clients]
  /\ doneCh \in BOOLEAN
  /\ agg \in [expected : 1..NumClients, round : 0..TotalRounds, 
          updates : Seq([client : Clients, round : Rounds])]
  /\ mon \in [validation : BOOLEAN, model : Models,
              log : SUBSET [round : Rounds, of : Models]]
  /\ registered \in Seq(Clients)
  /\ coordBox \in Seq(CoordMsg)
  /\ aggBox \in Seq(AggMsg)
  /\ monBox \in Seq(MonMsg)
  /\ cmBox \in Seq(Clients)
  /\ clientBox \in [Clients -> Seq(ClientMsg)]

-----------------------------------------------------------------------------
(* The abstract training loop that both deployments implement, the         *)
(* distributed one as long as nothing fails.                               *)

\* updates of the current round that reached the aggregator's list
Contributed == {u.client : u \in ToSet(agg.updates)}

\* the round's result has been produced and the next round has not begun
Aggregated == agg.round = coord.round /\ agg.updates = <<>>

LatestAverage ==
  IF coordBox # <<>> /\ Head(coordBox).type = "AggregationResult"
  THEN Head(coordBox).model
  ELSE coord.model

\* TrainingLoop knows no panic: an implementation of it has none
Phase == IF ~coord.up THEN "panicked"
         ELSE IF doneCh THEN "done"
         ELSE IF coord.round = 0 THEN "idle"
         ELSE IF Aggregated THEN "evaluating" ELSE "training"

Loop == INSTANCE TrainingLoop WITH
  round <- coord.round,
  phase <- Phase,
  contributed <- IF Phase = "training" THEN Contributed
                 ELSE {c \in Clients : \E r \in Rounds : LatestAverage[<<c, r>>] > 0}
=============================================================================
