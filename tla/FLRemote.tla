------------------------------ MODULE FLRemote ------------------------------
(***************************************************************************)
(* The distributed deployment (runCoordinator and runClient of             *)
(* demo/main.go): the coordinator's process hosts the coordinator, the     *)
(* aggregator, the monitor and the cluster manager; every client is a      *)
(* process of its own that registers with a ClientJoin RPC, retried while  *)
(* it fails.  Messages between processes are RPCs sent by a goroutine each *)
(* whose error is dropped: they overtake one another and may be lost.      *)
(*                                                                         *)
(* Clients crash and are started again by hand; the gossip membership      *)
(* tells the coordinator of the nodes it holds dead, at every tick of its  *)
(* failure detector and sometimes wrongly (Membership models why).  The    *)
(* detector passes over a client that no gossip has come from yet.         *)
(*                                                                         *)
(* Bounds: MaxTries join attempts of a client; each kind of fault happens  *)
(* at most once, while training goes on, and those of one behaviour are    *)
(* together in one of the Scenarios.                                       *)
(***************************************************************************)
EXTENDS FLActors

CONSTANTS
  MaxTries,   \* bound on the join attempts of a client (maxAttempts in main.go)
  Scenarios   \* the sets of faults that may happen in one behaviour

FaultKinds == {"early", "timeout", "loss", "crash", "restart", "false"}

ASSUME RemoteAssumption ==
  /\ Remote = TRUE
  /\ "coordinator" \notin Clients /\ "aggregator" \notin Clients
  /\ MaxTries \in Nat \ {0}
  /\ Scenarios \subseteq SUBSET FaultKinds

VARIABLES
  up,         \* up[c]: is client c's process running?
  joining,    \* joining[c]: "idle", "waiting" for the ack, or "registered"
  tries,      \* tries[c]: join attempts so far
  peersTold,  \* has runCoordinator sent SetPeers?
  heard,      \* the clients in the coordinator's lastSeen
  faults      \* the faults that have happened

envVars == <<up, joining, tries, peersTold, heard, faults>>
vars == <<flVars, envVars>>

\* the coordinator is running and training is not over; what goes wrong later
\* is of no interest
Training == coord.up /\ ~doneCh

Fault(kind) ==
  /\ Training
  /\ kind \notin faults
  /\ \E S \in Scenarios : faults \cup {kind} \subseteq S
  /\ faults' = faults \cup {kind}

Init ==
  /\ coord = [up |-> TRUE, round |-> 0, clients |-> <<>>, peers |-> FALSE,
              model |-> NoModel, seeded |-> {}]
  /\ doneCh = FALSE
  /\ agg = [expected |-> NumClients, round |-> 0, updates |-> <<>>]
  /\ mon = [validation |-> TRUE, model |-> NoModel, log |-> {}]
  /\ registered = <<>>
  /\ coordBox = <<>> /\ aggBox = <<>> /\ monBox = <<>> /\ cmBox = <<>>
  /\ clientBox = [c \in Clients |-> <<>>]
  /\ wire = EmptyBag
  /\ up = [c \in Clients |-> TRUE]
  /\ joining = [c \in Clients |-> "idle"]
  /\ tries = [c \in Clients |-> 0]
  /\ peersTold = FALSE
  /\ heard = {}
  /\ faults = {}

-----------------------------------------------------------------------------
(* The main functions of the processes. *)

\* runCoordinator hands the coordinator its peers, 100 ms after spawning it
MainSetPeers ==
  /\ ~peersTold
  /\ peersTold' = TRUE
  /\ coordBox' = Post(coordBox, SetPeers)
  /\ UNCHANGED <<actorVars, aggBox, monBox, cmBox, clientBox, wire,
                 up, joining, tries, heard, faults>>

\* one attempt of runClient's registration loop.  The attempt is part of the
\* call, so that the ack of an earlier one is not taken for it.
JoinCall(c, n) == [to |-> "coordinator", msg |-> ClientJoin(c), try |-> n]

SendJoin(c) ==
  /\ up[c] /\ joining[c] = "idle" /\ tries[c] < MaxTries
  /\ joining' = [joining EXCEPT ![c] = "waiting"]
  /\ tries' = [tries EXCEPT ![c] = @ + 1]
  /\ wire' = wire (+) SetToBag({JoinCall(c, tries[c] + 1)})
  /\ UNCHANGED <<actorVars, coordBox, aggBox, monBox, cmBox, clientBox,
                 up, peersTold, heard, faults>>

\* no ack within 5 seconds: the call has failed for the client, but the request
\* may still be handled
JoinTimeout(c) ==
  /\ up[c] /\ joining[c] = "waiting"
  /\ Fault("timeout")
  /\ joining' = [joining EXCEPT ![c] = "idle"]
  /\ UNCHANGED <<flVars, up, tries, peersTold, heard>>

\* after the last attempt the client's process ends
GiveUp(c) ==
  /\ up[c] /\ joining[c] = "idle" /\ tries[c] = MaxTries
  /\ up' = [up EXCEPT ![c] = FALSE]
  /\ clientBox' = [clientBox EXCEPT ![c] = <<>>]
  /\ UNCHANGED <<actorVars, coordBox, aggBox, monBox, cmBox, wire,
                 joining, tries, peersTold, heard, faults>>

-----------------------------------------------------------------------------
(* The remote calls. *)

\* RemoteServer.Tell at the coordinator's process: acknowledged when the actor
\* is found, whether or not its mailbox had room.  A join handled before
\* SetPeers was sent is counted as a fault of kind "early".
DeliverJoin(c, n) ==
  LET answered == joining[c] = "waiting" /\ tries[c] = n IN
  /\ BagIn(JoinCall(c, n), wire)
  /\ wire' = wire (-) SetToBag({JoinCall(c, n)})
  /\ IF peersTold THEN UNCHANGED faults ELSE Fault("early")
  /\ coordBox' = IF coord.up THEN Post(coordBox, ClientJoin(c)) ELSE coordBox
  /\ joining' = IF answered
                  THEN [joining EXCEPT ![c] = IF coord.up THEN "registered" ELSE "idle"]
                  ELSE joining
  /\ UNCHANGED <<actorVars, aggBox, monBox, cmBox, clientBox, up, tries, peersTold,
                 heard>>

\* Faulty: a call whose answer is late is repeated.
DeliverUpdate_AtLeastOnce(e) ==
  /\ e.to = "aggregator"
  /\ wire' = wire (-) SetToBag({e}) \/ UNCHANGED wire
  /\ aggBox' = Post(aggBox, e.msg)
  /\ UNCHANGED <<actorVars, coordBox, monBox, cmBox, clientBox, envVars>>

\* an update reaches the aggregator
DeliverUpdate(e) ==
  /\ e.to = "aggregator"
  /\ wire' = wire (-) SetToBag({e})
  /\ aggBox' = Post(aggBox, e.msg)
  /\ UNCHANGED <<actorVars, coordBox, monBox, cmBox, clientBox, envVars>>

\* a message reaches client c's process, or nobody when that is down
DeliverToClient(e) ==
  /\ e.to \in Clients
  /\ wire' = wire (-) SetToBag({e})
  /\ clientBox' = IF up[e.to] THEN [clientBox EXCEPT ![e.to] = Post(@, e.msg)]
                              ELSE clientBox
  /\ UNCHANGED <<actorVars, coordBox, aggBox, monBox, cmBox, envVars>>

Deliver ==
  \/ \E c \in Clients, n \in 1..MaxTries : DeliverJoin(c, n)
  \/ \E e \in BagToSet(wire) : DeliverUpdate(e) \/ DeliverToClient(e)

\* RemoteActorRef.Tell drops the error of a call that fails or times out
Lose ==
  /\ Fault("loss")
  /\ \E e \in BagToSet(wire) : wire' = wire (-) SetToBag({e})
  /\ UNCHANGED <<actorVars, coordBox, aggBox, monBox, cmBox, clientBox,
                 up, joining, tries, peersTold, heard>>

-----------------------------------------------------------------------------
(* Failures of clients, and what the coordinator is told of them. *)

\* with the process go the calls it was making, those that have not arrived
ClientCrash(c) ==
  LET calls == {e \in BagToSet(wire) : e.to \notin Clients /\ e.msg.client = c} IN
  /\ up[c]
  /\ Fault("crash")
  /\ up' = [up EXCEPT ![c] = FALSE]
  /\ joining' = [joining EXCEPT ![c] = "idle"]
  /\ clientBox' = [clientBox EXCEPT ![c] = <<>>]
  /\ \E cut \in SUBSET calls : wire' = [e \in DOMAIN wire \ cut |-> wire[e]]
  /\ UNCHANGED <<actorVars, coordBox, aggBox, monBox, cmBox, tries, peersTold, heard>>

\* the process is started again; tries goes on counting (MaxTries bounds it)
ClientRestart(c) ==
  /\ ~up[c]
  /\ Fault("restart")
  /\ up' = [up EXCEPT ![c] = TRUE]
  /\ UNCHANGED <<flVars, joining, tries, peersTold, heard>>

\* a gossip message of c reaches the coordinator, perhaps before c's join: the
\* gossip loop starts first, and sends its first message two seconds later
Hear(c) ==
  /\ up[c] /\ c \notin heard
  /\ heard' = heard \cup {c}
  /\ UNCHANGED <<flVars, up, joining, tries, peersTold, faults>>

\* runCoordinator's membership.Watch callback.  detectFailures calls it for a
\* dead member at every tick, two seconds apart: the last report has long been
\* handled when the next one comes.
Watch(n) ==
  /\ Training
  /\ \A m \in ToSet(coordBox) : m.type # "ClientDown"
  /\ \A m \in ToSet(aggBox) : m.type # "RemoveClient"
  /\ coordBox' = Post(coordBox, ClientDown(n))
  /\ UNCHANGED <<actorVars, aggBox, monBox, cmBox, clientBox, wire,
                 up, joining, tries, peersTold, heard>>

\* the coordinator's detector finds that c is silent.  Whoever it has heard of is
\* in its list, having joined or not.
ReportCrashed(c) == ~up[c] /\ c \in heard /\ Watch(c) /\ UNCHANGED faults

\* A report without a crash, or without the coordinator having heard of the client:
\* its own detector is wrong, or it merges the list of a client that holds n dead.
\* The members are the nodes seeded and those heard of.
ReportWrongly(n) ==
  /\ n \in {CoordinatorId} \cup coord.seeded \cup heard
  /\ Fault("false")
  /\ Watch(n)

-----------------------------------------------------------------------------

ActorStep == Actors /\ UNCHANGED envVars

Next ==
  \/ ActorStep
  \/ MainSetPeers
  \/ Deliver
  \/ Lose
  \/ \E c \in Clients :
       SendJoin(c) \/ JoinTimeout(c) \/ GiveUp(c)
         \/ ClientCrash(c) \/ ClientRestart(c) \/ Hear(c) \/ ReportCrashed(c)
  \/ \E n \in Clients \cup {CoordinatorId} : ReportWrongly(n)

Spec == Init /\ [][Next]_vars

\* Goroutines run and calls are answered; a crashed client is reported, and again
\* as long as it is dead, if the coordinator has heard of it before: detectFailures
\* skips the others.  That it hears of a client in time is not assumed.
Fairness ==
  /\ WF_vars(Coordinator /\ UNCHANGED envVars)
  /\ WF_vars(Aggregator /\ UNCHANGED envVars)
  /\ WF_vars(Monitor /\ UNCHANGED envVars)
  /\ WF_vars(CMRegisterClient /\ UNCHANGED envVars)
  /\ WF_vars(MainSetPeers)
  /\ WF_vars(Deliver)
  /\ \A c \in Clients :
       /\ WF_vars(Client(c) /\ UNCHANGED envVars)
       /\ WF_vars(SendJoin(c))
       /\ WF_vars(ReportCrashed(c))

FairSpec == Spec /\ Fairness

-----------------------------------------------------------------------------
(* Properties. *)

Calls ==
  [to : {"coordinator"}, msg : [type : {"ClientJoin"}, client : Clients], try : 1..MaxTries]
    \cup [to : {"aggregator"}, msg : AggMsg]
    \cup [to : Clients, msg : ClientMsg]

TypeOK ==
  /\ ActorsTypeOK
  /\ IsABag(wire) /\ DOMAIN wire \subseteq Calls
  /\ up \in [Clients -> BOOLEAN]
  /\ joining \in [Clients -> {"idle", "waiting", "registered"}]
  /\ tries \in [Clients -> 0..MaxTries]
  /\ peersTold \in BOOLEAN
  /\ heard \subseteq Clients
  /\ faults \subseteq FaultKinds

\* Between two messages the aggregator never holds enough updates to average
\* without having done so, whatever mixture of updates and removals it has
\* seen, and it never waits for zero clients: an empty list is never averaged.
NoMissedAggregation == agg.expected >= 1 /\ Len(agg.updates) < agg.expected

\* Every average, the one served, one on its way or one measured, is of a
\* non-empty set of updates of one and the same round, which had begun.
Averages ==
  {m.model : m \in {x \in ToSet(coordBox) : x.type = "AggregationResult"}}
    \cup {m.model : m \in {x \in ToSet(monBox) : x.type = "SetGlobalModel"}}
    \cup ({coord.model, mon.model} \ {NoModel})

AveragesOfOneRound ==
  \A a \in Averages :
    \E r \in 1..coord.round :
      /\ \E c \in Clients : a[c, r] > 0
      /\ \A c \in Clients, s \in Rounds \ {r} : a[c, s] = 0

\* No client's update enters an average twice, unless the client registered
\* twice: its join was retried after a timeout, or its process was restarted.
\* Late updates, removals and resets of the list alone never double one.
NoClientCountedTwice ==
  faults \cap {"timeout", "restart"} = {} =>
    \A a \in Averages : \A c \in Clients, r \in Rounds : a[c, r] <= 1

\* Without a fault the distributed training keeps the promise of the local one
\* in spite of the reordered calls: every average holds one update of each
\* client, the coordinator survives, and no round begins before the metrics of
\* the previous one are in.
FaultFreeRounds ==
  faults = {} =>
    /\ coord.up
    /\ \A a \in Averages : \E r \in 1..coord.round :
         \A c \in Clients, s \in Rounds : a[c, s] = IF s = r THEN 1 ELSE 0
    /\ coord.round - Cardinality(mon.log) \in {0, 1}

\* Until the first fault the distributed deployment takes no step the training
\* loop does not take: whatever calls overtake one another, a round is opened
\* when the last client has joined or the last metrics are in, each client adds
\* to it once, the last of them closes it, and DoneCh is closed between rounds.
FaultFreeTraining ==
  /\ Loop!Init
  /\ [][faults' = {} => Loop!Next]_(Loop!loopVars)

\* A client that crashes in the middle of training does not block it, if the
\* coordinator has taken a gossip message of it: its repeated death reports bring
\* the expected number of updates down, so that the survivors' updates complete
\* the round, even those left alone in the list by an update of an earlier round.
\* A client that falls before its first gossip message may well block its round.
TrainingSurvivesCrash ==
  coord.round > 0 ~> \/ doneCh
                     \/ \A c \in Clients : ~up[c]
                     \/ \E c \in Clients : ~up[c] /\ c \notin heard
=============================================================================
