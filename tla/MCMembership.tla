---------------------------- MODULE MCMembership ----------------------------
(* Two clients and the coordinator, so that a node has to choose whom to     *)
(* gossip to and hears of a member from a third party.  Intervals of one and *)
(* two ticks instead of three and six keep the order of events and shorten   *)
(* the way to each.  The clock stops after MaxTicks ticks.                   *)
EXTENDS Membership, TLC

CONSTANT MaxTicks

VARIABLE ticks

\* The run begins when everybody has registered and has just heard of everybody.
Acquaintance ==
  /\ up = [n \in Nodes |-> TRUE]
  /\ members = [n \in Nodes |-> [m \in Nodes |-> Entry("alive", 0)]]
  /\ age = [n \in Nodes |-> [m \in Nodes |-> IF m = n THEN Never ELSE 0]]
  /\ ring = [n \in Nodes |-> Nodes]
  /\ inbox = [n \in Nodes |-> <<>>]
  /\ changed = [n \in Nodes |-> {}]
  /\ target = [n \in Nodes |-> n] /\ letter = [n \in Nodes |-> {}]
  /\ scan = [n \in Nodes |-> {}] /\ judged = [n \in Nodes |-> {}]
  /\ verdict = [n \in Nodes |-> {}]
  /\ seeding = {} /\ joined = Clients /\ downs = {}
  /\ dueGossip = {} /\ dueScan = {}
  /\ crashes = 0

BoundedInit == Acquaintance /\ ticks = 0

\* Callbacks only touch the ring and what the coordinator is told, of which the
\* properties here do not speak: they are made at once.
Calling(n) == changed[n] # {} \/ verdict[n] # {}
Callbacks == \E n \in Nodes : ReceiveCallback(n) \/ ScanCallback(n)

\* While a node gossips or scans, the others wait: its steps interleave with those
\* of its own other loops and with the clock.
Busy(n) == target[n] # n \/ scan[n] # {} \/ judged[n] # {}
OthersRest(n) == \A m \in Nodes \ {n} : ~Busy(m)

Steps ==
  \/ \E n \in Nodes : OthersRest(n) /\ Loops(n)
  \/ \E c \in Clients : OthersRest(c) /\ (ClientCrash(c) \/ ClientRestart(c))

BoundedNext ==
  \/ Callbacks /\ UNCHANGED ticks
  \/ /\ \A n \in Nodes : ~Calling(n)
     /\ \/ Steps /\ UNCHANGED ticks
        \/ Tick /\ ticks < MaxTicks /\ ticks' = ticks + 1

\* the clients are alike, at the start and in every action and property
ClientsAreAlike == Permutations(Clients)

BoundedSpec == BoundedInit /\ [][BoundedNext]_<<vars, ticks>>
=============================================================================
