----------------------------- MODULE Membership -----------------------------
(***************************************************************************)
(* The gossip membership of actor-framework/cluster (gossip.go,            *)
(* cluster.go) in the deployment of demo/main.go: the coordinator's node   *)
(* and one node per client, each with a member list, a hash ring and three *)
(* loops (gossip, receive, failure detection) that interleave with each    *)
(* other and, at the coordinator, with the Seed call of its actor.         *)
(*                                                                         *)
(* A client's node starts by seeding the coordinator; the coordinator      *)
(* seeds a client when its ClientJoin is handled, which is any time later. *)
(*                                                                         *)
(* Time is counted in ticks of the gossip interval (2 s).  A Go ticker     *)
(* holds at most one tick that was not taken: dueGossip and dueScan.  An   *)
(* age is the number of ticks since lastSeen, saturated at DeadAfter.  The *)
(* version of an entry is saturated at MaxVersion.  Both are bounds.       *)
(***************************************************************************)
EXTENDS Integers, Sequences, FiniteSets

CONSTANTS
  Clients, Coordinator,
  SuspectAfter,  \* suspectInterval in ticks
  DeadAfter,     \* deadInterval in ticks
  ChanCap,       \* capacity of RemoteServer.gossipCh
  MaxVersion,    \* bound on versions
  MaxCrashes,    \* bound on client crashes
  Lossy,         \* may gossip calls fail?
  Punctual       \* does every node finish the work of a tick before the next?

ASSUME MembershipAssumption ==
  /\ Coordinator \notin Clients
  /\ SuspectAfter \in Nat \ {0} /\ DeadAfter \in Nat /\ SuspectAfter <= DeadAfter
  /\ ChanCap \in Nat \ {0} /\ MaxVersion \in Nat \ {0} /\ MaxCrashes \in Nat
  /\ Lossy \in BOOLEAN /\ Punctual \in BOOLEAN

Nodes == Clients \cup {Coordinator}

VARIABLES
  up,        \* up[n]: is the process running?
  members,   \* members[n][m]: n's entry for m, or Unknown
  age,       \* age[n][m]: ticks since n took a message of m, or Never
  ring,      \* ring[n]: the nodes on n's hash ring
  inbox,     \* inbox[n]: gossipCh, messages not yet taken
  target,    \* target[n]: gossip loop, the peer picked, or n itself
  letter,    \* letter[n]: gossip loop, the message on its way (at most one)
  changed,   \* changed[n]: receive loop, onChange calls still to make
  scan,      \* scan[n]: detector, entries of its snapshot still to look at
  judged,    \* judged[n]: detector, an entry to be written back (at most one)
  verdict,   \* verdict[n]: detector, onChange calls still to make (at most one)
  seeding,   \* Cluster.Seed at the coordinator: nodes upserted but not yet on the ring
  joined,    \* clients whose join is still to be handled are not in joined
  downs,     \* clients the coordinator's Watch callback was called for
  dueGossip, dueScan,  \* nodes with a tick waiting
  crashes

vars == <<up, members, age, ring, inbox, target, letter, changed, scan, judged,
          verdict, seeding, joined, downs, dueGossip, dueScan, crashes>>

-----------------------------------------------------------------------------
(* Entries and lists. *)

Entry(s, v) == [status |-> s, version |-> v]
Unknown == Entry("unknown", -1)
Never == -1

\* Faulty: a snapshot that also holds the nodes never heard of.
Known_Everybody(list) == Nodes

Known(list) == {m \in Nodes : list[m] # Unknown}

\* Faulty: the incoming entry is taken whatever its version.
Newer_AnyVersion(list, incoming) == {m \in Nodes : incoming[m].version >= 0}

\* MemberList.Merge: an entry replaces one with a lower version, or none
Newer(list, incoming) == {m \in Nodes : incoming[m].version > list[m].version}
Merge(list, incoming) ==
  [m \in Nodes |-> IF m \in Newer(list, incoming) THEN incoming[m] ELSE list[m]]

Bump(v) == IF v < MaxVersion THEN v + 1 ELSE v

\* NewCluster on node n (and, on a client, the Seed that follows it)
FirstList(n) ==
  [m \in Nodes |-> IF m \in {n, Coordinator} THEN Entry("alive", 0) ELSE Unknown]

Init ==
  /\ up = [n \in Nodes |-> TRUE]
  /\ members = [n \in Nodes |-> FirstList(n)]
  /\ age = [n \in Nodes |-> [m \in Nodes |-> Never]]
  /\ ring = [n \in Nodes |-> {n, Coordinator}]
  /\ inbox = [n \in Nodes |-> <<>>]
  /\ target = [n \in Nodes |-> n]
  /\ letter = [n \in Nodes |-> {}]
  /\ changed = [n \in Nodes |-> {}]
  /\ scan = [n \in Nodes |-> {}]
  /\ judged = [n \in Nodes |-> {}]
  /\ verdict = [n \in Nodes |-> {}]
  /\ seeding = {}
  /\ joined = {}
  /\ downs = {}
  /\ dueGossip = {} /\ dueScan = {}
  /\ crashes = 0

-----------------------------------------------------------------------------
(* Gossip loop: gossipOnce sends the whole list to one peer held alive.    *)
(* It picks the peer from one snapshot of the list, takes another for the  *)
(* message, and waits for the call to return.                              *)

Peers(n) == {m \in Nodes \ {n} : members[n][m].status = "alive"}

\* nobody to send to
GossipNone(n) ==
  /\ up[n] /\ n \in dueGossip /\ target[n] = n /\ Peers(n) = {}
  /\ dueGossip' = dueGossip \ {n}
  /\ UNCHANGED <<up, members, age, ring, inbox, target, letter, changed, scan, judged,
                 verdict, seeding, joined, downs, dueScan, crashes>>

GossipPick(n) ==
  /\ up[n] /\ n \in dueGossip /\ target[n] = n
  /\ \E m \in Peers(n) : target' = [target EXCEPT ![n] = m]
  /\ dueGossip' = dueGossip \ {n}
  /\ UNCHANGED <<up, members, age, ring, inbox, letter, changed, scan, judged,
                 verdict, seeding, joined, downs, dueScan, crashes>>

GossipCompose(n) ==
  /\ up[n] /\ target[n] # n /\ letter[n] = {}
  /\ letter' = [letter EXCEPT ![n] = {[sender |-> n, list |-> members[n]]}]
  /\ UNCHANGED <<up, members, age, ring, inbox, target, changed, scan, judged,
                 verdict, seeding, joined, downs, dueGossip, dueScan, crashes>>

\* The receiving server drops the message when its channel is full and answers
\* with success all the same; a process that is down receives nothing.
Gossip(n) ==
  LET m == target[n] IN
  /\ up[n]
  /\ \E msg \in letter[n] :
       \/ /\ up[m] /\ Len(inbox[m]) < ChanCap
          /\ inbox' = [inbox EXCEPT ![m] = Append(@, msg)]
       \/ /\ ~up[m] \/ Len(inbox[m]) = ChanCap \/ Lossy
          /\ UNCHANGED inbox
  /\ letter' = [letter EXCEPT ![n] = {}]
  /\ target' = [target EXCEPT ![n] = n]
  /\ UNCHANGED <<up, members, age, ring, changed, scan, judged, verdict,
                 seeding, joined, downs, dueGossip, dueScan, crashes>>

-----------------------------------------------------------------------------
(* onChange, as Cluster and runCoordinator set it: x is [node, status].    *)

OnChange(n, x) ==
  /\ ring' = [ring EXCEPT ![n] = IF x.status = "alive" THEN @ \cup {x.node}
                                 ELSE IF x.status = "dead" THEN @ \ {x.node}
                                 ELSE @]
  /\ downs' = IF n = Coordinator /\ x.status = "dead"
                THEN downs \cup {x.node} ELSE downs

(* Receive loop: handleGossip sets lastSeen, merges under the list's lock  *)
(* and then calls onChange for the changed entries, one by one and without *)
(* a lock.  The first two are one step: a detector that looks between them *)
(* does what it would have done after both.                                *)

\* Faulty: only a message that brings news counts as a sign of life.
Seen_OnlyNews(n, msg) ==
  IF Newer(members[n], msg.list) = {} THEN age
  ELSE [age EXCEPT ![n][msg.sender] = 0]

\* lastSeen with the message's sender seen now
Seen(n, msg) == [age EXCEPT ![n][msg.sender] = 0]

Receive(n) ==
  LET msg == Head(inbox[n]) IN
  /\ up[n] /\ inbox[n] # <<>> /\ changed[n] = {}
  /\ inbox' = [inbox EXCEPT ![n] = Tail(@)]
  /\ age' = Seen(n, msg)
  /\ members' = [members EXCEPT ![n] = Merge(@, msg.list)]
  /\ changed' = [changed EXCEPT ![n] =
       {[node |-> m, status |-> msg.list[m].status] :
          m \in Newer(members[n], msg.list)}]
  /\ UNCHANGED <<up, ring, target, letter, scan, judged, verdict, seeding, joined,
                 downs, dueGossip, dueScan, crashes>>

ReceiveCallback(n) ==
  /\ up[n]
  /\ \E x \in changed[n] :
       /\ changed' = [changed EXCEPT ![n] = @ \ {x}]
       /\ OnChange(n, x)
  /\ UNCHANGED <<up, members, age, inbox, target, letter, scan, judged, verdict,
                 seeding, joined, dueGossip, dueScan, crashes>>

-----------------------------------------------------------------------------
(* Failure detection loop.  detectFailures goes through a snapshot of the  *)
(* list; an overdue entry is copied, raised one version and written back,  *)
(* whatever the list holds by then.                                        *)

ScanStart(n) ==
  /\ up[n] /\ n \in dueScan /\ scan[n] = {} /\ judged[n] = {} /\ verdict[n] = {}
  /\ dueScan' = dueScan \ {n}
  /\ scan' = [scan EXCEPT ![n] =
       {[node |-> m, version |-> members[n][m].version] :
          m \in Known(members[n]) \ {n}}]
  /\ UNCHANGED <<up, members, age, ring, inbox, target, letter, changed, judged,
                 verdict, seeding, joined, downs, dueGossip, crashes>>

\* Faulty: an interval is exceeded, not reached.
Overdue_LateByOne(silent) == silent > SuspectAfter

\* The entry of a member never seen, or seen not long ago, is left alone.
Overdue(silent) == silent >= SuspectAfter

\* Faulty: the shorter interval is looked at first.
Judged_NeverDead(silent) == IF silent >= SuspectAfter THEN "suspected" ELSE "dead"

Judged(silent) == IF silent >= DeadAfter THEN "dead" ELSE "suspected"

Raised(x, status) == Entry(status, Bump(x.version))

\* Faulty: onChange is called only when the status is a new one.
Notices_Once(n, x, status) ==
  IF members[n][x.node].status = status THEN {}
  ELSE {[node |-> x.node, status |-> status]}

\* the calls of onChange for an entry judged: one, at every scan
Notices(n, x, status) == {[node |-> x.node, status |-> status]}

ScanMember(n) ==
  /\ up[n] /\ judged[n] = {} /\ verdict[n] = {}
  /\ \E x \in scan[n] :
       LET silent == age[n][x.node] IN
       /\ scan' = [scan EXCEPT ![n] = @ \ {x}]
       /\ \/ /\ Overdue(silent)
             /\ judged' = [judged EXCEPT ![n] =
                             {[node |-> x.node, entry |-> Raised(x, Judged(silent))]}]
          \/ /\ ~Overdue(silent)
             /\ UNCHANGED judged
  /\ UNCHANGED <<up, members, age, ring, inbox, target, letter, changed, verdict,
                 seeding, joined, downs, dueGossip, dueScan, crashes>>

\* Upsert takes another lock than the look at lastSeen
ScanWrite(n) ==
  /\ up[n]
  /\ \E x \in judged[n] :
       /\ judged' = [judged EXCEPT ![n] = @ \ {x}]
       /\ members' = [members EXCEPT ![n][x.node] = x.entry]
       /\ verdict' = [verdict EXCEPT ![n] = Notices(n, x, x.entry.status)]
  /\ UNCHANGED <<up, age, ring, inbox, target, letter, changed, scan, seeding,
                 joined, downs, dueGossip, dueScan, crashes>>

ScanCallback(n) ==
  /\ up[n]
  /\ \E x \in verdict[n] :
       /\ verdict' = [verdict EXCEPT ![n] = @ \ {x}]
       /\ OnChange(n, x)
  /\ UNCHANGED <<up, members, age, inbox, target, letter, changed, scan, judged,
                 seeding, joined, dueGossip, dueScan, crashes>>

-----------------------------------------------------------------------------
(* Cluster.Seed, called by the coordinator actor for a ClientJoin: the     *)
(* entry is written unconditionally, then the ring is updated.             *)

SeedUpsert(c) ==
  /\ up[Coordinator] /\ c \notin joined /\ seeding = {}
  /\ joined' = joined \cup {c}
  /\ members' = [members EXCEPT ![Coordinator][c] = Entry("alive", 0)]
  /\ seeding' = {c}
  /\ UNCHANGED <<up, age, ring, inbox, target, letter, changed, scan, judged,
                 verdict, downs, dueGossip, dueScan, crashes>>

SeedRing ==
  /\ seeding # {}
  /\ ring' = [ring EXCEPT ![Coordinator] = @ \cup seeding]
  /\ seeding' = {}
  /\ UNCHANGED <<up, members, age, inbox, target, letter, changed, scan, judged,
                 verdict, joined, downs, dueGossip, dueScan, crashes>>

-----------------------------------------------------------------------------
(* The processes and the clock. *)

ClientCrash(c) ==
  /\ up[c] /\ crashes < MaxCrashes
  /\ crashes' = crashes + 1
  /\ up' = [up EXCEPT ![c] = FALSE]
  /\ inbox' = [inbox EXCEPT ![c] = <<>>]
  /\ target' = [target EXCEPT ![c] = c]
  /\ letter' = [letter EXCEPT ![c] = {}]
  /\ changed' = [changed EXCEPT ![c] = {}]
  /\ scan' = [scan EXCEPT ![c] = {}]
  /\ judged' = [judged EXCEPT ![c] = {}]
  /\ verdict' = [verdict EXCEPT ![c] = {}]
  /\ dueGossip' = dueGossip \ {c} /\ dueScan' = dueScan \ {c}
  /\ UNCHANGED <<members, age, ring, seeding, joined, downs>>

\* a new process with the old name, which will join again
ClientRestart(c) ==
  /\ ~up[c]
  /\ up' = [up EXCEPT ![c] = TRUE]
  /\ members' = [members EXCEPT ![c] = FirstList(c)]
  /\ age' = [age EXCEPT ![c] = [m \in Nodes |-> Never]]
  /\ ring' = [ring EXCEPT ![c] = {c, Coordinator}]
  /\ joined' = joined \ {c}
  /\ UNCHANGED <<inbox, target, letter, changed, scan, judged, verdict, seeding,
                 downs, dueGossip, dueScan, crashes>>

Idle ==
  /\ dueGossip = {} /\ dueScan = {} /\ seeding = {}
  /\ \A n \in Nodes :
       /\ inbox[n] = <<>> /\ target[n] = n /\ changed[n] = {}
       /\ scan[n] = {} /\ judged[n] = {} /\ verdict[n] = {}

Tick ==
  /\ Punctual => Idle
  /\ age' = [n \in Nodes |-> [m \in Nodes |->
       IF age[n][m] \in 0..(DeadAfter - 1) THEN age[n][m] + 1 ELSE age[n][m]]]
  /\ dueGossip' = {n \in Nodes : up[n]}
  /\ dueScan' = {n \in Nodes : up[n]}
  /\ UNCHANGED <<up, members, ring, inbox, target, letter, changed, scan, judged,
                 verdict, seeding, joined, downs, crashes>>

GossipLoop(n) == GossipNone(n) \/ GossipPick(n) \/ GossipCompose(n) \/ Gossip(n)
ReceiveLoop(n) == Receive(n) \/ ReceiveCallback(n)
DetectorLoop(n) == ScanStart(n) \/ ScanMember(n) \/ ScanWrite(n) \/ ScanCallback(n)

Loops(n) == GossipLoop(n) \/ ReceiveLoop(n) \/ DetectorLoop(n)
Seed == SeedRing \/ \E c \in Clients : SeedUpsert(c)

Next ==
  \/ \E n \in Nodes : Loops(n)
  \/ Seed
  \/ \E c \in Clients : ClientCrash(c) \/ ClientRestart(c)
  \/ Tick

Spec == Init /\ [][Next]_vars

\* every loop has a goroutine of its own, tickers go on ticking and a join that
\* was sent is handled
Fairness ==
  /\ \A n \in Nodes : WF_vars(GossipLoop(n)) /\ WF_vars(ReceiveLoop(n))
                        /\ WF_vars(DetectorLoop(n))
  /\ \A c \in Clients : WF_vars(SeedUpsert(c))
  /\ WF_vars(SeedRing) /\ WF_vars(Tick)

FairSpec == Spec /\ Fairness

-----------------------------------------------------------------------------
(* Properties. *)

Info == [status : {"alive", "suspected", "dead"}, version : 0..MaxVersion]
Lists == [Nodes -> Info \cup {Unknown}]
Messages == [sender : Nodes, list : Lists]
Changes == [node : Nodes, status : {"alive", "suspected", "dead"}]
Snapshots == [node : Nodes, version : 0..MaxVersion]
Judgements == [node : Nodes, entry : Info]

TypeOK ==
  /\ up \in [Nodes -> BOOLEAN]
  /\ members \in [Nodes -> Lists]
  /\ age \in [Nodes -> [Nodes -> {Never} \cup 0..DeadAfter]]
  /\ ring \in [Nodes -> SUBSET Nodes]
  /\ inbox \in [Nodes -> Seq(Messages)]
  /\ target \in [Nodes -> Nodes]
  /\ letter \in [Nodes -> SUBSET Messages]
  /\ changed \in [Nodes -> SUBSET Changes]
  /\ scan \in [Nodes -> SUBSET Snapshots]
  /\ judged \in [Nodes -> SUBSET Judgements]
  /\ verdict \in [Nodes -> SUBSET Changes]
  /\ seeding \subseteq Clients /\ joined \subseteq Clients
  /\ downs \subseteq Nodes
  /\ dueGossip \subseteq Nodes /\ dueScan \subseteq Nodes
  /\ crashes \in 0..MaxCrashes

\* Only a fresh entry says alive: a node never raises its own version, so every
\* version above zero, in a list or in a message, was given by a failure
\* detector.  This is why a wrong suspicion cannot be refuted.
AliveIsVersionZero ==
  \A n \in Nodes :
    /\ \A m \in Nodes : members[n][m].status = "alive" <=> members[n][m].version = 0
    /\ \A i \in DOMAIN inbox[n] : \A m \in Nodes :
         inbox[n][i].list[m].status = "alive" <=> inbox[n][i].list[m].version = 0
    /\ \A msg \in letter[n] : \A m \in Nodes :
         msg.list[m].status = "alive" <=> msg.list[m].version = 0
    /\ \A x \in judged[n] : x.entry.status # "alive" /\ x.entry.version # 0

\* A suspected or dead entry never becomes alive again, whatever is gossiped and
\* however the loops interleave, except in the coordinator's list when the
\* client joins again and in a list that starts anew with its process.
NoRevivalStep ==
  \A n, m \in Nodes :
    members[n][m].status \in {"suspected", "dead"} /\ members'[n][m].status = "alive" =>
      \/ n = Coordinator /\ m \in joined' \ joined
      \/ ~up[n] /\ up'[n]

NoRevival == [][NoRevivalStep]_vars

\* Once a client's detector has gone through the list, no member it has not
\* heard of for suspectInterval is left alive in it; neither gossip received
\* during the scan nor the stale snapshot undoes that.
SilenceIsNoticed ==
  \A n \in Clients : \A m \in Nodes \ {n} :
    up[n] /\ n \notin dueScan /\ scan[n] = {} /\ judged[n] = {} /\ age[n][m] >= SuspectAfter =>
      members[n][m].status \in {"suspected", "dead"}

\* Of a pair of nodes with nobody else in the cluster neither is suspected by
\* the other while both run and no call fails.
NoFalseSuspicionOfAPair ==
  crashes = 0 => \A n, m \in Nodes : members[n][m].status \in {"alive", "unknown"}

\* A crash of a client the coordinator has had a gossip message from is
\* reported to the coordinator actor (unless the client is started again first).
HeardCrashIsReported ==
  \A c \in Clients :
    (age[Coordinator][c] # Never /\ ~up[c]) ~> (c \in downs \/ up[c])

\* A client that is down and dead in the coordinator's list leaves the ring, even
\* if a Seed that was under way puts it back there meanwhile.
DeadLeavesRing ==
  \A c \in Clients :
    (members[Coordinator][c].status = "dead" /\ ~up[c]) ~>
      (c \notin ring[Coordinator] \/ up[c])

\* What the comment on membership in runCoordinator says of every client: that
\* its fall is detected, so that no round waits for its update for ever.
CrashIsReported ==
  \A c \in Clients : (c \in joined /\ ~up[c]) ~> (c \in downs \/ up[c])
=============================================================================
