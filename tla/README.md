# Verification of the agent framework and its federated training

The repository is a Go actor framework (`src/actor-framework`), a federated
training of a house-price model written with it (`src/federated-learning`) and a
program that runs the training in one process or in several (`src/demo`). This
directory holds TLA+ modules of it, TLC configurations and TLAPS proofs.

## 1. Inventory

| Component | State | Operations | Talks to | What makes it correct |
|---|---|---|---|---|
| **Coordinator** `coordinator.go` | round, client list, peers, global model, `DoneCh` | StartFederatedLearning, ClientJoin, SetPeers, AggregationResult, MetricsReport, ClientDown, GetGlobalModel | clients, aggregator, monitor, cluster manager, main (`DoneCh`), membership (`Seed`) | rounds do not overlap; `DoneCh` is closed once; never a nil peer |
| **Aggregator** `aggregator.go` | updates of the round, expected number | LocalUpdate, RemoveClient | coordinator | a round is closed when, and only when, everybody expected has contributed; no update twice |
| **Monitor** `monitor.go` | model, validation data, log | SetGlobalModel, RoundComplete | coordinator | each round is measured once, on its own model |
| **Client** `client.go` | local data | StartRound, ClusterAssign | aggregator | every StartRound is answered |
| **Cluster manager** `clustermanager.go` | client list, feature means, clusters | RegisterClient, k-means | clients | k-means settles; everybody is with the nearest mean |
| **Processes** `main.go` | | spawn, registration with retries, Watch callback | all | training starts once everybody is there, ends, survives a client |
| **Membership** `cluster/gossip.go`, `cluster.go` | member list, lastSeen, ring, gossip channel, three loops | Seed, gossip, merge, failure detection, onChange | other nodes (gRPC), coordinator (Watch) | silence is noticed, a crash is reported, suspicion spreads and is not lost |
| **Actor runtime** `system.go`, `context.go` | cells by name, mailboxes, children, WaitGroup | Spawn, message loop, restart, stop, Tell, Ask, Shutdown | every actor | the registry holds the living; accepted messages are handled; Shutdown returns |
| **Supervision** `supervision/` | restart record per actor | Handle, Record, Reset, Delay | runtime | restarts are bounded in a window |
| **Mailboxes** `mailbox.go` | queue, closed | Enqueue, Close, Messages | runtime | nothing accepted is lost, no send on a closed channel |
| **Remote calls** `remote/`, `localActorRef.Ask`, `dispatch` | connections, type registry, reply function of an actor | Tell, Ask, Reply, Gossip, Encode, Decode | runtime, membership | one connection per address; an answer is for its own question; no Reply blocks an actor |
| **Hash ring** `hashring.go` | hashes, nodes | Add, Remove, Get | cluster | keys go to members, and move only with their node |
| **CRDTs** `crdt/` | a copy per replica | updates, Merge, marshalling | kept by coordinator, aggregator and monitor; merged by nobody yet | what is read depends only on the updates that have arrived |
| **Model, data, metrics** | weights, samples | FedAvg, training, partitioning, metrics | clients, monitor | averages weigh by samples; partitions cover the data |

Where it is hard: every actor, every gRPC call, every gossip loop and main are
goroutines of their own. In the distributed deployment `RemoteActorRef.Tell`
starts a goroutine per message, so messages overtake one another, and drops its
error, so they get lost. Clients retry their registration, crash and are started
again. The failure detector reports a dead member at *every* tick, from a
snapshot it writes back. Actors panic at any message, restart, force siblings to
restart, and are stopped, while others look them up by a name that may have been
reused. A question may be given up by its caller, by gRPC or by the server while
its handler still works at it, and handlers panic with a reply function set.
Every process shuffles the training data for itself. `PROJECT.json` lists these
hazards at their lines.

## 2. Modules

| Module | Models | Composes |
|---|---|---|
| `TrainingLoop` | abstract specification: rounds, each closed by one contribution of every client | |
| `FLActors` | every message handler of the five actors, mailboxes, local and remote sends; what of their state stands for `TrainingLoop`'s | `TrainingLoop` |
| `FLLocal` | `runLocal`: all actors in one process; refines `TrainingLoop` | `FLActors` |
| `FLRemote` | `runCoordinator` and `runClient`: registration, calls, crashes, death reports; follows `TrainingLoop` until the first fault | `FLActors` |
| `Membership` | gossip, merge, failure detection, ring, Seed, on all nodes | |
| `ActorSystem` | registry, spawn, message loop, supervision, stop, Shutdown | |
| `CRDT` | replicas of the four replicated types and their merges | |
| `Mailbox` | the three mailboxes, their `process` goroutines, senders and owner | |
| `RemoteCalls` | connection pool, type registry, Tell and Ask through client, server and actor | |
| `Supervision` | restart tracker on a clock, exponential backoff | |
| `HashRing` | Add, Remove and Get of the consistent hash ring | |
| `KMeans` | registration and clustering in the cluster manager | |
| `Shards` | which samples each client trains on, in one process and in several | |
| `Components` | the last six side by side, one behaviour of one of them | those six |
| `FLLocalProofs`, `FLRemoteProofs`, `MembershipProofs`, `CRDTProofs`, `ActorSystemProofs` | theorems | the module named |
| `FLRoundsProofs` | theorems on rounds without faults | `FLRemoteProofs` |
| `ComponentProofs` | theorems | `Components` and the six modules it composes |
| `Sums` | lemmas on induction and on sums over finite sets | used by `CRDTProofs`, `ComponentProofs` |
| `MC*` | instances for TLC | |

**FLActors.** `coord`, `agg`, `mon` and `registered` are the fields of the actor
structs; a mailbox is a sequence with the drop of a full `boundedMailbox`
(`Post`). There is one operator per message type of each `Receive`, and `Settle`,
`Report` and `BeginRound` are the code the handlers share. A model is the number
of times each update was averaged into it, so that "incomplete", "doubled" and
"mixed" averages can be told apart; weights and losses are left out and the
convergence test may come out either way. A handler that would panic ends its
actor, as an unsupervised actor ends. A remote send puts the message into the bag
`wire`, to be delivered in any order. Left out: `GetGlobalModel` (changes
nothing), `ActorFailed` (the coordinator has no children), and what k-means
computes (only printed; `KMeans` has it, and its panic on a client without samples:
clients here have samples).

**FLLocal** begins when main has told the coordinator to start: main's earlier
calls happen before it or, like the registrations, wait in a mailbox. **FLRemote**
adds main's `SetPeers`, the registration loop of every client with the late ack
of an attempt that timed out, calls that arrive, are lost or die with their
process, clients that crash, give up or are started again, and the Watch
callback. The membership is replaced by what it may report. A crashed client is
reported at every tick if the coordinator has `heard` of it, that is, has had a gossip
message from it before (`Hear`): `detectFailures` never judges anybody else
(`gossip.go:164`). A report is wrong (`ReportWrongly`) when its node runs, or
when the coordinator got it from others about a client it never heard of; it may be of
any node on the list, the coordinator's own included. `Membership`
shows why: in a cluster of three a node passed over by everybody's choice of
peers is held dead, nodes gossip about it, and nobody can refute it.

**Membership** has the three goroutines of each node. One action is what runs
under one lock: a Merge, a look at one member's `lastSeen`, one callback. A gossip has
three steps, with the list free to change in between: a peer is picked
from one snapshot of the list (`target`), the message is made of another (`letter`),
and the call returns. The detector's snapshot (`scan`) goes stale while Merge and Seed
change the list, and so does what it has `judged` before `ScanWrite` puts it there. Time is
counted in gossip intervals; `dueGossip` and `dueScan` are the tickers' channels,
which hold one tick.

**ActorSystem** interleaves threads that spawn, the goroutine of each actor,
senders, and the thread in Shutdown at every lock and channel operation. `at` is
where a goroutine is in `runActor`; a spawn has three steps, since the child is
listed with its parent, entered in the registry and counted by the WaitGroup one
after the other. A name may be used by several cells, at the same time or not.
Handlers are open: a fragile actor may panic at any message, and any cell may get
a message, be stopped or spawn children at any time. A panic while the mailbox is
drained after a stop ends the process, because that loop does not recover
(`system.go:280-282`), and so does a panic in a lifecycle hook (`HookPanics`). Two
pairs of critical sections are one step each, where nothing can happen between them
that would not have the same effect after or before: the lookup of the parent and
the append to its children (`SpawnList`: the list is only read through the
registry), and the lookup and the copy of the siblings (`CopySiblings`). A handler or hook
that never returns is left out: its actor never stops, and Shutdown waits for it. The tracker's record is the number of failures still in
the window; `WindowHolds` says whether all are or any number may have left it.
`Become` and `Unbecome` are not modelled: they choose which handler runs, and
handlers are open.

**CRDT.** An object's copies have the fields of all four types, and a behaviour
uses those of one. An update is one critical section. A merge is two, the snapshot
(`Send`, also `MarshalJSON`) and the merging (`Merge`, also `UnmarshalAndMerge`), between
which anything may happen; as nobody transports states yet, they may be lost,
repeated and reordered. `seen`, which the code does not have, are the updates that
have reached a copy; each remembers what its replica had seen. Clocks are any
readings. uuids are taken as unique, and counters stay below 2^64.

**Mailbox.** `kind` says which of the three `NewMailbox` has made. `in`, `out`,
`heap` and `signal` are their channels and heap, `proc` is the goroutine in
`process`, `sender` where a caller of `Enqueue` is: between the check and the send
of the unbounded mailbox its lock is free. `PutOut` and `Pop` are apart because
`process` sends without the lock. Nobody starts `process`, and `NewMailbox` is
only called with `Capacity: 100`, so in this program two of the kinds are dead
code; the model has them both without the goroutine and with it. `accepted`,
`delivered` and `passed` are what the properties compare. The heap may starve a message
that is not urgent (or one of several equals), so `AcceptedIsDelivered` promises it
delivery only if `process` is not given others to prefer for ever. `Len()` is left out: it
decides nothing, and is not lowered when a closed unbounded mailbox is emptied.

**RemoteCalls.** A call is a goroutine at the client (`call`), one of gRPC's at the
server (`serving`), which goes on when the client has given up, and a message at
the actor. `MakeConn` is the second look and the creation under the write lock.
The code's clocks are choices: the client's deadline (`GiveUp`) and the 30 s of
`RemoteServer.Ask` (`AskTimeout`) may pass at any time, and
`RemoteActorRef.Ask` ignores its timeout while `localActorRef.Ask` ignores its
context and the error of `Enqueue`, as here. `replyFn` and `prev` are what
`dispatch` sets, saves and puts back, or leaves as it is after a panic. A payload
is one of three: what `json.Marshal` refuses, what the receiver has not registered,
and all else. `Encode` would panic on nil (`registry.go:32`) and confuse types of one
name from two packages; the program sends, answers and registers neither.

**Supervision** has the clock that `ActorSystem` leaves out: `record` are the
tracker's timestamps, `wakes` the sleep of `runActor`, and `Delays` has both
results of a conversion to `Duration` out of range. `failures` is the history
against which both are judged.

**HashRing.** `point` is the hash function, any one, so virtual nodes may collide:
`Add` does nothing when the first virtual node's hash is taken, and `Remove` takes
points away whoever has put them there, as the code does. `members` are the nodes
added and not removed.

**KMeans** has one step per half of an iteration, with means of one dimension that
are exact fractions. An empty cluster's center is the zero vector, and ties go to
the first center. A client without samples registers a nil mean (`NoMean`), which counts
as zero in a sum and is at distance zero from every center, so it stays in the first
cluster; as a first center it has the others' `euclidean` take a component that is
not there, and the cluster manager ends (`ClusteringPanics`). **Shards**: `Part` is what `Partition` gives a client of one
order of the samples; in mode iid every call of it has an order of its own. With
fewer samples than clients all parts but the last are empty.

## 3. Runs

| Run | Question | Bounds and why they suffice |
|---|---|---|
| `fl_local` | Is the message exchange the training loop, and does it end? | 3 clients, 3 rounds: one update counted, one queued and one missing at once; a round before and one after a middle one. The mailbox holds 4: one more than any actor can be owed, so nothing is dropped in the code's 100 either. |
| `fl_remote` | Which averages can be formed under faults? | 2 clients, 2 rounds, 2 join attempts; each kind of fault once, in the combinations of `Scenarios` that can act on one another. Everybody is heard of at the start (`HeardFirst`), which enables reports and prevents nothing. |
| `fl_crash` | Does a crash block the survivors? | 3 clients, so that a survivor's late update can displace another's. Begins at the first round, with and without gossip from the client that may crash: only if there was some is it reported. |
| `membership` | What can be known of a member? | 3 nodes, so that lists travel through a third; intervals of 1 and 2 ticks keep the order of events. Begins when everybody has registered and heard of everybody, and lasts 2 ticks, in which members become suspected and dead; gossip channels hold one message, so that messages are dropped. Callbacks are made at once, and while a node is in the middle of a gossip or a scan only that node's loops and the clock go on (`OthersRest`); the clients are interchangeable (`SYMMETRY`). Seeds, crashes and restarts are in `membership_pair`. The theorems cover every other interleaving. |
| `membership_pair` | Is a crash reported, is nobody suspected wrongly? | Coordinator and client, the code's intervals of 3 and 6 ticks, a clock that never stops, one crash, restart and new join, versions up to 3. |
| `membership_comment` | Is the comment at `main.go:183` right? | as above. **Violated**, see findings. |
| `actor_lifecycle` | What do registry and mailboxes promise? | 3 cells of 2 names (a name used twice), every directive, mailboxes of 2, one restart. |
| `actor_shutdown` | Does Shutdown return? | 2 cells, both fragile, one supervised; a user message. |
| `one_for_all` | Do siblings restart each other for ever? | parent and 2 failing children, 2 restarts each. |
| `crdt` | Do merges yield what the types promise? | 3 replicas, so that an update may come by a third one; 2 elements, 3 updates (an add, a remove that saw it, an add it did not see), 2 states under way, so that an older one comes after a newer one; 2 clock readings, for ties. |
| `components` | What do mailboxes, calls, tracker, ring, k-means and partition promise? | Mailboxes: 2 senders, 4 messages of which one is urgent, channels of 1, so that each is full with senders waiting. Calls: 2 of them, 2 addresses (one refused), a mailbox of 1 and 2 replies: enough for a race for a connection, a late answer, a second reply and a reply function left over from the other question (the theorems cover more). Tracker: 3 restarts in 5 ticks, 6 ticks, so that failures leave the window one by one; delays up to the overflow of a small `Duration`. Ring: 3 nodes of 2 virtual nodes, every order of them on 6 points and every crowding on 2. K-means: 4 and 5 clients, 3 clusters, means 0 to 5 or none: empty clusters, ties and the panic on a client without samples occur; the 100 iterations of the code. Partition: 5 samples for 3 clients, so there is a remainder. |
| `partition_comment` | Is the comment at `main.go:235` right? | 5 samples, 3 clients. **Violated**, see findings. |

What they show, beyond types:

- In one process every average is of exactly one update of each client, the
  monitor measures it as the model of its round, no work is lost or doubled,
  `DoneCh` is closed once, the whole refines `TrainingLoop`, and training ends if
  there is a validation sample. Without one the monitor answers nothing
  (`monitor.go:42`) and main waits for ever.
- Over the network the same holds as long as no fault happens (`FaultFreeTraining`:
  until the first one every step is a step of `TrainingLoop` or none of its). With faults an
  average still never mixes rounds and counts a client twice only if it
  registered twice; the aggregator never rests on a complete list; a crash never
  blocks the survivors if the coordinator has had a gossip message from the client
  before (otherwise it does, finding 1). They average fewer updates: `expected` falls at each
  of the repeated reports of one dead client.
- A suspicion is never taken back by gossip; a silent member is always noticed; a
  crash is reported if the client was ever heard of; a dead member leaves the ring
  although a Seed races with the detector.
- The registry never leads to an actor that has ended, whatever is reused; an actor
  that shares its name with no other living one is always found; a stopped actor
  has handled whatever its mailbox accepted; Shutdown waits for nothing but actors
  it could not know of; one-for-all siblings restart a bounded number of times.
- What can be read of a counter, a set or an observed-remove set is a function of
  the updates that have arrived, so replicas that have seen the same agree. For the
  register this needs clocks that keep the writes in order: with equal timestamps each
  replica keeps its own value for ever, and a clock that is behind makes a write
  that its replica has made after seeing another lose against it.
- A mailbox delivers what it accepts, once and in order, whenever it is closed; the
  priority mailbox loses nothing, and passes an urgent message no oftener than its
  out channel and the hand of `process` have room. All of it arrives if somebody runs
  `process`, except that in the priority mailbox a message starves while others that do
  not rank below it keep coming. Racing calls make one connection. Nobody is given another one's answer and
  no Reply blocks an actor for ever, unless a handler replied twice or panicked.
  Forgetting old failures never changes a decision of the restart tracker. Keys are
  routed to members and move only with their node, if no hashes collide; with a
  collision a node may be silently left out. K-means, when it returns, has settled within
  its iterations.
  Partitions cover the data in one process, and across processes in the sorted mode.

**Fairness.** Goroutines run: weak fairness of each actor's loop, each gossip
loop and of a spawn under way. gRPC calls get through (`WF` of `Deliver`) unless
the fault budget loses them. Tickers tick; the death of a crashed client is reported
again and again if the coordinator has heard of it, and need not be otherwise. `ActorSystem` asks strong fairness of
taking the stop: a Go `select` chooses at random among its ready cases, so an
actor with messages and a closed `stopCh` takes the latter at some time. In `Mailbox`
`process`, where it has been started, and the owner's loop go on. Nothing
is assumed of user calls, crashes and faults.

## 4. Findings

1. `membership_comment`. The comment at `main.go:183` says that gossip finds out
   when a client falls. `detectFailures` skips members never heard of
   (`gossip.go:164`), so a client that falls after its registration and before its
   first gossip message stays alive in the list and its round waits for ever.
2. `partition_comment`. The comment at `main.go:235` says that a client loads the
   partition `runLocal` would assign to it. In the default mode `Partition` shuffles
   (`partition.go:19`) with a generator every process seeds for itself, so clients of
   several processes share samples and leave others out, and a restarted client trains
   on others than before.

Seen while modelling, with no document that says otherwise: a lost StartRound or
LocalUpdate is not sent again and blocks its round; `json.Marshal` refuses NaN, so
a diverging client is a lost update; an actor spawned during Shutdown, or hidden
by another of its name, makes Shutdown wait for ever; a panic in the drain or in a
lifecycle hook ends the process; a client without samples may end the cluster manager;
in the priority mailbox urgent messages that keep coming starve all others; a panic during an Ask leaves its reply function set, and the next
ordinary message's reply goes to the old asker; a second Reply to a question may
block its actor for ever; `Enqueue` of the unbounded mailbox panics when `Close`
comes between its check and its send; a backoff beyond the range of `Duration` may
turn into no backoff.

## 5. Proofs

`tlapm` checks these for every value of the constants that satisfies the named
assumptions (`ActorsAssumption`, `LocalAssumption`, `RemoteAssumption`,
`MembershipAssumption`, `CRDTAssumption`, `SystemAssumption`, `MailboxAssumption`,
`CallsAssumption`, `RingAssumption`, `SupervisionAssumption`, `ShardsAssumption`,
`KMeansAssumption`); TLC evaluates the assumptions of a module on every run of it.

- **FLLocalProofs.** None of the properties is inductive. `LoopInv` describes the
  loop by the stage the round is in (Starting, Training, Averaged, Reported,
  Measured, Over): all that is under way is either one piece of work per client,
  or one message, or pair of messages, between the other actors. During Training
  the lists in the aggregator and its mailbox name each client at most once; a
  list of distinct clients is as long as its set of clients, so the list is full
  exactly when it is complete. There is one lemma per handler. From
  `LoopInvariance`: `AveragesAreAlwaysComplete`, `WorkIsAlwaysConserved`, `TypeCorrect`.
  `LoopIsImplemented` is the refinement of
  `TrainingLoop`: `MappedIs` reads the abstract state off `LoopInv` (who has
  contributed is the aggregator's list while a round is trained, nobody before the
  first and everybody otherwise), and every step begins a round (`Advances`), counts
  an update, or only moves messages (`Moves`), which is a stutter. The abstract loop has
  no panic, so a second close of `DoneCh`, or a nil peer, is excluded with it.
  `TheLogNeverHasAGap` adds `LogInv`: the log holds the rounds up to the last one, or the
  one before while that is `Unmeasured`.
  Of the liveness property `TrainingEnds` the safety parts are theorems.
  `TrainingIsNeverStuck`: with validation samples, until `DoneCh` is closed an actor has a
  message at hand for which it has a handler (in Training, because somebody's update is
  missing in the list, and whoever's it is has it in a mailbox). `EveryStepIsNearerTheEnd`:
  the rounds left, then what is `Left` to do in this one, then the registrations, then the
  cluster assignments go down lexicographically with every step, so that no schedule,
  fair or not, runs for ever. `Left` gives each message a weight above that of all it
  brings about in the round (a StartRound 6, the update it becomes 5, an average 4, the
  two messages to the monitor 3 together, a report 1). What then makes `TrainingEnds` true
  is only that weak fairness lets some actor with a message go on.
- **FLRemoteProofs.** `NoAggregationIsMissed`: both handlers of the aggregator end in
  `Settle`, which leaves fewer updates than are expected; `expected` stays at least
  one. `AggregatorWaits` adds the types that needs, and the environment touches
  neither field. `RemoteTypeCorrect` and `AveragesAreOfOneRound` rest on `DataInv`: the
  rounds in messages, calls and updates are rounds that have begun (each set of what
  may be where is indexed by the last of them, and grows with it, `DataGrows`), and the
  aggregator's list holds updates of its own round, so that its average is of that
  round. `NoUpdateIsCountedTwice` adds `OnceInv`, as long as no join timed out and no
  client was restarted. Then a client is in the coordinator's list or its join is under
  way, and only once (`JoinOnce`), so that a round asks it once; its work of a round
  exists at most once, as a request on the wire or in its mailbox, or as an update
  on the wire, in the aggregator's mailbox or in its list (`WorkOnce`): a step moves it
  to the next place or loses it. A list that repeats no update has an average that
  counts nobody twice (`AveragesOnce`). The lemmas go by who steps.
  `RemoteAssumption` says that no client has the address of the coordinator or
  the aggregator.
- **FLRoundsProofs.** `FaultFreeRoundsAreComplete`, by `FaultFreeInv`: as long as nothing
  has failed, `RoundsInv` holds. As in `LoopInv` the round is in a stage (clients still
  join, Open, Averaged, Reported, Measured, Over), but what makes the stage up may be on
  the wire or in a mailbox: `WorkIs(k)` says that every client's work for round k exists
  exactly once, wherever it is, and work for no other round; `AssignsOnce` bounds the
  cluster assignments on their way, so that mailboxes have room (the assumption on
  `MailboxCap`) and nothing is dropped. When the list in the aggregator is full,
  nothing of the round is left anywhere else, so the next cannot overlap it. The two
  messages that close a round go by mailbox, in order. There is one lemma per action.
  `FaultFreeTrainingIsTheLoop` is the refinement of `TrainingLoop` for as long as nothing has
  failed: the step that is the first fault, and what follows it, are free. `AggRoundInv`
  adds to `RoundsInv` what the mapping reads: the aggregator's `round` is that of the
  coordinator or the one before, and the one before exactly while nothing of the
  round is in its list (so that "evaluating" is told from "training" by these two
  fields). Only the last join
  begins the first round; joins before it, calls and losses of what nobody counts are
  stutters. There is one lemma per actor, and one for the network.
- **MembershipProofs.** `TypeCorrect`; `AliveIsAlwaysVersionZero`, for lists and
  for messages on the way; with it `SuspicionIsForGood` (Merge takes higher
  versions only, and those are never alive), for which both also speak of the messages
  being composed and the entries judged but not yet written; and `SilenceIsAlwaysNoticed`, by
  `SilenceIsBeingNoticed` (a silent member is marked, or still to be looked at or to be
  written by the scan) and `Acquainted` (whoever was heard of has an entry, so the snapshot
  holds it). `PairIsNeverSuspected` has the hypotheses of run `membership_pair` (one
  client, a network that loses nothing, a tick's work done before the next tick), but
  any intervals of two ticks or more, any `gossipCh` and the Seed at any time. `PairInv`:
  whoever has sent once holds the other alive and so sends at every tick; an age above
  zero means that this tick's message is still to be sent (`Owes`: the tick waits, or a gossip is `Underway`, to the
  other, as its sender still holds it alive), or is the only one in the inbox. So ages stay at most one. With three nodes this breaks down, since a node
  gossips to one peer it picks, which is why the theorem is about a pair.
- **CRDTProofs.** `StepEffect` says what a step makes of the copies, the replicas' and
  those under way alike: at most one is new, a merge of two copies or an update of
  one. So each type needs an invariant of a copy that a merge and an update keep.
  `GSetCorrect`: the set is what was added. `RegisterCorrect`: the register holds one
  of its writes (`Held`), and the latest if they are in order (`Latest`). `ORSetCorrect`:
  its tags are those of the adds seen, and the removed ones those that a remove had
  seen; merging keeps this because numbers tell updates apart in all copies and no
  copy has an update without those it was issued after (`Histories`). `CounterCorrect`:
  of every replica a copy has seen the first updates, up to some number (`First`), so of two
  copies one has seen all that the other has of it, and the higher count is the sum of both
  (`MergedCounts`).
- **Sums.** What a fold over a finite set yields. Units are counted
  (`UnitCount`, a cardinality, which the library says adds up), and these counts
  satisfy the recursion of the fold (`SizesAreSums`), which has one solution
  (`TablesAgree`). Induction over numbers is a fact about sets of them (`InductNat`).
- **ActorSystemProofs.** Types, `LookupAlwaysFindsTheLiving`, `TheLivingAreAlwaysFound`,
  `AcceptedIsAlwaysHandled`,
  `RestartsAreAlwaysBounded`. `Fine` says what is true of one cell by itself (an open
  mailbox until the drain; a closed one is empty when its actor has left), and `Kept`
  what all steps but three have in common: names, parents and who is published stay.
  The three are the two halves of a spawn and the return, and they alone can disturb the
  registry's part: it leads to actors published and not ended, each under its
  own name, and to every such actor that shares its name with nobody. `Newborn` (cells
  not given out are unused) and `Parented` (a parent is no newborn) carry it
  over a spawn.
  `RestartsAreAlwaysBounded`: the starts of an actor, made or owed, are its first one and
  those in two accounts (`CountsIn`): its own restarts, which the tracker limits, and the
  pairs of a sibling and the number of that sibling's restart, of which it is told
  once, so that each sibling adds at most its limit. Most steps are calm, they
  make nobody owe a start; a restart, the copy of the siblings' list, a sibling told and
  a spawn have a lemma each. An attempt at this proof failed on the first statement: a
  family is not the children of one parent *cell*. `restartChildren` looks the parent
  up by name, and when that name has been given to a second actor after the first
  had ended, the siblings found are the second one's. So the property and `FamilyInv`
  go by the parent's name.
- **ComponentProofs**, each component by itself.
  *Mailbox:* `BoxTypeCorrect`, `MessagesAreDeliveredInOrder`. For the bounded and
  the unbounded kind the property is inductive once senders past their check belong
  to the unbounded one only (`Tidy`). For the priority kind `Held` counts, for every
  urgent message, by how many it was passed and how many others stand before it
  (`Ahead`): when it comes these fit into the out channel and the hand of `process`,
  a read moves one from the second number to the first, and a pop never puts another
  before it. Two theorems are the safety side of `AcceptedIsDelivered`; that the heap does
  not starve one message for others is no part of them. `NothingIsStranded`: with
  `process` started, while something accepted is not delivered, `process` or the owner has a
  step to take. This needs `Attended`: a goroutine that waits for the signal, while the
  heap is not empty, has a token to find, so a signal dropped because one was there loses
  nothing, and one that has ended found the mailbox closed and emptied it.
  `ServingComesToAnEnd`: every step of theirs lowers `Toil` (steps each message is away from
  its delivery, and the steps in which `process` waits, wakes or ends), which a sender raises
  by at most five for each message accepted; so `process` never spins, and the
  mailbox empties once nobody sends.
  *HashRing:* `RingTypeCorrect`, `KeysFindMembers`, `KeysOnlyMoveWithNodes`, for every
  hash function. `RingInv`: the ring and `sortedHashes` agree and hold only points of
  members, and all of them if no hashes collide. The search of `Get` ends at one place
  (`FirstIsUnique`), and hashes that come or go elsewhere do not move it (`FirstStays`).
  *Supervision:* `TrackerTypeCorrect`, `TrackerNeverForgetsTooMuch`,
  `BackoffAlwaysSpacesFailures`. The record is the youngest part of the failures since
  the last escalation, and what it lacks is too old (`Remembers`), which time only
  makes truer; so `Recorded` is as long as the window is full (`RecordedIs`). That
  powers are natural numbers (`PowType`) needs the recursive function to exist, which
  is shown from its finite tables.
  *Shards:* `ShardsTypeCorrect`, `PartsAlwaysCoverTheData`. All clients' parts are of one
  order of the samples (`ShardsInv`), and the parts of one order divide it, whatever the
  remainder (`PlacesAreDivided`).
  *KMeans:* `KMeansTypeCorrect`, `SettledIsNearest`. There is a first nearest center
  (`BestIsNearest`, by induction over the centers), as being nearer goes from one
  fraction to the next. `KMeansInv`: between an update and the next assignment the
  centers are the means of the clusters (nil means count as zero), so that to assign
  without a change is to have
  settled; in the first iteration it is to have left every client in the first cluster.
  Type correctness failed for `MaxIterations = 0`, which the constant of the code is not,
  and which `KMeansAssumption` now excludes.
  *RemoteCalls:* `CallsTypeCorrect`, `OneConnectionIsEnough`,
  `QuestionsAreAlwaysKeptApart`. The invariant says where a question is (not yet
  served, in one mailbox once, being handled at one actor, or handled), and whose
  reply function an actor holds: that of the question it handles, or one a panic
  left. So a channel that is filled is the own one of the question being
  handled, and has room for a first reply.

  *Together:* `ComponentsAreThemselves` shows that a behaviour of `Components`, which is
  what TLC runs, is one of each of the six, so their theorems hold of it;
  `ComponentsTypeCorrect` is the first of them.

Only model-checked: liveness (`TrainingEnds`, `TrainingSurvivesCrash`,
`HeardCrashIsReported`, `DeadLeavesRing`, `ShutdownWaitsForStraysOnly`,
`AcceptedIsDelivered`) and ENABLED, out of the prover's reach; of `TrainingEnds` all
but the use of fairness is proved (no state is stuck, and every step lowers a measure), and
of `AcceptedIsDelivered` the same for a mailbox to which nobody sends any more. `NearestToItsMean` is
proved for a k-means that stops within `MaxIterations` (`SettledIsNearest`); that it
does is true of the instance, and no argument shows it for all constants. Of `Others`,
the loop of `CoordClientDown`, an induction shows as much as the proofs need.

## 6. Not modelled

- Gradient descent, normalisation, metrics and FedAvg's weights: arithmetic on
  `float64`. The models keep which updates and samples go in, and let the
  convergence test come out either way.
- CSV and YAML loading, flags, printing and the prediction at the end: I/O.
- The generated gRPC code, and gRPC itself but for what a call may do: arrive, be
  lost, be overtaken, fail, or be given up.
- The stack of behaviours, `Len()` and the getters, which change no state that
  anything is decided by.
- 64-bit overflow of CRDT counters, equal uuids, and means of more than one
  dimension or with rounding in k-means.

## 7. What could follow

1. `Membership` as the environment of `FLRemote`'s death reports, instead of any report
   of a crashed and heard, or wrongly suspected, node: every report of the code is among
   these, but they may come in more orders than the code's.
2. Priority mailbox: a bound on the wait of a message that is not urgent, or of one among
   equals, under a limited rate of urgent ones; without a limit the heap gives none.
