---------------------------- MODULE FLLocalProofs ---------------------------
(***************************************************************************)
(* Proofs about FLLocal, for every number of clients and of rounds: the    *)
(* inductive invariant of the training loop, and from it the types, that   *)
(* every average is of exactly one update of every client, that no work is *)
(* lost or doubled, and that the loop of the actors is the abstract one,   *)
(* in which the coordinator never panics; that some actor can always go    *)
(* on until DoneCh is closed, and that every step is nearer to that.       *)
(*                                                                         *)
(* The invariant describes the loop by the stage the round is in: all that *)
(* is under way is either the work of the clients (Training) or a single   *)
(* message, or pair of messages, between the other actors.                 *)
(***************************************************************************)
EXTENDS FLLocal, SequenceTheorems, FiniteSetTheorems, TLAPS

-----------------------------------------------------------------------------
(* The invariant. *)

Updates == [client : Clients, round : Rounds]

\* lists of updates or of LocalUpdates: whose they are, and that no two are of
\* the same client
ClientsOf(s) == {s[i].client : i \in DOMAIN s}
Distinct(s) == \A i, j \in DOMAIN s : s[i].client = s[j].client => i = j
OfRound(s, r) == \A i \in DOMAIN s : s[i].round = r

\* a client's mailbox: without and with a StartRound that waits
IdleBoxes == {<<>>, <<ClusterAssign>>}
AskedBoxes(r) ==
  {<<StartRound(r)>>, <<ClusterAssign, StartRound(r)>>, <<StartRound(r), ClusterAssign>>}

\* no client has work to do or has done any that was not averaged
Quiet ==
  /\ aggBox = <<>> /\ agg.updates = <<>>
  /\ \A c \in Clients : clientBox[c] \in IdleBoxes

Starting ==
  /\ Quiet
  /\ \E roster \in Rosters : coordBox = <<StartFL(roster)>>
  /\ monBox = <<>> /\ ~doneCh
  /\ coord.round = 0 /\ agg.round = 0
  /\ coord.model = NoModel /\ mon.model = NoModel /\ mon.log = {}

\* a round is open: every client's work is in exactly one place
Training ==
  /\ coordBox = <<>> /\ monBox = <<>> /\ ~doneCh
  /\ aggBox \in Seq([type : {"LocalUpdate"}, client : Clients, round : Rounds])
  /\ Distinct(aggBox) /\ OfRound(aggBox, coord.round)
  /\ Distinct(agg.updates) /\ OfRound(agg.updates, coord.round)
  /\ agg.round = IF agg.updates = <<>> THEN coord.round - 1 ELSE coord.round
  /\ \A c \in Clients :
       \/ /\ clientBox[c] \in AskedBoxes(coord.round)
          /\ c \notin ClientsOf(aggBox) /\ c \notin ClientsOf(agg.updates)
       \/ /\ clientBox[c] \in IdleBoxes
          /\ c \in ClientsOf(aggBox) /\ c \notin ClientsOf(agg.updates)
       \/ /\ clientBox[c] \in IdleBoxes
          /\ c \notin ClientsOf(aggBox) /\ c \in ClientsOf(agg.updates)
  /\ ClientsOf(agg.updates) # Clients

\* the result is on its way to the coordinator
Averaged ==
  /\ Quiet /\ agg.round = coord.round /\ ~doneCh /\ monBox = <<>>
  /\ coordBox = <<AggregationResult(coord.round, OneOfEach(coord.round))>>

\* the monitor is to be given the model, then to measure it
Reported ==
  /\ Quiet /\ agg.round = coord.round /\ ~doneCh /\ coordBox = <<>>
  /\ coord.model = OneOfEach(coord.round)
  /\ \/ monBox = <<SetGlobalModel(coord.model), RoundComplete(coord.round)>>
     \/ monBox = <<RoundComplete(coord.round)>> /\ mon.model = coord.model

\* the metrics are on their way to the coordinator
Measured ==
  /\ Quiet /\ agg.round = coord.round /\ ~doneCh /\ monBox = <<>>
  /\ coord.model = OneOfEach(coord.round)
  /\ \E b \in BOOLEAN : coordBox = <<MetricsReport(coord.round, b)>>

\* training is over, or the monitor had nothing to measure with
Over ==
  /\ Quiet /\ agg.round = coord.round /\ coordBox = <<>> /\ monBox = <<>>
  /\ doneCh \/ (~mon.validation /\ coord.round > 0)
  /\ coord.round > 0 => coord.model = OneOfEach(coord.round)

Served ==
  coord.model \in {NoModel} \cup {OneOfEach(r) : r \in 1..coord.round}

CoordRecord == [up : {TRUE}, round : 0..TotalRounds, clients : Seq(Clients),
                peers : BOOLEAN, model : Models, seeded : {{}}]
Aggregators == [expected : {NumClients}, round : 0..TotalRounds, updates : Seq(Updates)]
Monitors == [validation : BOOLEAN, model : Models,
             log : SUBSET {[round |-> r, of |-> OneOfEach(r)] : r \in Rounds}]

\* the cluster manager hands its assignments out when nobody waits to register
Registering ==
  /\ registered \in Seq(Clients) /\ cmBox \in Seq(Clients)
  /\ Len(registered) + Len(cmBox) <= NumClients
  /\ cmBox # <<>> =>
       \A c \in Clients : clientBox[c] \in {<<>>, <<StartRound(coord.round)>>}

ClientBoxes == clientBox \in [Clients -> IdleBoxes \cup AskedBoxes(coord.round)]
HasClients == coord.round > 0 => coord.peers /\ coord.clients \in Rosters

Common ==
  /\ coord \in CoordRecord /\ doneCh \in BOOLEAN
  /\ agg \in Aggregators /\ mon \in Monitors /\ wire = EmptyBag
  /\ Registering /\ ClientBoxes /\ Served /\ HasClients

LoopInv ==
  /\ Common
  /\ \/ Starting
     \/ coord.round > 0 /\ (Training \/ Averaged \/ Reported \/ Measured)
     \/ Over

-----------------------------------------------------------------------------
(* Lists of updates. *)

\* The assumptions on the constants in the form the proofs use.
LEMMA Constants == 
  /\ IsFiniteSet(Clients) /\ NumClients \in Nat \ {0} /\ MailboxCap \in Nat
  /\ NumClients < MailboxCap /\ TotalRounds \in Nat
<1>1. IsFiniteSet(Clients) /\ Clients # {}
  BY ActorsAssumption
<1>2. Cardinality(Clients) \in Nat /\ Cardinality(Clients) # 0
  BY <1>1, FS_CardinalityType, FS_EmptySet
<1> QED BY <1>1, <1>2, ActorsAssumption DEF NumClients

\* a list that holds a client once is as long as the set of its clients
LEMMA DistinctLength ==
  ASSUME NEW S, NEW s \in Seq(S), Distinct(s)
  PROVE  IsFiniteSet(ClientsOf(s)) /\ Cardinality(ClientsOf(s)) = Len(s)
<1> DEFINE f == [i \in 1..Len(s) |-> s[i].client]
<1>1. Len(s) \in Nat /\ DOMAIN s = 1..Len(s)
  BY LenProperties
<1>2. f \in Bijection(1..Len(s), ClientsOf(s))
  BY <1>1 DEF Distinct, ClientsOf, Bijection, Injection, Surjection, IsInjective
<1>3. ExistsBijection(1..Len(s), ClientsOf(s))
  BY <1>2 DEF ExistsBijection
<1>4. IsFiniteSet(1..Len(s)) /\ Cardinality(1..Len(s)) = Len(s)
  BY <1>1, FS_Interval
<1> QED BY <1>3, <1>4, FS_Bijection

\* and no longer than there are clients, and as long only if it holds all
LEMMA ListLength ==
  ASSUME NEW S, NEW s \in Seq(S), \A u \in S : u.client \in Clients, Distinct(s)
  PROVE  /\ ClientsOf(s) \subseteq Clients /\ Len(s) \in Nat /\ Len(s) <= NumClients
         /\ Len(s) >= NumClients <=> ClientsOf(s) = Clients
<1>1. ASSUME NEW i \in DOMAIN s PROVE s[i].client \in Clients
  <2>1. s[i] \in S
    BY ElementOfSeq, LenProperties
  <2> QED BY <2>1
<1>2. ClientsOf(s) \subseteq Clients
  BY <1>1 DEF ClientsOf
<1>3. Cardinality(ClientsOf(s)) = Len(s) /\ Len(s) \in Nat
  BY DistinctLength, LenProperties
<1>4. /\ Cardinality(ClientsOf(s)) <= Cardinality(Clients)
      /\ Cardinality(ClientsOf(s)) = Cardinality(Clients) => ClientsOf(s) = Clients
  BY <1>2, Constants, FS_Subset
<1> QED BY <1>2, <1>3, <1>4, Constants DEF NumClients

\* An update of a client that has none in the list keeps the list distinct.
LEMMA AppendClient ==
  ASSUME NEW S, NEW s \in Seq(S), NEW u \in S, Distinct(s), u.client \notin ClientsOf(s)
  PROVE  /\ Distinct(Append(s, u))
         /\ ClientsOf(Append(s, u)) = ClientsOf(s) \cup {u.client}
<1> DEFINE t == Append(s, u)
<1>1. /\ DOMAIN s = 1..Len(s) /\ Len(s) \in Nat /\ DOMAIN t = 1..(Len(s) + 1)
      /\ \A i \in 1..Len(s) : t[i] = s[i]
      /\ t[Len(s) + 1] = u
  BY AppendProperties, LenProperties
<1> HIDE DEF t
<1>2. Distinct(t) /\ ClientsOf(t) = ClientsOf(s) \cup {u.client}
  BY <1>1 DEF Distinct, ClientsOf
<1> QED BY <1>2 DEF t

\* Taking the head of a distinct list takes its client out of it, and no other.
LEMMA TailClient ==
  ASSUME NEW S, NEW s \in Seq(S), Distinct(s), s # <<>>
  PROVE  /\ Distinct(Tail(s)) /\ Head(s).client \in ClientsOf(s)
         /\ ClientsOf(Tail(s)) = ClientsOf(s) \ {Head(s).client}
<1> DEFINE t == Tail(s)
<1>1. /\ DOMAIN s = 1..Len(s) /\ Len(s) \in Nat \ {0} /\ DOMAIN t = 1..(Len(s) - 1)
      /\ \A i \in 1..(Len(s) - 1) : t[i] = s[i + 1]
      /\ Head(s) = s[1]
  BY HeadTailProperties, LenProperties, EmptySeq
<1> HIDE DEF t
<1>2. Distinct(t)
  BY <1>1 DEF Distinct
<1>3. s[1].client \in ClientsOf(s)
  BY <1>1 DEF ClientsOf
<1>4. ASSUME NEW c \in ClientsOf(t) PROVE c \in ClientsOf(s) \ {s[1].client}
  <2>1. PICK i \in DOMAIN t : t[i].client = c
    BY <1>4 DEF ClientsOf
  <2>2. i + 1 \in DOMAIN s /\ 1 \in DOMAIN s /\ i + 1 # 1 /\ s[i + 1].client = c
    BY <1>1, <2>1
  <2> QED BY <2>2 DEF Distinct, ClientsOf
<1>5. ASSUME NEW c \in ClientsOf(s) \ {s[1].client} PROVE c \in ClientsOf(t)
  <2>1. PICK i \in DOMAIN s : s[i].client = c
    BY <1>5 DEF ClientsOf
  <2>2. i # 1
    BY <1>5, <2>1
  <2>3. i - 1 \in DOMAIN t /\ t[i - 1] = s[i]
    BY <1>1, <2>1, <2>2
  <2> QED BY <2>1, <2>3 DEF ClientsOf
<1>6. ClientsOf(t) = ClientsOf(s) \ {s[1].client}
  BY <1>4, <1>5
<1> QED BY <1>1, <1>2, <1>3, <1>6 DEF t

\* the average of one update of round r from every client
LEMMA CompleteAverage ==
  ASSUME NEW us \in Seq(Updates), NEW r \in Rounds,
         Distinct(us), OfRound(us, r), ClientsOf(us) = Clients
  PROVE  FedAvg(us) = OneOfEach(r)
<1>1. ASSUME NEW c \in Clients, NEW s \in Rounds
      PROVE  Cardinality({i \in DOMAIN us : us[i] = Update(c, s)}) = IF s = r THEN 1 ELSE 0
  <2> DEFINE I == {i \in DOMAIN us : us[i] = Update(c, s)}
  <2>1. CASE s = r
    <3>1. PICK i \in DOMAIN us : us[i].client = c
      BY DEF ClientsOf
    <3>2. us[i] \in Updates /\ us[i].round = s
      BY <2>1, <3>1, ElementOfSeq, LenProperties DEF OfRound
    <3> us[i] = Update(c, s)
      BY <3>1, <3>2 DEF Update, Updates
    <3>3. \A j \in DOMAIN us : us[j] = Update(c, s) => j = i
      BY <3>1 DEF Distinct, Update
    <3>4. I = {i}
      BY <3>3
    <3> QED BY <2>1, <3>4, FS_Singleton
  <2>2. CASE s # r
    <3>1. I = {}
      BY <2>2 DEF OfRound, Update
    <3> QED BY <2>2, <3>1, FS_EmptySet
  <2> QED BY <2>1, <2>2
<1>2. ASSUME NEW p \in Clients \X Rounds
      PROVE  Cardinality({i \in DOMAIN us : us[i] = Update(p[1], p[2])}) = IF p[2] = r THEN 1 ELSE 0
  <2>1. p[1] \in Clients /\ p[2] \in Rounds
    OBVIOUS
  <2> QED BY <1>1, <2>1
<1> QED BY <1>2 DEF FedAvg, OneOfEach

-----------------------------------------------------------------------------
(* Mailboxes, rosters and models. *)

\* nothing is dropped by a mailbox of at most one message
LEMMA PostShort ==
  ASSUME NEW m, NEW n
  PROVE  /\ Post(<<>>, m) = <<m>>
         /\ Post(<<n>>, m) = <<n, m>>
<1>1. MailboxCap \in Nat /\ 1 < MailboxCap
  BY Constants
<1>2. Len(<<>>) = 0 /\ Len(<<n>>) = 1
  OBVIOUS
<1>3. Append(<<>>, m) = <<m>>
  OBVIOUS
<1>4. Append(<<n>>, m) = <<n, m>>
  <2> DEFINE S == {m, n}
             s == Append(<<n>>, m)
             t == <<n, m>>
  <2>1. <<n>> \in Seq(S) /\ Len(<<n>>) = 1 /\ <<n>>[1] = n
    OBVIOUS
  <2>2. t \in Seq(S) /\ Len(t) = 2 /\ t[1] = n /\ t[2] = m
    OBVIOUS
  <2>3. s \in Seq(S) /\ Len(s) = 2 /\ s[1] = n /\ s[2] = m
    BY <2>1, AppendProperties
  <2> HIDE DEF s, t
  <2>4. \A i \in 1..Len(s) : s[i] = t[i]
    BY <2>2, <2>3
  <2>5. s = t
    BY <2>2, <2>3, <2>4, SeqEqual
  <2> QED BY <2>5 DEF s, t
<1> QED BY <1>1, <1>2, <1>3, <1>4 DEF Post

\* What main hands the coordinator: every client, each once.
LEMMA RosterFacts ==
  ASSUME NEW cs \in Rosters
  PROVE  cs \in Seq(Clients) /\ Len(cs) = NumClients /\ ToSet(cs) = Clients
<1>1. NumClients \in Nat
  BY Constants
<1>2. cs \in [1..NumClients -> Clients] /\ ToSet(cs) = Clients
  BY DEF Rosters
<1>3. cs \in Seq(Clients)
  BY <1>1, <1>2
<1> QED BY <1>1, <1>2, <1>3, LenProperties

\* Models are functions, and no average of a round is the missing model.
LEMMA ModelFacts ==
  ASSUME NEW r \in Rounds
  PROVE  /\ NoModel \in Models /\ OneOfEach(r) \in Models
         /\ OneOfEach(r) # NoModel
<1>1. NoModel \in Models /\ OneOfEach(r) \in Models
  BY DEF NoModel, OneOfEach, Models
<1>2. PICK c \in Clients : TRUE
  BY ActorsAssumption
<1> DEFINE p == <<c, r>>
<1>3. p \in Clients \X Rounds /\ p[2] = r
  BY <1>2
<1>4. OneOfEach(r)[p] = 1 /\ NoModel[p] = 0
  BY <1>3 DEF OneOfEach, NoModel
<1> QED BY <1>1, <1>4

\* a StartRound for every client, each of which has an idle mailbox
LEMMA StartRoundSent ==
  ASSUME NEW cs \in Rosters, NEW r \in Rounds,
         \A c \in Clients : clientBox[c] \in IdleBoxes,
         SendToClients(cs, StartRound(r))
  PROVE  /\ wire' = wire
         /\ clientBox' \in [Clients -> AskedBoxes(r)]
         /\ \A c \in Clients : clientBox[c] = <<>> => clientBox'[c] = <<StartRound(r)>>
<1>1. /\ clientBox' = [c \in Clients |-> IF c \in ToSet(cs)
                                          THEN Post(clientBox[c], StartRound(r))
                                          ELSE clientBox[c]]
      /\ wire' = wire
  BY LocalAssumption DEF SendToClients
<1>2. ASSUME NEW c \in Clients PROVE clientBox'[c] = Post(clientBox[c], StartRound(r))
  BY <1>1, RosterFacts
<1>3. ASSUME NEW c \in Clients
      PROVE  /\ clientBox'[c] \in AskedBoxes(r)
             /\ clientBox[c] = <<>> => clientBox'[c] = <<StartRound(r)>>
  BY <1>2, PostShort DEF IdleBoxes, AskedBoxes
<1> QED BY <1>1, <1>3

-----------------------------------------------------------------------------
(* The invariant holds initially. *)

\* main's message to the coordinator is the stage Starting.
LEMMA InitLoopInv == Init => LoopInv
<1> SUFFICES ASSUME Init PROVE LoopInv
  OBVIOUS
<1> USE DEF Init
<1>1. PICK roster \in Rosters : coordBox = <<StartFL(roster)>> /\ cmBox = IF Clustering THEN roster ELSE <<>>
  OBVIOUS
<1>2. NoModel \in Models
  BY DEF NoModel, Models
<1>3. NumClients \in Nat /\ TotalRounds \in Nat
  BY Constants
<1>4. \A c \in Clients : clientBox[c] = <<>>
  OBVIOUS
<1>5. Starting
  BY <1>1, <1>4 DEF Starting, Quiet, IdleBoxes
<1>6. cmBox \in Seq(Clients) /\ Len(cmBox) <= NumClients /\ registered \in Seq(Clients) /\ Len(registered) = 0
  BY <1>1, <1>3, RosterFacts
<1>7. ClientBoxes
  BY <1>4 DEF ClientBoxes, IdleBoxes
<1>8. coord \in CoordRecord /\ doneCh \in BOOLEAN
  <2>1. /\ coord = [up |-> TRUE, round |-> 0, clients |-> <<>>, peers |-> FALSE,
                    model |-> NoModel, seeded |-> {}]
        /\ doneCh = FALSE
    OBVIOUS
  <2>2. <<>> \in Seq(Clients) /\ 0 \in 0..TotalRounds
    BY <1>3
  <2> HIDE DEF Init
  <2> QED BY <1>2, <2>1, <2>2 DEF CoordRecord
<1>13. wire = EmptyBag
  OBVIOUS
<1>9. agg \in Aggregators
  BY <1>3 DEF Aggregators
<1>10. mon \in Monitors
  BY <1>2 DEF Monitors
<1>11. Registering /\ Served /\ HasClients
  BY <1>3, <1>4, <1>6 DEF Registering, Served, HasClients
<1>12. Common
  BY <1>7, <1>8, <1>13, <1>9, <1>10, <1>11 DEF Common
<1> QED BY <1>5, <1>12 DEF LoopInv

-----------------------------------------------------------------------------
(* The steps of the coordinator. *)

\* startRound between two rounds, on the coordinator's fields as c has them:
\* the work of the next round is handed out, or training is over.
LEMMA BeginRoundStep ==
  ASSUME Common, Quiet, agg.round = coord.round, ~doneCh, monBox = <<>>,
         coordBox' = <<>>, UNCHANGED <<agg, mon, registered, aggBox, monBox, cmBox>>,
         coord.round > 0 => coord.model = OneOfEach(coord.round),
         NEW c \in CoordRecord, c.round = coord.round, c.model = coord.model,
         c.peers, c.clients \in Rosters, BeginRound(c)
  PROVE  LoopInv'
<1>1. coord.round \in 0..TotalRounds /\ TotalRounds \in Nat
  BY Constants DEF Common, CoordRecord
<1>2. CASE RoundsLeft(c)
  <2> DEFINE r == c.round + 1
  <2>1. r \in Rounds /\ r # 0
    BY <1>1, <1>2 DEF RoundsLeft, Rounds
  <2>2. /\ coord' = [c EXCEPT !.round = r] /\ UNCHANGED doneCh
        /\ SendToClients(c.clients, StartRound(r))
    BY <1>2 DEF BeginRound
  <2>3. /\ coord' \in CoordRecord /\ coord'.round = r /\ coord'.model = coord.model
        /\ coord'.peers /\ coord'.clients \in Rosters
    <3>1. r \in 0..TotalRounds
      BY <2>1 DEF Rounds
    <3> HIDE DEF r
    <3> QED BY <2>2, <3>1 DEF CoordRecord
  <2>4. /\ wire' = wire
        /\ clientBox' \in [Clients -> AskedBoxes(r)]
        /\ \A d \in Clients : clientBox[d] = <<>> => clientBox'[d] = <<StartRound(r)>>
    BY <2>1, <2>2, StartRoundSent DEF Quiet
  <2>5. Registering'
    <3>1. Registering
      BY DEF Common
    <3>2. ASSUME cmBox # <<>>, NEW d \in Clients PROVE clientBox'[d] = <<StartRound(coord'.round)>>
      <4>1. clientBox[d] \in {<<>>, <<StartRound(coord.round)>>} /\ clientBox[d] \in {<<>>, <<ClusterAssign>>}
        BY <3>1, <3>2 DEF Registering, Quiet, IdleBoxes
      <4>2. StartRound(coord.round) # ClusterAssign
        BY DEF StartRound, ClusterAssign
      <4>3. clientBox[d] = <<>>
        BY <4>1, <4>2
      <4> QED BY <2>3, <2>4, <4>3
    <3> QED BY <3>1, <3>2 DEF Registering
  <2>6. Served' /\ HasClients'
    BY <1>1, <2>3 DEF Common, Served, HasClients
  <2>7. Common'
    <3>1. ClientBoxes'
      BY <2>3, <2>4 DEF ClientBoxes
    <3> QED BY <2>2, <2>3, <2>4, <2>5, <2>6, <3>1 DEF Common
  <2>8. Training'
    <3>1. aggBox' = <<>> /\ agg'.updates = <<>> /\ agg'.round = coord.round
      BY DEF Quiet
    <3>2. ClientsOf(<<>>) = {} /\ ClientsOf(<<>>) # Clients
      BY ActorsAssumption DEF ClientsOf
    <3>3. Distinct(<<>>) /\ OfRound(<<>>, r)
      BY DEF Distinct, OfRound
    <3>4. agg'.round = coord'.round - 1
      BY <1>1, <2>3, <3>1
    <3>5. \A d \in Clients : clientBox'[d] \in AskedBoxes(coord'.round)
      BY <2>3, <2>4
    <3>6. aggBox' \in Seq([type : {"LocalUpdate"}, client : Clients, round : Rounds])
      BY <3>1
    <3>7. coordBox' = <<>> /\ monBox' = <<>> /\ ~doneCh'
      BY <2>2
    <3>8. \A d \in Clients : d \notin ClientsOf(aggBox') /\ d \notin ClientsOf(agg'.updates)
      BY <3>1, <3>2
    <3>9. /\ Distinct(aggBox') /\ OfRound(aggBox', coord'.round)
          /\ Distinct(agg'.updates) /\ OfRound(agg'.updates, coord'.round)
          /\ ClientsOf(agg'.updates) # Clients
      BY <2>3, <3>1, <3>2, <3>3
    <3> QED BY <3>1, <3>4, <3>5, <3>6, <3>7, <3>8, <3>9 DEF Training
  <2> QED BY <2>1, <2>3, <2>7, <2>8 DEF LoopInv, Rounds
<1>3. CASE ~RoundsLeft(c)
  <2>1. coord' = [c EXCEPT !.up = TRUE] /\ doneCh' = TRUE /\ UNCHANGED <<clientBox, wire>>
    BY <1>3 DEF BeginRound, CloseDone
  <2>2. /\ coord' \in CoordRecord /\ coord'.round = coord.round /\ coord'.model = coord.model
        /\ coord'.peers /\ coord'.clients \in Rosters
    BY <2>1 DEF CoordRecord
  <2>3. Common'
    BY <2>1, <2>2 DEF Common, Registering, ClientBoxes, Served, HasClients
  <2>4. Over'
    BY <2>1, <2>2 DEF Over, Quiet, IdleBoxes
  <2> QED BY <2>3, <2>4 DEF LoopInv
<1> QED BY <1>2, <1>3

\* The coordinator's handler of StartFederatedLearning begins the first round.
LEMMA CoordStartFLStep == LoopInv /\ CoordStartFL => LoopInv'
<1> SUFFICES ASSUME LoopInv, CoordStartFL PROVE LoopInv'
  OBVIOUS
<1>1. coordBox # <<>> /\ Head(coordBox).type = "StartFederatedLearning"
  BY DEF CoordStartFL, CoordTakes
<1>2. Starting
  BY <1>1 DEF LoopInv, Training, Averaged, Reported, Measured, Over, AggregationResult, MetricsReport
<1>3. PICK roster \in Rosters : coordBox = <<StartFL(roster)>>
  BY <1>2 DEF Starting
<1>4. Head(coordBox).clients = roster /\ Tail(coordBox) = <<>>
  BY <1>3 DEF StartFL
<1> DEFINE c == [coord EXCEPT !.clients = roster, !.peers = TRUE]
<1>5. coord \in CoordRecord /\ roster \in Seq(Clients)
  BY RosterFacts DEF LoopInv, Common, CoordRecord
<1>6. /\ c \in CoordRecord /\ c.round = coord.round /\ c.model = coord.model /\ c.peers
      /\ c.clients \in Rosters
  BY <1>5 DEF CoordRecord
<1>7. /\ coordBox' = <<>> /\ BeginRound(c)
      /\ UNCHANGED <<agg, mon, registered, aggBox, monBox, cmBox>>
  BY <1>4 DEF CoordStartFL
<1>8. Common /\ Quiet /\ agg.round = coord.round /\ ~doneCh /\ monBox = <<>> /\ coord.round = 0
  BY <1>2 DEF LoopInv, Starting
<1> HIDE DEF c
<1> QED BY <1>6, <1>7, <1>8, BeginRoundStep

\* From the first round on the coordinator knows its peers and all its clients.
LEMMA OpenRound ==
  ASSUME LoopInv, coord.round > 0
  PROVE  /\ Common /\ coord \in CoordRecord /\ coord.peers /\ coord.clients \in Rosters
         /\ coord.round \in Rounds
<1>1. Common /\ coord \in CoordRecord /\ coord.peers /\ coord.clients \in Rosters
  BY DEF LoopInv, Common, HasClients
<1>2. coord.round \in 0..TotalRounds
  BY <1>1 DEF CoordRecord
<1> QED BY <1>1, <1>2, Constants DEF Rounds

\* Its handler of AggregationResult takes the loop from Averaged to Reported.
LEMMA CoordAggregationResultStep == LoopInv /\ CoordAggregationResult => LoopInv'
<1> SUFFICES ASSUME LoopInv, CoordAggregationResult PROVE LoopInv'
  OBVIOUS
<1>1. coordBox # <<>> /\ Head(coordBox).type = "AggregationResult"
  BY DEF CoordAggregationResult, CoordTakes
<1>2. coord.round > 0 /\ Averaged
  BY <1>1 DEF LoopInv, Starting, Training, Reported, Measured, Over, StartFL, MetricsReport
<1>3. Common /\ coord \in CoordRecord /\ coord.peers /\ coord.round \in Rounds
  BY <1>2, OpenRound
<1> DEFINE model == OneOfEach(coord.round)
<1>4. Head(coordBox).model = model /\ Head(coordBox).round = coord.round /\ Tail(coordBox) = <<>>
  BY <1>2 DEF Averaged, AggregationResult
<1>5. model \in Models
  BY <1>3, ModelFacts
<1> HIDE DEF model
<1>6. /\ coord' = [coord EXCEPT !.model = model, !.up = coord.peers] /\ coordBox' = <<>>
      /\ monBox' = Report(Head(coordBox))
      /\ UNCHANGED <<doneCh, agg, mon, registered, aggBox, cmBox, clientBox, wire>>
  BY <1>3, <1>4 DEF CoordAggregationResult
<1>7. /\ coord' \in CoordRecord /\ coord'.model = model /\ coord'.round = coord.round
      /\ coord'.peers /\ coord'.clients = coord.clients
  BY <1>3, <1>5, <1>6 DEF CoordRecord
<1>8. monBox' = <<SetGlobalModel(model), RoundComplete(coord.round)>>
  BY <1>2, <1>4, <1>6, PostShort DEF Averaged, Report
<1>9. Common'
  <2>1. Served'
    BY <1>3, <1>7 DEF Served, model, Rounds
  <2>2. HasClients' /\ ClientBoxes' /\ Registering'
    BY <1>3, <1>6, <1>7 DEF Common, HasClients, ClientBoxes, Registering
  <2> QED BY <1>3, <1>6, <1>7, <2>1, <2>2 DEF Common
<1>10. Reported'
  BY <1>2, <1>6, <1>7, <1>8 DEF Averaged, Reported, Quiet, IdleBoxes, model
<1> QED BY <1>2, <1>7, <1>9, <1>10 DEF LoopInv

\* Its handler of MetricsReport begins the next round or ends the training.
LEMMA CoordMetricsReportStep == LoopInv /\ CoordMetricsReport => LoopInv'
<1> SUFFICES ASSUME LoopInv, CoordMetricsReport PROVE LoopInv'
  OBVIOUS
<1>1. coordBox # <<>> /\ Head(coordBox).type = "MetricsReport"
  BY DEF CoordMetricsReport, CoordTakes
<1>2. coord.round > 0 /\ Measured
  BY <1>1 DEF LoopInv, Starting, Training, Averaged, Reported, Over, StartFL, AggregationResult
<1>3. Common /\ coord \in CoordRecord /\ coord.peers /\ coord.clients \in Rosters
  BY <1>2, OpenRound
<1>4. /\ coordBox' = <<>> /\ UNCHANGED <<agg, mon, registered, aggBox, monBox, cmBox>>
      /\ Quiet /\ agg.round = coord.round /\ ~doneCh /\ monBox = <<>>
      /\ coord.model = OneOfEach(coord.round)
  BY <1>2 DEF Measured, CoordMetricsReport
<1>5. CASE BeginRound(coord)
  BY <1>3, <1>4, <1>5, BeginRoundStep
<1>6. CASE CloseDone(coord) /\ UNCHANGED <<clientBox, wire>>
  <2>1. doneCh' = TRUE /\ coord' = [coord EXCEPT !.up = TRUE]
    BY <1>4, <1>6 DEF CloseDone
  <2>2. /\ coord' \in CoordRecord /\ coord'.round = coord.round /\ coord'.model = coord.model
        /\ coord'.peers /\ coord'.clients = coord.clients
    BY <1>3, <2>1 DEF CoordRecord
  <2>3. Common'
    BY <1>3, <1>4, <1>6, <2>1, <2>2 DEF Common, Registering, ClientBoxes, Served, HasClients
  <2>4. Over'
    BY <1>4, <1>6, <2>1, <2>2 DEF Over, Quiet, IdleBoxes
  <2> QED BY <2>3, <2>4 DEF LoopInv
<1> QED BY <1>5, <1>6 DEF CoordMetricsReport

\* nobody joins and nobody is reported down in one process
LEMMA NoOtherCoordStep ==
  LoopInv => ~CoordSetPeers /\ ~CoordClientJoin /\ ~CoordClientDown /\ ~AggRemoveClient
<1> SUFFICES ASSUME LoopInv
             PROVE  /\ coordBox = <<>> \/ Head(coordBox).type \in
                         {"StartFederatedLearning", "AggregationResult", "MetricsReport"}
                    /\ aggBox = <<>> \/ Head(aggBox).type = "LocalUpdate"
  BY DEF CoordSetPeers, CoordClientJoin, CoordClientDown, CoordTakes, AggRemoveClient, AggTakes
<1> DEFINE L == [type : {"LocalUpdate"}, client : Clients, round : Rounds]
<1>1. aggBox = <<>> \/ aggBox \in Seq(L)
  BY DEF LoopInv, Starting, Training, Averaged, Reported, Measured, Over, Quiet
<1>2. aggBox = <<>> \/ Head(aggBox).type = "LocalUpdate"
  <2>1. \A m \in L : m.type = "LocalUpdate"
    OBVIOUS
  <2> HIDE DEF L
  <2>2. aggBox # <<>> => Head(aggBox) \in L
    BY <1>1, HeadTailProperties
  <2> QED BY <2>1, <2>2
<1>3. coordBox = <<>> \/ Head(coordBox).type \in
        {"StartFederatedLearning", "AggregationResult", "MetricsReport"}
  BY DEF LoopInv, Starting, Training, Averaged, Reported, Measured, Over,
         StartFL, AggregationResult, MetricsReport
<1> QED BY <1>2, <1>3

-----------------------------------------------------------------------------
(* The steps of the monitor. *)

\* The monitor takes the model it will measure.
LEMMA MonSetGlobalModelStep == LoopInv /\ MonSetGlobalModel => LoopInv'
<1> SUFFICES ASSUME LoopInv, MonSetGlobalModel PROVE LoopInv'
  OBVIOUS
<1>1. monBox # <<>> /\ Head(monBox).type = "SetGlobalModel"
  BY DEF MonSetGlobalModel, MonTakes
<1>2. coord.round > 0 /\ Reported
  BY <1>1 DEF LoopInv, Starting, Training, Averaged, Measured, Over
<1>3. monBox = <<SetGlobalModel(coord.model), RoundComplete(coord.round)>>
  BY <1>1, <1>2 DEF Reported, RoundComplete
<1>4. Head(monBox).model = coord.model /\ Tail(monBox) = <<RoundComplete(coord.round)>>
  BY <1>3 DEF SetGlobalModel
<1>5. /\ mon' = [mon EXCEPT !.model = coord.model] /\ monBox' = <<RoundComplete(coord.round)>>
      /\ UNCHANGED <<coord, doneCh, agg, registered, coordBox, aggBox, cmBox, clientBox, wire>>
  BY <1>4 DEF MonSetGlobalModel
<1>6. Common /\ mon \in Monitors /\ coord.model \in Models
  BY DEF LoopInv, Common, CoordRecord
<1>7. mon' \in Monitors /\ mon'.model = coord.model
  BY <1>5, <1>6 DEF Monitors
<1>8. Common'
  BY <1>5, <1>6, <1>7 DEF Common, Registering, ClientBoxes, Served, HasClients
<1>9. Reported'
  BY <1>2, <1>5, <1>7 DEF Reported, Quiet, IdleBoxes
<1> QED BY <1>2, <1>5, <1>8, <1>9 DEF LoopInv

\* The monitor measures, or stays silent without a validation sample.
LEMMA MonRoundCompleteStep == LoopInv /\ MonRoundComplete => LoopInv'
<1> SUFFICES ASSUME LoopInv, MonRoundComplete PROVE LoopInv'
  OBVIOUS
<1>1. monBox # <<>> /\ Head(monBox).type = "RoundComplete"
  BY DEF MonRoundComplete, MonTakes
<1>2. coord.round > 0 /\ Reported
  BY <1>1 DEF LoopInv, Starting, Training, Averaged, Measured, Over
<1>3. monBox = <<RoundComplete(coord.round)>> /\ mon.model = coord.model
  BY <1>1, <1>2 DEF Reported, SetGlobalModel
<1>4. Head(monBox).round = coord.round /\ Tail(monBox) = <<>>
  BY <1>3 DEF RoundComplete
<1>5. Common /\ mon \in Monitors /\ coord.round \in Rounds
  BY <1>2, OpenRound DEF Common
<1>6. mon.model = OneOfEach(coord.round) /\ mon.model # NoModel
  BY <1>2, <1>3, <1>5, ModelFacts DEF Reported
<1>7. /\ monBox' = <<>>
      /\ UNCHANGED <<coord, doneCh, agg, registered, aggBox, cmBox, clientBox, wire>>
  BY <1>4 DEF MonRoundComplete
<1>8. ASSUME mon' \in Monitors PROVE Common'
  BY <1>5, <1>7, <1>8 DEF Common, Registering, ClientBoxes, Served, HasClients
<1>9. CASE mon.validation
  <2>1. PICK b \in BOOLEAN : coordBox' = Post(coordBox, MetricsReport(coord.round, b))
    BY <1>4, <1>6, <1>9 DEF MonRoundComplete
  <2>2. coordBox' = <<MetricsReport(coord.round, b)>>
    BY <1>2, <2>1, PostShort DEF Reported
  <2> DEFINE e == [round |-> coord.round, of |-> mon.model]
  <2>3. mon' = [mon EXCEPT !.log = @ \cup {e}]
    BY <1>4, <1>6, <1>9 DEF MonRoundComplete
  <2>4. e \in {[round |-> r, of |-> OneOfEach(r)] : r \in Rounds}
    BY <1>5, <1>6
  <2> HIDE DEF e
  <2>5. mon' \in Monitors
    BY <1>5, <2>3, <2>4 DEF Monitors
  <2>6. Measured'
    BY <1>2, <1>7, <2>2 DEF Reported, Measured, Quiet, IdleBoxes
  <2> QED BY <1>2, <1>7, <1>8, <2>5, <2>6 DEF LoopInv
<1>10. CASE ~mon.validation
  <2>1. mon' = mon /\ coordBox' = coordBox
    BY <1>6, <1>10 DEF MonRoundComplete
  <2>2. Over'
    BY <1>2, <1>7, <1>10, <2>1 DEF Reported, Over, Quiet, IdleBoxes
  <2> QED BY <1>5, <1>8, <2>1, <2>2 DEF LoopInv
<1> QED BY <1>9, <1>10

-----------------------------------------------------------------------------
(* The steps of the clients and of the aggregator. *)

LocalUpdates == [type : {"LocalUpdate"}, client : Clients, round : Rounds]

\* the mailbox of a client: what its head can be and what taking it leaves
LEMMA TakeFromBox ==
  ASSUME NEW r, NEW box \in IdleBoxes \cup AskedBoxes(r), box # <<>>
  PROVE  \/ /\ Head(box).type = "ClusterAssign"
            /\ box \in IdleBoxes => Tail(box) = <<>>
            /\ box \in AskedBoxes(r) => Tail(box) = <<StartRound(r)>>
         \/ /\ Head(box) = StartRound(r) /\ box \in AskedBoxes(r)
            /\ Tail(box) \in IdleBoxes
<1>1. ClusterAssign.type = "ClusterAssign" /\ StartRound(r).type = "StartRound"
  BY DEF ClusterAssign, StartRound
<1>2. CASE box = <<ClusterAssign>>
  BY <1>1, <1>2 DEF AskedBoxes
<1>3. CASE box = <<StartRound(r)>>
  BY <1>1, <1>3 DEF AskedBoxes, IdleBoxes
<1>4. CASE box = <<ClusterAssign, StartRound(r)>>
  BY <1>1, <1>4 DEF AskedBoxes, IdleBoxes
<1>5. CASE box = <<StartRound(r), ClusterAssign>>
  BY <1>1, <1>5 DEF AskedBoxes, IdleBoxes
<1> QED BY <1>2, <1>3, <1>4, <1>5 DEF IdleBoxes, AskedBoxes

\* An idle mailbox holds no StartRound.
LEMMA IdleIsNotAsked ==
  ASSUME NEW r PROVE IdleBoxes \cap AskedBoxes(r) = {}
<1>1. StartRound(r) # ClusterAssign
  BY DEF StartRound, ClusterAssign
<1>2. ASSUME NEW a PROVE <<>> # <<a>> 
  OBVIOUS
<1>3. ASSUME NEW a, NEW b PROVE <<>> # <<a, b>> /\ <<ClusterAssign>> # <<a, b>>
  OBVIOUS
<1> QED BY <1>1, <1>2, <1>3 DEF IdleBoxes, AskedBoxes

\* a client asked to train is the only place of its work
LEMMA ClientStartRoundStep ==
  ASSUME LoopInv, NEW c \in Clients, ClientStartRound(c)
  PROVE  LoopInv'
<1> DEFINE r == coord.round
           u == LocalUpdate(c, r)
<1>1. clientBox[c] # <<>> /\ Head(clientBox[c]).type = "StartRound"
  BY DEF ClientStartRound, ClientTakes
<1>2. Common /\ clientBox[c] \in IdleBoxes \cup AskedBoxes(r)
  BY DEF LoopInv, Common, ClientBoxes
<1>3. /\ Head(clientBox[c]) = StartRound(r) /\ clientBox[c] \in AskedBoxes(r)
      /\ Tail(clientBox[c]) \in IdleBoxes
  BY <1>1, <1>2, TakeFromBox DEF StartRound
<1>4. clientBox[c] \notin IdleBoxes
  BY <1>3, IdleIsNotAsked
<1>5. r > 0 /\ Training
  BY <1>4 DEF LoopInv, Starting, Averaged, Reported, Measured, Over, Quiet
<1>6. r \in Rounds
  BY <1>5, OpenRound
<1>7. /\ aggBox \in Seq(LocalUpdates) /\ Distinct(aggBox) /\ OfRound(aggBox, r)
      /\ c \notin ClientsOf(aggBox) /\ c \notin ClientsOf(agg.updates)
  BY <1>4, <1>5 DEF Training, LocalUpdates
<1>8. u \in LocalUpdates /\ u.client = c /\ u.round = r
  BY <1>6 DEF LocalUpdate, LocalUpdates
<1>9. /\ clientBox' = [clientBox EXCEPT ![c] = Tail(@)] /\ aggBox' = Post(aggBox, u)
      /\ UNCHANGED <<coord, doneCh, agg, mon, registered, coordBox, monBox, cmBox, wire>>
  BY <1>3, LocalAssumption DEF ClientStartRound, StartRound
<1> HIDE DEF u
<1>10. Len(aggBox) < MailboxCap
  <2>1. \A v \in LocalUpdates : v.client \in Clients
    BY DEF LocalUpdates
  <2>2. Len(aggBox) \in Nat /\ Len(aggBox) <= NumClients
    BY <1>7, <2>1, ListLength
  <2> QED BY <2>2, Constants
<1>11. aggBox' = Append(aggBox, u)
  BY <1>9, <1>10 DEF Post
<1>12. /\ Distinct(aggBox') /\ ClientsOf(aggBox') = ClientsOf(aggBox) \cup {c}
       /\ aggBox' \in Seq(LocalUpdates)
  BY <1>7, <1>8, <1>11, AppendClient, AppendProperties
<1>13. OfRound(aggBox', r)
  BY <1>7, <1>8, <1>11, AppendProperties, LenProperties DEF OfRound
<1>14. /\ clientBox'[c] \in IdleBoxes
       /\ \A d \in Clients \ {c} : clientBox'[d] = clientBox[d]
  BY <1>2, <1>3, <1>9 DEF Common, ClientBoxes
<1>15. Training'
  <2>1. ASSUME NEW d \in Clients
        PROVE  \/ /\ clientBox'[d] \in AskedBoxes(r)
                  /\ d \notin ClientsOf(aggBox') /\ d \notin ClientsOf(agg.updates)
               \/ /\ clientBox'[d] \in IdleBoxes
                  /\ d \in ClientsOf(aggBox') /\ d \notin ClientsOf(agg.updates)
               \/ /\ clientBox'[d] \in IdleBoxes
                  /\ d \notin ClientsOf(aggBox') /\ d \in ClientsOf(agg.updates)
    BY <1>5, <1>7, <1>12, <1>14 DEF Training
  <2> QED BY <1>5, <1>9, <1>12, <1>13, <2>1 DEF Training, LocalUpdates
<1>16. Common'
  <2>1. ClientBoxes'
    BY <1>2, <1>9, <1>14 DEF Common, ClientBoxes
  <2>2. Registering'
    <3>1. cmBox # <<>> => clientBox[c] = <<StartRound(r)>>
      BY <1>1, <1>2 DEF Common, Registering
    <3>2. cmBox # <<>> => Tail(clientBox[c]) = <<>>
      <4> Tail(<<StartRound(r)>>) = <<>>
        OBVIOUS
      <4> QED BY <3>1, Zenon
    <3>3. cmBox # <<>> => clientBox'[c] = <<>>
      BY <1>2, <1>9, <3>2 DEF Common, ClientBoxes
    <3> QED BY <1>2, <1>9, <1>14, <3>3 DEF Common, Registering
  <2> QED BY <1>2, <1>9, <2>1, <2>2 DEF Common, Served, HasClients
<1> QED BY <1>5, <1>9, <1>15, <1>16 DEF LoopInv

\* the step that takes c's update into the list, or closes the round with it
Contributes(c) ==
  /\ c \notin ClientsOf(agg.updates) /\ agg'.round = coord.round
  /\ \/ agg'.updates = <<>> /\ ClientsOf(agg.updates) \cup {c} = Clients /\ Averaged'
     \/ /\ agg'.updates # <<>> /\ ClientsOf(agg.updates) \cup {c} # Clients
        /\ ClientsOf(agg'.updates) = ClientsOf(agg.updates) \cup {c}

\* an update the aggregator takes is its client's first of the round; the last
\* one makes the average complete
LEMMA AggLocalUpdateStep ==
  LoopInv /\ AggLocalUpdate =>
    LoopInv' /\ coord.round > 0 /\ Training /\ \E c \in Clients : Contributes(c)
<1> SUFFICES ASSUME LoopInv, AggLocalUpdate
             PROVE  LoopInv' /\ coord.round > 0 /\ Training /\ \E c \in Clients : Contributes(c)
  OBVIOUS
<1> DEFINE r == coord.round
           m == Head(aggBox)
           u == Update(m.client, m.round)
           us == Append(agg.updates, u)
<1>1. aggBox # <<>>
  BY DEF AggLocalUpdate, AggTakes
<1>2. r > 0 /\ Training
  BY <1>1 DEF LoopInv, Starting, Averaged, Reported, Measured, Over, Quiet
<1>3. Common /\ agg \in Aggregators /\ r \in Rounds
  BY <1>2, OpenRound DEF Common
<1>4. /\ aggBox \in Seq(LocalUpdates) /\ Distinct(aggBox) /\ OfRound(aggBox, r)
      /\ agg.updates \in Seq(Updates) /\ Distinct(agg.updates) /\ OfRound(agg.updates, r)
      /\ agg.round = IF agg.updates = <<>> THEN r - 1 ELSE r
  BY <1>2, <1>3 DEF Training, LocalUpdates, Aggregators
<1>5. m \in LocalUpdates /\ m.round = r /\ m.client \in ClientsOf(aggBox)
  <2>1. m = aggBox[1] /\ 1 \in DOMAIN aggBox /\ m \in LocalUpdates
    BY <1>1, <1>4, HeadTailProperties, LenProperties, EmptySeq
  <2> QED BY <1>4, <2>1 DEF OfRound, ClientsOf
<1>6. u \in Updates /\ u.client = m.client /\ u.round = r
  BY <1>3, <1>5 DEF Update, Updates, LocalUpdates
<1>7. m.client \in Clients /\ m.client \notin ClientsOf(agg.updates)
  BY <1>2, <1>5 DEF Training, LocalUpdates
<1>8. Kept(m.round) = agg.updates
  BY <1>3, <1>4, <1>5 DEF Kept, Rounds
<1>9. /\ aggBox' = Tail(aggBox) /\ Settle([agg EXCEPT !.round = r, !.updates = us])
      /\ UNCHANGED <<coord, doneCh, mon, registered, monBox, cmBox, clientBox, wire>>
  BY <1>5, <1>8 DEF AggLocalUpdate
<1> HIDE DEF m
<1>10. /\ us \in Seq(Updates) /\ Distinct(us)
       /\ ClientsOf(us) = ClientsOf(agg.updates) \cup {m.client}
  BY <1>4, <1>6, <1>7, AppendClient, AppendProperties
<1>11. OfRound(us, r) /\ us # <<>>
  <2>1. /\ Len(us) = Len(agg.updates) + 1 /\ us[Len(us)] = u /\ Len(agg.updates) \in Nat
        /\ \A i \in 1..Len(agg.updates) : us[i] = agg.updates[i]
        /\ DOMAIN us = 1..Len(us) /\ DOMAIN agg.updates = 1..Len(agg.updates)
    BY <1>4, <1>6, <1>10, AppendProperties, LenProperties
  <2> HIDE DEF us, u
  <2>2. us # <<>>
    BY <2>1, EmptySeq
  <2>3. ASSUME NEW i \in DOMAIN us PROVE us[i].round = r
    <3>1. i = Len(us) \/ i \in DOMAIN agg.updates
      BY <2>1
    <3>2. i \in DOMAIN agg.updates => us[i] = agg.updates[i] /\ us[i].round = r
      BY <1>4, <2>1 DEF OfRound
    <3> QED BY <1>6, <2>1, <3>1, <3>2
  <2> QED BY <2>2, <2>3 DEF OfRound
<1>12. Len(us) >= NumClients <=> ClientsOf(us) = Clients
  <2>1. \A v \in Updates : v.client \in Clients
    BY DEF Updates
  <2> QED BY <1>10, <2>1, ListLength
<1> HIDE DEF u, us
<1> DEFINE a == [agg EXCEPT !.round = r, !.updates = us]
<1>13. /\ a \in Aggregators /\ a.round = r /\ a.updates = us /\ a.expected = NumClients
       /\ [a EXCEPT !.updates = <<>>] \in Aggregators
       /\ [a EXCEPT !.updates = <<>>].updates = <<>>
       /\ [a EXCEPT !.updates = <<>>].round = r
  <2>1. r \in 0..TotalRounds /\ <<>> \in Seq(Updates)
    BY <1>3, Constants DEF Rounds
  <2> QED BY <1>3, <1>10, <2>1 DEF Aggregators
<1> HIDE DEF a
<1>14. /\ Distinct(aggBox') /\ ClientsOf(aggBox') = ClientsOf(aggBox) \ {m.client}
       /\ aggBox' \in Seq(LocalUpdates)
  BY <1>1, <1>4, <1>9, TailClient, HeadTailProperties DEF m
<1>15. OfRound(aggBox', r)
  BY <1>1, <1>4, <1>9, HeadTailProperties, LenProperties, EmptySeq DEF OfRound
<1>16. agg' \in Aggregators => Common'
  BY <1>3, <1>9 DEF Common, Registering, ClientBoxes, Served, HasClients
<1>17. CASE ClientsOf(us) = Clients
  <2>1. Enough(a)
    BY <1>12, <1>13, <1>17 DEF Enough
  <2>2. /\ coordBox' = Post(coordBox, AggregationResult(r, FedAvg(us)))
        /\ agg' = [a EXCEPT !.updates = <<>>]
    BY <1>9, <1>13, <2>1 DEF Settle, a
  <2>3. coordBox' = <<AggregationResult(r, OneOfEach(r))>>
    BY <1>2, <1>3, <1>10, <1>11, <1>17, <2>2, CompleteAverage, PostShort DEF Training
  <2>4. agg' \in Aggregators /\ agg'.round = r /\ agg'.updates = <<>>
    BY <1>13, <2>2
  <2>5. \A d \in Clients : clientBox[d] \in IdleBoxes /\ d \notin ClientsOf(aggBox')
    BY <1>2, <1>5, <1>10, <1>14, <1>17 DEF Training
  <2>6. aggBox' = <<>>
    <3>1. \A i \in DOMAIN aggBox' : aggBox'[i].client \in Clients
      <4>1. \A v \in LocalUpdates : v.client \in Clients
        BY DEF LocalUpdates
      <4> QED BY <1>14, <4>1, ElementOfSeq, LenProperties
    <3>2. DOMAIN aggBox' = {}
      BY <2>5, <3>1 DEF ClientsOf
    <3>3. Len(aggBox') = 0
      BY <1>14, <3>2, LenProperties
    <3> QED BY <1>14, <3>3, EmptySeq
  <2>7. Averaged'
    BY <1>2, <1>9, <2>3, <2>4, <2>5, <2>6 DEF Training, Averaged, Quiet, IdleBoxes
  <2>8. Contributes(m.client)
    BY <1>7, <1>10, <1>17, <2>4, <2>7 DEF Contributes
  <2> QED BY <1>2, <1>7, <1>9, <1>16, <2>4, <2>7, <2>8 DEF LoopInv
<1>18. CASE ClientsOf(us) # Clients
  <2>1. ~Enough(a)
    BY <1>12, <1>13, <1>18 DEF Enough
  <2>2. agg' = a /\ coordBox' = coordBox
    BY <1>9, <2>1 DEF Settle, a
  <2>3. ASSUME NEW d \in Clients
        PROVE  \/ /\ clientBox[d] \in AskedBoxes(r)
                  /\ d \notin ClientsOf(aggBox') /\ d \notin ClientsOf(us)
               \/ /\ clientBox[d] \in IdleBoxes
                  /\ d \in ClientsOf(aggBox') /\ d \notin ClientsOf(us)
               \/ /\ clientBox[d] \in IdleBoxes
                  /\ d \notin ClientsOf(aggBox') /\ d \in ClientsOf(us)
    BY <1>2, <1>5, <1>10, <1>14 DEF Training
  <2>4. Training'
    BY <1>2, <1>9, <1>10, <1>11, <1>13, <1>14, <1>15, <1>18, <2>2, <2>3 DEF Training, LocalUpdates
  <2>5. Contributes(m.client)
    BY <1>7, <1>10, <1>11, <1>13, <1>18, <2>2 DEF Contributes
  <2> QED BY <1>2, <1>7, <1>9, <1>13, <1>16, <2>2, <2>4, <2>5 DEF LoopInv
<1> QED BY <1>17, <1>18

-----------------------------------------------------------------------------
(* The steps that hand out and take a ClusterAssign. *)

\* mailboxes that change but hold the same work
LEMMA SameWork ==
  ASSUME LoopInv, Registering',
         UNCHANGED <<coord, doneCh, agg, mon, coordBox, aggBox, monBox, wire>>,
         ClientBoxes',
         \A c \in Clients :
           \/ clientBox[c] \in IdleBoxes /\ clientBox'[c] \in IdleBoxes
           \/ clientBox[c] \in AskedBoxes(coord.round) /\ clientBox'[c] \in AskedBoxes(coord.round)
  PROVE  LoopInv'
<1>1. Common'
  BY DEF LoopInv, Common, Served, HasClients
<1>2. Quiet => Quiet'
  BY IdleIsNotAsked DEF Quiet, IdleBoxes
<1>3. Training => Training'
  <2> SUFFICES ASSUME Training PROVE Training'
    OBVIOUS
  <2>1. ASSUME NEW c \in Clients
        PROVE  \/ /\ clientBox'[c] \in AskedBoxes(coord.round)
                  /\ c \notin ClientsOf(aggBox) /\ c \notin ClientsOf(agg.updates)
               \/ /\ clientBox'[c] \in IdleBoxes
                  /\ c \in ClientsOf(aggBox) /\ c \notin ClientsOf(agg.updates)
               \/ /\ clientBox'[c] \in IdleBoxes
                  /\ c \notin ClientsOf(aggBox) /\ c \in ClientsOf(agg.updates)
    BY IdleIsNotAsked DEF Training
  <2> QED BY <2>1 DEF Training, IdleBoxes
<1>4. /\ Starting => Starting'
      /\ Averaged => Averaged'
      /\ Reported => Reported'
      /\ Measured => Measured'
      /\ Over => Over'
  BY <1>2 DEF Starting, Averaged, Over, Reported, Measured
<1> QED BY <1>1, <1>3, <1>4 DEF LoopInv

\* A ClusterAssign leaves everybody's work where it is.
LEMMA ClientClusterAssignStep ==
  ASSUME LoopInv, NEW c \in Clients, ClientClusterAssign(c)
  PROVE  LoopInv'
<1> DEFINE r == coord.round
<1>1. clientBox[c] # <<>> /\ Head(clientBox[c]).type = "ClusterAssign"
  BY DEF ClientClusterAssign, ClientTakes
<1>2. Registering /\ ClientBoxes /\ clientBox[c] \in IdleBoxes \cup AskedBoxes(r)
  BY DEF LoopInv, Common, ClientBoxes
<1>3. /\ clientBox[c] \in IdleBoxes => Tail(clientBox[c]) = <<>>
      /\ clientBox[c] \in AskedBoxes(r) => Tail(clientBox[c]) = <<StartRound(r)>>
  <2>1. Head(clientBox[c]) # StartRound(r)
    BY <1>1 DEF StartRound
  <2> QED BY <1>1, <1>2, <2>1, TakeFromBox
<1>4. /\ clientBox' = [clientBox EXCEPT ![c] = Tail(@)]
      /\ UNCHANGED <<actorVars, coordBox, aggBox, monBox, cmBox, wire>>
  BY DEF ClientClusterAssign
<1>5. /\ clientBox'[c] = Tail(clientBox[c])
      /\ \A d \in Clients \ {c} : clientBox'[d] = clientBox[d]
      /\ DOMAIN clientBox' = Clients /\ clientBox' = [d \in Clients |-> clientBox'[d]]
  BY <1>2, <1>4 DEF ClientBoxes
<1>6. ASSUME NEW d \in Clients
      PROVE  \/ clientBox[d] \in IdleBoxes /\ clientBox'[d] \in IdleBoxes
             \/ clientBox[d] \in AskedBoxes(r) /\ clientBox'[d] \in AskedBoxes(r)
  <2>1. <<>> \in IdleBoxes /\ <<StartRound(r)>> \in AskedBoxes(r)
    BY DEF IdleBoxes, AskedBoxes
  <2> QED BY <1>2, <1>3, <1>5, <2>1 DEF ClientBoxes
<1>7. cmBox = <<>>
  <2> SUFFICES ASSUME cmBox # <<>> PROVE FALSE
    OBVIOUS
  <2>1. clientBox[c] = <<StartRound(r)>>
    BY <1>1, <1>2 DEF Registering
  <2> QED BY <1>1, <2>1 DEF StartRound
<1>8. Registering'
  BY <1>2, <1>4, <1>7 DEF Registering, actorVars
<1>9. ClientBoxes'
  BY <1>4, <1>5, <1>6 DEF ClientBoxes, actorVars
<1> QED BY <1>4, <1>6, <1>8, <1>9, SameWork DEF actorVars

\* The cluster manager only ever adds a ClusterAssign to mailboxes that have none.
LEMMA CMRegisterClientStep == LoopInv /\ CMRegisterClient => LoopInv'
<1> SUFFICES ASSUME LoopInv, CMRegisterClient PROVE LoopInv'
  OBVIOUS
<1> DEFINE r == coord.round
           cs == Append(registered, Head(cmBox))
<1>1. /\ cmBox # <<>> /\ cmBox' = Tail(cmBox) /\ registered' = cs
      /\ IF Len(cs) >= NumClients THEN SendToClients(cs, ClusterAssign)
                                  ELSE UNCHANGED <<clientBox, wire>>
      /\ UNCHANGED <<coord, doneCh, agg, mon, coordBox, aggBox, monBox>>
  BY DEF CMRegisterClient
<1>2. Registering /\ ClientBoxes /\ wire = EmptyBag
  BY DEF LoopInv, Common
<1>3. /\ cs \in Seq(Clients) /\ Tail(cmBox) \in Seq(Clients)
      /\ Len(cs) = Len(registered) + 1 /\ Len(Tail(cmBox)) = Len(cmBox) - 1
      /\ Len(cs) \in Nat /\ Len(Tail(cmBox)) \in Nat
  BY <1>1, <1>2, AppendProperties, HeadTailProperties, LenProperties DEF Registering
<1>4. Len(cs) + Len(Tail(cmBox)) <= NumClients
  BY <1>2, <1>3, LenProperties, Constants DEF Registering
<1>5. \A c \in Clients : clientBox[c] \in {<<>>, <<StartRound(r)>>}
  BY <1>1, <1>2 DEF Registering
<1> HIDE DEF cs
<1>6. CASE Len(cs) >= NumClients
  <2>1. /\ clientBox' = [c \in Clients |-> IF c \in ToSet(cs)
                                           THEN Post(clientBox[c], ClusterAssign)
                                           ELSE clientBox[c]]
        /\ wire' = wire
    BY <1>1, <1>6, LocalAssumption DEF SendToClients
  <2>2. ASSUME NEW c \in Clients
        PROVE  \/ clientBox[c] \in IdleBoxes /\ clientBox'[c] \in IdleBoxes
               \/ clientBox[c] \in AskedBoxes(r) /\ clientBox'[c] \in AskedBoxes(r)
    <3>1. clientBox'[c] \in {clientBox[c], Post(clientBox[c], ClusterAssign)}
      BY <2>1
    <3>2. CASE clientBox[c] = <<>>
      BY <3>1, <3>2, PostShort DEF IdleBoxes
    <3>3. CASE clientBox[c] = <<StartRound(r)>>
      BY <3>1, <3>3, PostShort DEF AskedBoxes
    <3> QED BY <1>5, <3>2, <3>3
  <2>3. ClientBoxes'
    BY <1>1, <2>1, <2>2 DEF ClientBoxes
  <2>4. cmBox' = <<>>
    BY <1>1, <1>3, <1>4, <1>6, Constants, EmptySeq
  <2>5. Registering'
    BY <1>1, <1>3, <1>4, <2>4 DEF Registering
  <2> QED BY <1>1, <2>1, <2>2, <2>3, <2>5, SameWork
<1>7. CASE ~(Len(cs) >= NumClients)
  <2>1. UNCHANGED <<clientBox, wire>>
    BY <1>1, <1>7
  <2>2. Registering' /\ ClientBoxes'
    BY <1>1, <1>2, <1>3, <1>4, <1>5, <2>1 DEF Registering, ClientBoxes
  <2> QED BY <1>1, <1>2, <2>1, <2>2, SameWork DEF ClientBoxes
<1> QED BY <1>6, <1>7

-----------------------------------------------------------------------------
(* The invariant, and what follows from it. *)

\* The stages describe every reachable state.
LEMMA LoopInvariance == Spec => []LoopInv
<1>1. LoopInv /\ [Next]_flVars => LoopInv'
  <2> SUFFICES ASSUME LoopInv, [Next]_flVars PROVE LoopInv'
    OBVIOUS
  <2>1. CASE CoordStartFL
    BY <2>1, CoordStartFLStep
  <2>2. CASE CoordAggregationResult
    BY <2>2, CoordAggregationResultStep
  <2>3. CASE CoordMetricsReport
    BY <2>3, CoordMetricsReportStep
  <2>4. CASE CoordSetPeers \/ CoordClientJoin \/ CoordClientDown \/ AggRemoveClient
    BY <2>4, NoOtherCoordStep
  <2>5. CASE AggLocalUpdate
    BY <2>5, AggLocalUpdateStep
  <2>6. CASE MonSetGlobalModel
    BY <2>6, MonSetGlobalModelStep
  <2>7. CASE MonRoundComplete
    BY <2>7, MonRoundCompleteStep
  <2>8. CASE CMRegisterClient
    BY <2>8, CMRegisterClientStep
  <2>9. ASSUME NEW c \in Clients, Client(c) PROVE LoopInv'
    BY <2>9, ClientStartRoundStep, ClientClusterAssignStep DEF Client
  <2>10. CASE UNCHANGED flVars
    BY <2>10 DEF LoopInv, Common, CoordRecord, Aggregators, Monitors, Registering,
                 ClientBoxes, Served, HasClients, Starting, Training, Averaged,
                 Reported, Measured, Over, Quiet, flVars, actorVars, boxVars
  <2> QED BY <2>1, <2>2, <2>3, <2>4, <2>5, <2>6, <2>7, <2>8, <2>9, <2>10
          DEF Next, Actors, Coordinator, Aggregator, Monitor
<1> QED BY <1>1, InitLoopInv, PTL DEF Spec

\* The coordinator does not panic, now or in the next state.
LEMMA IsUp == LoopInv => coord.up
BY DEF LoopInv, Common, CoordRecord
LEMMA IsUpNext == LoopInv' => coord.up'
BY IsUp, PTL

\* FedAvg only ever averages one update of the same round from every client,
\* and the monitor measures each average as the model of its own round.
THEOREM AveragesAreAlwaysComplete == Spec => []AveragesAreComplete
<1>1. LoopInv => AveragesAreComplete
  <2> SUFFICES ASSUME LoopInv PROVE AveragesAreComplete
    OBVIOUS
  <2>1. coord.model # NoModel => \E r \in 1..coord.round : coord.model = OneOfEach(r)
    BY DEF LoopInv, Common, Served
  <2>2. ASSUME NEW m \in ToSet(coordBox), m.type = "AggregationResult"
        PROVE  m.round = coord.round /\ m.model = OneOfEach(m.round)
    <3>1. coordBox # <<>>
      BY DEF ToSet
    <3>2. \E n : coordBox = <<n>>
      BY <3>1 DEF LoopInv, Starting, Training, Averaged, Reported, Measured, Over
    <3>3. coordBox = <<m>>
      BY <3>2 DEF ToSet
    <3>4. Averaged
      BY <2>2, <3>3 DEF LoopInv, Starting, Training, Reported, Measured, Over, StartFL, MetricsReport
    <3> QED BY <3>3, <3>4 DEF Averaged, AggregationResult
  <2>3. ASSUME NEW e \in mon.log PROVE e.of = OneOfEach(e.round)
    BY DEF LoopInv, Common, Monitors
  <2> QED BY <2>1, <2>2, <2>3 DEF AveragesAreComplete
<1> QED BY <1>1, LoopInvariance, PTL

\* The phase of the loop, seen from the invariant.
LEMMA PhaseOfStage ==
  ASSUME LoopInv
  PROVE  IF Phase = "training" THEN coord.round > 0 /\ Training ELSE Quiet
<1>1. coord.round \in Nat /\ coord.round \in Int
  BY Constants DEF LoopInv, Common, CoordRecord
<1>2. CASE coord.round > 0 /\ Training
  <2>1. agg.updates = <<>> => agg.round # coord.round
    BY <1>1, <1>2 DEF Training
  <2> QED BY <1>2, <2>1, IsUp, IsUpNext DEF Training, Phase, Aggregated
<1>3. CASE Starting
  BY <1>3, IsUp, IsUpNext DEF Starting, Phase
<1>4. CASE Over \/ Averaged \/ Reported \/ Measured
  <2>1. Quiet /\ agg.round = coord.round /\ agg.updates = <<>>
    BY <1>4 DEF Over, Averaged, Reported, Measured, Quiet
  <2> QED BY <2>1, IsUp, IsUpNext DEF Phase, Aggregated
<1> QED BY <1>2, <1>3, <1>4 DEF LoopInv

\* which mailboxes hold a StartRound
LEMMA AskedIsAskedBox ==
  ASSUME NEW c \in Clients, NEW r
  PROVE  /\ clientBox[c] \in IdleBoxes => ~Asked(c)
         /\ clientBox[c] \in AskedBoxes(r) => Asked(c)
         /\ clientBox[c] \in IdleBoxes \cup AskedBoxes(r) =>
              \A m \in ToSet(clientBox[c]) : m = StartRound(r) \/ m = ClusterAssign
<1>1. StartRound(r).type = "StartRound" /\ ClusterAssign.type = "ClusterAssign"
  BY DEF StartRound, ClusterAssign
<1>2. ASSUME NEW a PROVE ToSet(<<>>) = {} /\ ToSet(<<a>>) = {a}
  BY DEF ToSet
<1>3. ASSUME NEW a, NEW b PROVE ToSet(<<a, b>>) = {a, b}
  BY DEF ToSet
<1>4. CASE clientBox[c] = <<>>
  BY <1>2, <1>4 DEF Asked, AskedBoxes
<1>5. CASE clientBox[c] = <<ClusterAssign>>
  BY <1>1, <1>2, <1>5 DEF Asked, AskedBoxes
<1>6. CASE clientBox[c] = <<StartRound(r)>>
  BY <1>1, <1>2, <1>6 DEF Asked, IdleBoxes
<1>7. CASE clientBox[c] = <<ClusterAssign, StartRound(r)>>
  BY <1>1, <1>3, <1>7 DEF Asked, IdleBoxes
<1>8. CASE clientBox[c] = <<StartRound(r), ClusterAssign>>
  BY <1>1, <1>3, <1>8 DEF Asked, IdleBoxes
<1> QED BY <1>4, <1>5, <1>6, <1>7, <1>8 DEF IdleBoxes, AskedBoxes

\* While a round is open every client's work is in exactly one place, and
\* between rounds nowhere.
THEOREM WorkIsAlwaysConserved == Spec => []WorkIsConserved
<1>1. LoopInv => WorkIsConserved
  <2> SUFFICES ASSUME LoopInv PROVE WorkIsConserved
    OBVIOUS
  <2>1. /\ Common /\ agg.updates \in Seq(Updates)
        /\ \A c \in Clients : clientBox[c] \in IdleBoxes \cup AskedBoxes(coord.round)
    BY DEF LoopInv, Common, Aggregators, ClientBoxes
  <2>2. Contributed = ClientsOf(agg.updates)
    BY DEF Contributed, ClientsOf, ToSet
  <2>3. \A c \in Clients : Underway(c) <=> c \in ClientsOf(aggBox)
    BY DEF Underway, ClientsOf, ToSet
  <2>4. ASSUME NEW m \in UNION {ToSet(clientBox[c]) : c \in Clients}
        PROVE  m.type \in {"StartRound", "LocalUpdate"} => m.round = coord.round
    <3>1. m = StartRound(coord.round) \/ m = ClusterAssign
      BY <2>1, AskedIsAskedBox
    <3> QED BY <3>1 DEF StartRound, ClusterAssign
  <2>5. CASE Phase = "training"
    <3>1. Training
      BY <2>5, PhaseOfStage
    <3>2. /\ aggBox \in Seq(LocalUpdates) /\ Distinct(aggBox) /\ OfRound(aggBox, coord.round)
          /\ Distinct(agg.updates)
      BY <3>1 DEF Training, LocalUpdates
    <3>3. ASSUME NEW c \in Clients PROVE Cardinality(Places(c)) = 1
      <4>1. \/ Asked(c) /\ ~Underway(c) /\ c \notin Contributed
            \/ ~Asked(c) /\ Underway(c) /\ c \notin Contributed
            \/ ~Asked(c) /\ ~Underway(c) /\ c \in Contributed
        BY <2>2, <2>3, <3>1, AskedIsAskedBox DEF Training
      <4>2. Places(c) = {"client"} \/ Places(c) = {"aggregator"} \/ Places(c) = {"updates"}
        BY <4>1 DEF Places
      <4> QED BY <4>2, FS_Singleton
    <3>4. ASSUME NEW m \in ToSet(aggBox) PROVE m.round = coord.round
      BY <3>2 DEF OfRound, ToSet
    <3>5. Len(aggBox) + Len(agg.updates) <= NumClients
      <4> DEFINE A == ClientsOf(aggBox)
                 B == ClientsOf(agg.updates)
      <4>1. /\ \A v \in LocalUpdates : v.client \in Clients
            /\ \A v \in Updates : v.client \in Clients
        BY DEF LocalUpdates, Updates
      <4>2. A \subseteq Clients /\ B \subseteq Clients
        BY <2>1, <3>2, <4>1, ListLength
      <4>3. /\ IsFiniteSet(A) /\ Cardinality(A) = Len(aggBox)
            /\ IsFiniteSet(B) /\ Cardinality(B) = Len(agg.updates)
        BY <2>1, <3>2, DistinctLength
      <4>4. A \cap B = {}
        BY <3>1, <4>2 DEF Training
      <4> HIDE DEF A, B
      <4>5. Cardinality(A \cup B) = Cardinality(A) + Cardinality(B)
        <5>1. Cardinality(A \cup B) = Cardinality(A) + Cardinality(B) - Cardinality(A \cap B)
          BY <4>3, FS_Union
        <5>2. Cardinality(A \cap B) = 0
          BY <4>4, FS_EmptySet
        <5>3. Cardinality(A) \in Nat /\ Cardinality(B) \in Nat
          BY <4>3, FS_CardinalityType
        <5> QED BY <5>1, <5>2, <5>3
      <4>6. Cardinality(A \cup B) <= NumClients
        BY <4>2, FS_Subset, Constants DEF NumClients
      <4> QED BY <4>3, <4>5, <4>6
    <3> QED BY <2>4, <2>5, <3>3, <3>4, <3>5 DEF WorkIsConserved
  <2>6. CASE Phase # "training"
    <3>1. Quiet
      BY <2>6, PhaseOfStage
    <3>2. ClientsOf(<<>>) = {} /\ ToSet(<<>>) = {} /\ Len(<<>>) = 0
      BY DEF ClientsOf, ToSet
    <3>3. \A c \in Clients : Places(c) = {}
      <4>1. \A c \in Clients : ~Asked(c) /\ ~Underway(c) /\ c \notin Contributed
        BY <2>2, <2>3, <3>1, <3>2, AskedIsAskedBox DEF Quiet
      <4> QED BY <4>1 DEF Places
    <3>4. ToSet(aggBox) = {} /\ Len(aggBox) + Len(agg.updates) <= NumClients
      BY <3>1, <3>2, Constants DEF Quiet
    <3> QED BY <2>4, <2>6, <3>3, <3>4 DEF WorkIsConserved
  <2> QED BY <2>5, <2>6
<1> QED BY <1>1, LoopInvariance, PTL

\* Short tuples are sequences.
LEMMA ShortSeq ==
  ASSUME NEW S, NEW m \in S, NEW n \in S
  PROVE  <<>> \in Seq(S) /\ <<m>> \in Seq(S) /\ <<m, n>> \in Seq(S)
OBVIOUS

\* The types of the actors' fields and of what their mailboxes hold.
THEOREM TypeCorrect == Spec => []TypeOK
<1>1. LoopInv => TypeOK
  <2> SUFFICES ASSUME LoopInv PROVE TypeOK
    OBVIOUS
  <2>1. Common
    BY DEF LoopInv
  <2>2. coord.round \in 0..TotalRounds /\ (coord.round > 0 => coord.round \in Rounds)
    BY <2>1, OpenRound DEF Common, CoordRecord
  <2>3. coord \in [up : BOOLEAN, round : 0..TotalRounds, clients : Seq(Clients),
                   peers : BOOLEAN, model : Models, seeded : SUBSET Clients]
    BY <2>1 DEF Common, CoordRecord
  <2>4. agg \in [expected : 1..NumClients, round : 0..TotalRounds, 
                 updates : Seq([client : Clients, round : Rounds])]
    BY <2>1, Constants DEF Common, Aggregators, Updates
  <2>5. mon \in [validation : BOOLEAN, model : Models,
                 log : SUBSET [round : Rounds, of : Models]]
    <3>1. {[round |-> r, of |-> OneOfEach(r)] : r \in Rounds} \subseteq [round : Rounds, of : Models]
      BY ModelFacts
    <3> QED BY <2>1, <3>1 DEF Common, Monitors
  <2>6. clientBox \in [Clients -> Seq(ClientMsg)]
    <3>1. ASSUME NEW c \in Clients PROVE clientBox[c] \in Seq(ClientMsg)
      <4>1. clientBox[c] \in IdleBoxes \cup AskedBoxes(coord.round)
        BY <2>1 DEF Common, ClientBoxes
      <4>2. ClusterAssign \in ClientMsg
        BY DEF ClusterAssign, ClientMsg
      <4>3. IdleBoxes \subseteq Seq(ClientMsg)
        BY <4>2 DEF IdleBoxes
      <4>4. clientBox[c] \in AskedBoxes(coord.round) => coord.round \in Rounds
        BY <2>2, IdleIsNotAsked DEF LoopInv, Starting, Over, Quiet
      <4>5. ASSUME coord.round \in Rounds PROVE AskedBoxes(coord.round) \subseteq Seq(ClientMsg)
        <5>1. StartRound(coord.round) \in ClientMsg
          BY <4>5 DEF StartRound, ClientMsg
        <5> QED BY <4>2, <5>1 DEF AskedBoxes
      <4> QED BY <4>1, <4>3, <4>4, <4>5
    <3> QED BY <2>1, <3>1 DEF Common, ClientBoxes
  <2>7. aggBox \in Seq(AggMsg)
    <3>1. aggBox = <<>> \/ aggBox \in Seq(LocalUpdates)
      BY DEF LoopInv, Starting, Training, Averaged, Reported, Measured, Over, Quiet, LocalUpdates
    <3>2. LocalUpdates \subseteq AggMsg
      BY DEF LocalUpdates, AggMsg
    <3> QED BY <3>1, <3>2, SeqMonotonic, EmptySeq
  <2>8. coordBox \in Seq(CoordMsg)
    <3>1. \A roster \in Rosters : StartFL(roster) \in CoordMsg
      BY RosterFacts DEF StartFL, CoordMsg
    <3>2. ASSUME NEW r \in Rounds, NEW b \in BOOLEAN
          PROVE  AggregationResult(r, OneOfEach(r)) \in CoordMsg /\ MetricsReport(r, b) \in CoordMsg
      BY ModelFacts DEF AggregationResult, MetricsReport, CoordMsg
    <3>3. coordBox = <<>> \/ \E m \in CoordMsg : coordBox = <<m>>
      <4>1. CASE coordBox = <<>>
        BY <4>1
      <4>2. CASE Starting
        BY <3>1, <4>2 DEF Starting
      <4>3. CASE coord.round > 0 /\ Averaged
        BY <2>2, <3>2, <4>3 DEF Averaged
      <4>4. CASE coord.round > 0 /\ Measured
        BY <2>2, <3>2, <4>4 DEF Measured
      <4> QED BY <4>1, <4>2, <4>3, <4>4 DEF LoopInv, Training, Reported, Over
    <3> QED BY <3>3, ShortSeq, EmptySeq
  <2>9. monBox \in Seq(MonMsg)
    <3>1. ASSUME NEW r \in Rounds PROVE RoundComplete(r) \in MonMsg
      BY DEF RoundComplete, MonMsg
    <3>2. ASSUME NEW m \in Models PROVE SetGlobalModel(m) \in MonMsg
      BY DEF SetGlobalModel, MonMsg
    <3>3. coord.model \in Models
      BY <2>3
    <3>4. \/ monBox = <<>>
          \/ \E m \in MonMsg : monBox = <<m>>
          \/ \E m, n \in MonMsg : monBox = <<m, n>>
      <4>1. CASE monBox = <<>>
        BY <4>1
      <4>2. CASE coord.round > 0 /\ Reported
        <5>1. RoundComplete(coord.round) \in MonMsg /\ SetGlobalModel(coord.model) \in MonMsg
          BY <2>2, <3>1, <3>2, <3>3, <4>2
        <5> QED BY <4>2, <5>1 DEF Reported
      <4> QED BY <4>1, <4>2 DEF LoopInv, Starting, Training, Averaged, Measured, Over
    <3> QED BY <3>4, ShortSeq, EmptySeq
  <2>10. /\ registered \in Seq(Clients) /\ cmBox \in Seq(Clients)
         /\ doneCh \in BOOLEAN /\ wire = EmptyBag
    BY <2>1 DEF Common, Registering
  <2> QED BY <2>3, <2>4, <2>5, <2>6, <2>7, <2>8, <2>9, <2>10 DEF TypeOK, ActorsTypeOK
<1> QED BY <1>1, LoopInvariance, PTL

-----------------------------------------------------------------------------
(* The abstract training loop. *)

\* what contributed stands for, in the refinement mapping
Mapped == IF Phase = "training" THEN Contributed
          ELSE {c \in Clients : \E r \in Rounds : LatestAverage[<<c, r>>] > 0}

\* rounds are counted from nought
LEMMA RoundIsNat == LoopInv => Common /\ coord.round \in Nat
<1> SUFFICES ASSUME LoopInv PROVE Common /\ coord.round \in Nat
  OBVIOUS
<1>1. Common /\ coord \in CoordRecord
  BY DEF LoopInv, Common
<1>2. coord.round \in 0..TotalRounds
  BY <1>1 DEF CoordRecord
<1> QED BY <1>1, <1>2, Constants

\* what a reader of the abstract loop sees in contributed
MappedView ==
  Mapped = IF Phase = "training" THEN ClientsOf(agg.updates)
           ELSE IF coord.round = 0 THEN {} ELSE Clients

\* Between rounds the average at hand is of everybody's update, or there is none.
LEMMA MappedIs == LoopInv => MappedView
<1> DEFINE Averagers == {c \in Clients : \E r \in Rounds : LatestAverage[<<c, r>>] > 0}
<1>0. Mapped = IF Phase = "training" THEN ClientsOf(agg.updates) ELSE Averagers
  BY DEF Mapped, Contributed, ClientsOf, ToSet
<1> SUFFICES ASSUME LoopInv, Phase # "training"
             PROVE  Averagers = IF coord.round = 0 THEN {} ELSE Clients
  BY <1>0 DEF MappedView
<1>1. Common /\ coord.round \in Nat
  BY RoundIsNat
<1>2. CASE coord.round = 0
  <2>1. coord.model = NoModel
    BY <1>2 DEF LoopInv, Common, Served
  <2>2. coordBox # <<>> => Head(coordBox).type # "AggregationResult"
    BY <1>2 DEF LoopInv, Starting, Over, StartFL
  <2>3. LatestAverage = NoModel
    BY <2>1, <2>2 DEF LatestAverage
  <2>4. \A c \in Clients, r \in Rounds : ~(LatestAverage[<<c, r>>] > 0)
    BY <2>3 DEF NoModel
  <2> QED BY <1>2, <2>4
<1>3. CASE coord.round # 0
  <2>1. coord.round \in Rounds
    BY <1>1, <1>3, OpenRound
  <2>2. Averaged \/ Reported \/ Measured \/ Over
    <3>1. ASSUME Training PROVE FALSE
      <4>1. ~Aggregated /\ ~doneCh
        BY <1>1, <3>1 DEF Training, Aggregated
      <4> QED BY <1>3, <4>1, IsUp, IsUpNext DEF Phase
    <3> QED BY <1>3, <3>1 DEF LoopInv, Starting
  <2>3. LatestAverage = OneOfEach(coord.round)
    <3>1. CASE Averaged
      BY <3>1 DEF Averaged, AggregationResult, LatestAverage
    <3>2. CASE Reported \/ Over
      BY <1>1, <1>3, <3>2 DEF Reported, Over, LatestAverage
    <3>3. CASE Measured
      BY <3>3 DEF Measured, MetricsReport, LatestAverage
    <3> QED BY <2>2, <3>1, <3>2, <3>3
  <2>4. \A c \in Clients : OneOfEach(coord.round)[<<c, coord.round>>] = 1
    BY <2>1 DEF OneOfEach
  <2> QED BY <1>3, <2>1, <2>3, <2>4
<1> QED BY <1>2, <1>3

\* the same in the next state
LEMMA MappedNext == LoopInv' => MappedView'
BY MappedIs, PTL

\* Beginning a round, or ending the training, and nothing else of the loop's.
LEMMA BeginRoundEffect ==
  ASSUME NEW c \in CoordRecord, BeginRound(c)
  PROVE  \/ /\ c.round < TotalRounds /\ coord'.round = c.round + 1
            /\ UNCHANGED doneCh
         \/ /\ c.round = TotalRounds /\ coord'.round = c.round
            /\ doneCh' = TRUE
<1>1. c.round \in 0..TotalRounds /\ TotalRounds \in Nat
  BY Constants DEF CoordRecord
<1> DEFINE n == c.round + 1
<1>2. CASE RoundsLeft(c)
  <2>1. coord' = [c EXCEPT !.round = n] /\ UNCHANGED doneCh
    BY <1>2 DEF BeginRound
  <2> HIDE DEF n
  <2>2. coord'.round = n
    BY <2>1 DEF CoordRecord
  <2> QED BY <1>2, <2>1, <2>2 DEF RoundsLeft, n
<1>3. CASE ~RoundsLeft(c)
  <2>1. coord' = [c EXCEPT !.up = ~doneCh] /\ doneCh' = TRUE
    BY <1>3 DEF BeginRound, CloseDone
  <2>2. coord'.round = c.round
    BY <2>1 DEF CoordRecord
  <2>3. c.round = TotalRounds
    BY <1>1, <1>3 DEF RoundsLeft
  <2> QED BY <2>1, <2>2, <2>3
<1> QED BY <1>2, <1>3

\* the steps in which the coordinator hands out a round or ends the training
Advances == CoordStartFL \/ CoordMetricsReport

\* the steps that only move messages about a round already averaged, or wait
Moves ==
  \/ CoordAggregationResult \/ MonSetGlobalModel \/ MonRoundComplete \/ CMRegisterClient
  \/ \E c \in Clients : Client(c)
  \/ UNCHANGED flVars

\* such a step changes neither the round nor what the aggregator has collected
LEMMA MovesStutter ==
  ASSUME LoopInv, Moves
  PROVE  coord'.round = coord.round /\ UNCHANGED <<doneCh, agg>>
<1>1. CASE CoordAggregationResult
  <2> DEFINE m == Head(coordBox).model
  <2>1. coord' = [coord EXCEPT !.model = m, !.up = coord.peers] /\ UNCHANGED <<doneCh, agg>>
    BY <1>1 DEF CoordAggregationResult
  <2> HIDE DEF m
  <2>2. coord \in CoordRecord
    BY DEF LoopInv, Common
  <2> QED BY <2>1, <2>2 DEF CoordRecord
<1>2. CASE MonSetGlobalModel \/ MonRoundComplete \/ CMRegisterClient \/ UNCHANGED flVars
  BY <1>2 DEF MonSetGlobalModel, MonRoundComplete, CMRegisterClient, flVars, actorVars
<1>3. ASSUME NEW c \in Clients, Client(c) PROVE UNCHANGED <<coord, doneCh, agg>>
  BY <1>3 DEF Client, ClientStartRound, ClientClusterAssign, actorVars
<1> QED BY <1>1, <1>2, <1>3 DEF Moves

\* The start and a MetricsReport begin the next round, or end the training, with
\* nothing collected and nothing under way.
LEMMA AdvancesEffect ==
  ASSUME LoopInv, Advances
  PROVE  /\ UNCHANGED <<agg, mon, monBox>> /\ coordBox' = <<>> /\ monBox = <<>> /\ ~doneCh
         /\ agg.round = coord.round /\ agg.updates = <<>> /\ coord.round \in 0..TotalRounds
         /\ coordBox # <<>> /\ Head(coordBox).type # "AggregationResult"
         /\ coord.round = 0 => CoordStartFL
         /\ \/ coord.round < TotalRounds /\ coord'.round = coord.round + 1 /\ ~doneCh'
            \/ /\ coord.round = TotalRounds \/ coord.round > 0
               /\ coord'.round = coord.round /\ doneCh'
<1>1. CASE CoordStartFL
  <2>1. coordBox # <<>> /\ Head(coordBox).type = "StartFederatedLearning"
    BY <1>1 DEF CoordStartFL, CoordTakes
  <2>2. Starting
    BY <2>1 DEF LoopInv, Training, Averaged, Reported, Measured, Over, AggregationResult, MetricsReport
  <2>3. PICK roster \in Rosters : coordBox = <<StartFL(roster)>>
    BY <2>2 DEF Starting
  <2>4. Head(coordBox).clients = roster /\ Tail(coordBox) = <<>>
    BY <2>3 DEF StartFL
  <2> DEFINE c == [coord EXCEPT !.clients = roster, !.peers = TRUE]
  <2>5. coord \in CoordRecord /\ roster \in Seq(Clients)
    BY RosterFacts DEF LoopInv, Common, CoordRecord
  <2>6. c \in CoordRecord /\ c.round = coord.round
    BY <2>5 DEF CoordRecord
  <2>7. coordBox' = <<>> /\ BeginRound(c) /\ UNCHANGED <<agg, mon, monBox>>
    BY <1>1, <2>4 DEF CoordStartFL
  <2> HIDE DEF c
  <2>8. coord.round = 0 /\ monBox = <<>> /\ agg.round = 0 /\ agg.updates = <<>> /\ ~doneCh
    BY <2>2 DEF Starting, Quiet
  <2>9. \/ /\ c.round < TotalRounds /\ coord'.round = c.round + 1 /\ UNCHANGED doneCh
        \/ c.round = TotalRounds /\ coord'.round = c.round /\ doneCh' = TRUE
    BY <2>6, <2>7, BeginRoundEffect
  <2>10. Head(coordBox).type # "AggregationResult" /\ 0 \in 0..TotalRounds
    BY <2>1, Constants
  <2> QED BY <1>1, <2>1, <2>6, <2>7, <2>8, <2>9, <2>10
<1>2. CASE CoordMetricsReport
  <2>1. coordBox # <<>> /\ Head(coordBox).type = "MetricsReport"
    BY <1>2 DEF CoordMetricsReport, CoordTakes
  <2>2. coord.round > 0 /\ Measured
    BY <2>1 DEF LoopInv, Starting, Training, Averaged, Reported, Over, StartFL, AggregationResult
  <2>3. coord \in CoordRecord /\ coord.round \in 0..TotalRounds
    BY DEF LoopInv, Common, CoordRecord
  <2>4. /\ coordBox' = <<>> /\ UNCHANGED <<agg, mon, monBox>>
        /\ agg.round = coord.round /\ agg.updates = <<>> /\ ~doneCh /\ monBox = <<>>
    BY <1>2, <2>2 DEF Measured, Quiet, CoordMetricsReport
  <2>5. BeginRound(coord) \/ CloseDone(coord)
    BY <1>2 DEF CoordMetricsReport
  <2>6. ASSUME CloseDone(coord) PROVE coord'.round = coord.round /\ doneCh' = TRUE
    BY <2>3, <2>6 DEF CloseDone, CoordRecord
  <2>7. ASSUME BeginRound(coord)
        PROVE  \/ /\ coord.round < TotalRounds /\ coord'.round = coord.round + 1
                  /\ UNCHANGED doneCh
               \/ coord.round = TotalRounds /\ coord'.round = coord.round /\ doneCh' = TRUE
    BY <2>3, <2>7, BeginRoundEffect
  <2>8. Head(coordBox).type # "AggregationResult"
    BY <2>1
  <2>9. \/ coord.round < TotalRounds /\ coord'.round = coord.round + 1 /\ ~doneCh'
        \/ coord.round > 0 /\ coord'.round = coord.round /\ doneCh'
    BY <2>2, <2>4, <2>5, <2>6, <2>7
  <2> QED BY <2>1, <2>2, <2>3, <2>4, <2>8, <2>9
<1> QED BY <1>1, <1>2 DEF Advances

\* there are no other steps but an update that is collected
LEMMA Steps ==
  ASSUME LoopInv, [Next]_flVars PROVE Advances \/ Moves \/ AggLocalUpdate
BY NoOtherCoordStep DEF Next, Actors, Coordinator, Aggregator, Monitor, Advances, Moves

\* The training of one process implements the abstract training loop, however
\* many clients and rounds there are.
THEOREM LoopIsImplemented == Spec => ImplementsTrainingLoop
<1>1. Init => Loop!Init
  <2> SUFFICES ASSUME Init PROVE Loop!Init
    OBVIOUS
  <2>1. coord.round = 0 /\ ~doneCh /\ coord.up
    BY DEF Init
  <2>2. Phase = "idle"
    BY <2>1, IsUp, IsUpNext DEF Phase
  <2>3. Mapped = {}
    BY <2>1, <2>2, InitLoopInv, MappedIs DEF MappedView
  <2> QED BY <2>1, <2>2, <2>3 DEF Loop!Init, Mapped
<1>2. LoopInv /\ LoopInv' /\ [Next]_flVars => [Loop!Next]_Loop!loopVars
  <2> SUFFICES ASSUME LoopInv, LoopInv', [Next]_flVars PROVE [Loop!Next]_Loop!loopVars
    OBVIOUS
  <2>1. Mapped = IF Phase = "training" THEN ClientsOf(agg.updates)
                 ELSE IF coord.round = 0 THEN {} ELSE Clients
    BY MappedIs DEF MappedView
  <2>2. Mapped' = IF Phase' = "training" THEN ClientsOf(agg'.updates)
                  ELSE IF coord'.round = 0 THEN {} ELSE Clients
    BY MappedNext DEF MappedView
  <2>3. CASE Moves
    <3>1. coord'.round = coord.round /\ UNCHANGED <<doneCh, agg>>
      BY <2>3, MovesStutter
    <3>2. Phase' = Phase
      BY <3>1, IsUp, IsUpNext DEF Phase, Aggregated
    <3>3. Mapped' = Mapped
      BY <2>1, <2>2, <3>1, <3>2
    <3> QED BY <3>1, <3>2, <3>3 DEF Loop!loopVars, Mapped
  <2>4. CASE Advances
    <3>1. /\ UNCHANGED agg /\ ~doneCh /\ agg.round = coord.round /\ agg.updates = <<>>
          /\ coord.round \in 0..TotalRounds
          /\ \/ coord.round < TotalRounds /\ coord'.round = coord.round + 1 /\ ~doneCh'
             \/ /\ coord.round = TotalRounds \/ coord.round > 0
                /\ coord'.round = coord.round /\ doneCh'
      BY <2>4, AdvancesEffect
    <3>2. TotalRounds \in Nat
      BY Constants
    <3>3. Phase = IF coord.round = 0 THEN "idle" ELSE "evaluating"
      BY <3>1, IsUp, IsUpNext DEF Phase, Aggregated
    <3>4. CASE coord.round < TotalRounds /\ coord'.round = coord.round + 1 /\ ~doneCh'
      <4>1. Phase' = "training"
        BY <3>1, <3>2, <3>4, IsUp, IsUpNext DEF Phase, Aggregated
      <4>2. Mapped' = {}
        BY <2>2, <3>1, <4>1 DEF ClientsOf
      <4>3. Loop!StartRound
        BY <3>3, <3>4, <4>1, <4>2 DEF Loop!StartRound, Mapped
      <4> QED BY <4>3 DEF Loop!Next
    <3>5. CASE /\ coord.round = TotalRounds \/ coord.round > 0
               /\ coord'.round = coord.round /\ doneCh'
      <4>1. Phase' = "done"
        BY <3>5, IsUp, IsUpNext DEF Phase
      <4>2. Mapped' = Mapped
        BY <2>1, <2>2, <3>3, <3>5, <4>1
      <4>3. Loop!Finish
        BY <3>2, <3>3, <3>5, <4>1, <4>2 DEF Loop!Finish, Mapped
      <4> QED BY <4>3 DEF Loop!Next
    <3> QED BY <3>1, <3>4, <3>5
  <2>5. CASE AggLocalUpdate
    <3>1. PICK c \in Clients : coord.round > 0 /\ Training /\ Contributes(c)
      BY <2>5, AggLocalUpdateStep
    <3>2. UNCHANGED <<coord, doneCh>> /\ ~doneCh
      BY <2>5, <3>1 DEF AggLocalUpdate, Training
    <3>3. coord.round \in Nat /\ coord.round # 0
      BY <3>1, Constants DEF LoopInv, Common, CoordRecord
    <3>4. Phase = "training"
      <4>1. ~Aggregated
        BY <3>1, <3>3 DEF Training, Aggregated
      <4> QED BY <3>2, <3>3, <4>1, IsUp, IsUpNext DEF Phase
    <3>5. c \notin Mapped
      BY <2>1, <3>1, <3>4 DEF Contributes
    <3>6. CASE ClientsOf(agg.updates) \cup {c} = Clients
      <4>1. Phase' = "evaluating"
        BY <3>1, <3>2, <3>3, <3>6, IsUp, IsUpNext DEF Contributes, Phase, Aggregated
      <4>2. Mapped' = Mapped \cup {c} /\ Mapped' = Clients
        BY <2>1, <2>2, <3>2, <3>3, <3>4, <3>6, <4>1
      <4> QED BY <3>2, <3>4, <3>5, <4>1, <4>2 DEF Loop!Next, Loop!Contribute, Mapped
    <3>7. CASE ClientsOf(agg.updates) \cup {c} # Clients
      <4>1. Phase' = "training"
        BY <3>1, <3>2, <3>3, <3>7, IsUp, IsUpNext DEF Contributes, Phase, Aggregated
      <4>2. Mapped' = Mapped \cup {c} /\ Mapped' # Clients
        BY <2>1, <2>2, <3>1, <3>4, <3>7, <4>1 DEF Contributes
      <4> QED BY <3>2, <3>4, <3>5, <4>1, <4>2 DEF Loop!Next, Loop!Contribute, Mapped
    <3> QED BY <3>6, <3>7
  <2> QED BY <2>3, <2>4, <2>5, Steps
<1> QED BY <1>1, <1>2, LoopInvariance, PTL DEF Spec, ImplementsTrainingLoop, Loop!Spec

-----------------------------------------------------------------------------
(* The monitor's log. *)

\* the log after k rounds have been measured
Logged(k) == {[round |-> r, of |-> OneOfEach(r)] : r \in 1..k}

\* has the current round still to be measured?
Unmeasured ==
  Phase = "training" \/ monBox # <<>>
    \/ (coordBox # <<>> /\ Head(coordBox).type = "AggregationResult")

LogInv ==
  mon.log = IF mon.validation
            THEN Logged(IF Unmeasured THEN coord.round - 1 ELSE coord.round) ELSE {}

\* One more round is one more entry.
LEMMA LogGrows ==
  ASSUME NEW r \in Rounds
  PROVE  Logged(r - 1) \cup {[round |-> r, of |-> OneOfEach(r)]} = Logged(r)
<1>1. TotalRounds \in Nat
  BY Constants
<1>2. 1..r = (1..(r - 1)) \cup {r}
  BY <1>1 DEF Rounds
<1> QED BY <1>2 DEF Logged

\* The log names the rounds measured, each once.
LEMMA LogCounts ==
  ASSUME NEW k \in Nat
  PROVE  /\ {e.round : e \in Logged(k)} = 1..k
         /\ Cardinality(Logged(k)) = k /\ Cardinality(1..k) = k
<1>1. {e.round : e \in Logged(k)} = 1..k
  <2>1. ASSUME NEW e \in Logged(k) PROVE e.round \in 1..k
    BY DEF Logged
  <2>2. ASSUME NEW r \in 1..k PROVE \E e \in Logged(k) : e.round = r
    <3> DEFINE e == [round |-> r, of |-> OneOfEach(r)]
    <3>1. e \in Logged(k) /\ e.round = r
      BY DEF Logged
    <3> QED BY <3>1
  <2> QED BY <2>1, <2>2
<1> DEFINE f == [r \in 1..k |-> [round |-> r, of |-> OneOfEach(r)]]
<1>2. f \in Bijection(1..k, Logged(k))
  BY DEF Logged, Bijection, Injection, Surjection, IsInjective
<1>3. ExistsBijection(1..k, Logged(k))
  BY <1>2 DEF ExistsBijection
<1>4. IsFiniteSet(1..k) /\ Cardinality(1..k) = k
  BY FS_Interval
<1> QED BY <1>1, <1>3, <1>4, FS_Bijection

\* nothing is logged, and nothing to be measured
LEMMA LogInvInit == Init => LogInv
<1> SUFFICES ASSUME Init PROVE LogInv
  OBVIOUS
<1>1. coord.round = 0 /\ ~doneCh /\ monBox = <<>> /\ coord.up
  BY DEF Init
<1>5. mon.log = {}
  BY DEF Init
<1>2. coordBox # <<>> => Head(coordBox).type # "AggregationResult"
  BY DEF Init, StartFL
<1>3. ~Unmeasured
  BY <1>1, <1>2, IsUp, IsUpNext DEF Unmeasured, Phase
<1>4. Logged(0) = {}
  BY DEF Logged
<1> QED BY <1>1, <1>3, <1>4, <1>5 DEF LogInv

\* a step logs the round that was unmeasured, or changes neither
LEMMA LogInvStep == LoopInv /\ LoopInv' /\ LogInv /\ [Next]_flVars => LogInv'
<1> SUFFICES ASSUME LoopInv, LoopInv', LogInv, [Next]_flVars PROVE LogInv'
  OBVIOUS
<1>0. coord.round \in Nat
  BY RoundIsNat
<1>1. ASSUME UNCHANGED <<mon, monBox, coordBox, doneCh, agg>>, coord'.round = coord.round
      PROVE  LogInv'
  <2>1. Phase' = Phase
    BY <1>1, IsUp, IsUpNext DEF Phase, Aggregated
  <2>2. Unmeasured' = Unmeasured
    BY <1>1, <2>1 DEF Unmeasured
  <2> QED BY <1>1, <2>2 DEF LogInv
<1>2. CASE CMRegisterClient \/ UNCHANGED flVars
  BY <1>1, <1>2 DEF CMRegisterClient, flVars, actorVars, boxVars
<1>3. ASSUME NEW c \in Clients, Client(c) PROVE LogInv'
  BY <1>1, <1>3 DEF Client, ClientStartRound, ClientClusterAssign, actorVars
<1>4. CASE CoordAggregationResult
  <2>1. coordBox # <<>> /\ Head(coordBox).type = "AggregationResult" /\ mon' = mon
    BY <1>4 DEF CoordAggregationResult, CoordTakes
  <2>2. coord.round > 0 /\ Averaged
    BY <2>1 DEF LoopInv, Starting, Training, Reported, Measured, Over, StartFL, MetricsReport
  <2>3. coord.peers
    BY <2>2, OpenRound
  <2>4. monBox' = <<SetGlobalModel(Head(coordBox).model), RoundComplete(Head(coordBox).round)>>
    BY <1>4, <2>2, <2>3, PostShort DEF CoordAggregationResult, Report, Averaged
  <2>5. coord'.round = coord.round
    BY <1>4, MovesStutter DEF Moves
  <2>6. Unmeasured /\ Unmeasured'
    BY <2>1, <2>4 DEF Unmeasured
  <2> QED BY <2>1, <2>5, <2>6 DEF LogInv
<1>5. CASE MonSetGlobalModel
  <2>1. monBox # <<>> /\ Head(monBox).type = "SetGlobalModel"
    BY <1>5 DEF MonSetGlobalModel, MonTakes
  <2>2. Reported
    BY <2>1 DEF LoopInv, Starting, Training, Averaged, Measured, Over
  <2>3. monBox = <<SetGlobalModel(coord.model), RoundComplete(coord.round)>>
    BY <2>1, <2>2 DEF Reported, RoundComplete
  <2>4. monBox' = <<RoundComplete(coord.round)>> /\ UNCHANGED coord
    BY <1>5, <2>3 DEF MonSetGlobalModel
  <2>5. Unmeasured /\ Unmeasured'
    BY <2>1, <2>4 DEF Unmeasured
  <2> DEFINE m == Head(monBox).model
  <2>6. mon' = [mon EXCEPT !.model = m]
    BY <1>5 DEF MonSetGlobalModel
  <2> HIDE DEF m
  <2>7. mon \in Monitors
    BY DEF LoopInv, Common
  <2>8. mon'.log = mon.log /\ mon'.validation = mon.validation
    BY <2>6, <2>7 DEF Monitors
  <2> QED BY <2>4, <2>5, <2>8 DEF LogInv
<1>6. CASE MonRoundComplete
  <2>1. monBox # <<>> /\ Head(monBox).type = "RoundComplete"
    BY <1>6 DEF MonRoundComplete, MonTakes
  <2>2. coord.round > 0 /\ Reported
    BY <2>1 DEF LoopInv, Starting, Training, Averaged, Measured, Over
  <2>3. monBox = <<RoundComplete(coord.round)>> /\ mon.model = coord.model
    BY <2>1, <2>2 DEF Reported, SetGlobalModel
  <2>4. Head(monBox).round = coord.round /\ Tail(monBox) = <<>>
    BY <2>3 DEF RoundComplete
  <2>5. mon \in Monitors /\ coord.round \in Rounds
    BY <2>2, OpenRound DEF Common
  <2>6. mon.model = OneOfEach(coord.round) /\ mon.model # NoModel
    BY <2>2, <2>3, <2>5, ModelFacts DEF Reported
  <2>7. monBox' = <<>> /\ UNCHANGED <<coord, doneCh, agg>>
    BY <1>6, <2>4 DEF MonRoundComplete
  <2>8. Unmeasured
    BY <2>1 DEF Unmeasured
  <2>9. CASE mon.validation
    <3>1. PICK b \in BOOLEAN : coordBox' = Post(coordBox, MetricsReport(coord.round, b))
      BY <2>4, <2>6, <2>9, <1>6 DEF MonRoundComplete
    <3>2. coordBox' = <<MetricsReport(coord.round, b)>>
      BY <2>2, <3>1, PostShort DEF Reported
    <3>3. Phase' # "training"
      BY <2>2, <2>7, IsUp, IsUpNext DEF Reported, Quiet, Phase, Aggregated
    <3>4. ~Unmeasured'
      BY <2>7, <3>2, <3>3 DEF Unmeasured, MetricsReport
    <3> DEFINE e == [round |-> coord.round, of |-> mon.model]
    <3>5. mon' = [mon EXCEPT !.log = @ \cup {e}]
      BY <2>4, <2>6, <2>9, <1>6 DEF MonRoundComplete
    <3>6. Logged(coord.round - 1) \cup {e} = Logged(coord.round)
      BY <2>5, <2>6, LogGrows
    <3> HIDE DEF e
    <3>7. mon'.log = mon.log \cup {e} /\ mon'.validation
      BY <2>5, <2>9, <3>5 DEF Monitors
    <3> QED BY <2>7, <2>8, <2>9, <3>4, <3>6, <3>7 DEF LogInv
  <2>10. CASE ~mon.validation
    <3>1. mon' = mon
      BY <2>6, <2>10, <1>6 DEF MonRoundComplete
    <3> QED BY <2>10, <3>1 DEF LogInv
  <2> QED BY <2>9, <2>10
<1>7. CASE AggLocalUpdate
  <2>1. PICK c \in Clients : coord.round > 0 /\ Training /\ Contributes(c)
    BY <1>7, AggLocalUpdateStep
  <2>2. UNCHANGED <<coord, doneCh, mon>> /\ ~doneCh /\ coord.round # 0
    BY <1>0, <1>7, <2>1 DEF AggLocalUpdate, Training
  <2>3. Unmeasured
    <3>1. ~Aggregated
      BY <1>0, <2>1 DEF Training, Aggregated
    <3> QED BY <2>2, <3>1, IsUp, IsUpNext DEF Unmeasured, Phase
  <2>4. Unmeasured'
    <3>1. CASE Averaged'
      <4>1. coordBox' # <<>> /\ Head(coordBox').type = "AggregationResult"
        BY <3>1 DEF Averaged, AggregationResult
      <4> QED BY <4>1 DEF Unmeasured
    <3>2. CASE agg'.updates # <<>>
      BY <2>2, <3>2, IsUp, IsUpNext DEF Unmeasured, Phase, Aggregated
    <3> QED BY <2>1, <3>1, <3>2 DEF Contributes
  <2> QED BY <2>2, <2>3, <2>4 DEF LogInv
<1>8. CASE Advances
  <2>1. /\ UNCHANGED <<agg, mon, monBox>> /\ coordBox' = <<>> /\ monBox = <<>> /\ ~doneCh
        /\ agg.round = coord.round /\ agg.updates = <<>>
        /\ coordBox # <<>> /\ Head(coordBox).type # "AggregationResult"
        /\ \/ coord'.round = coord.round + 1 /\ ~doneCh'
           \/ coord'.round = coord.round /\ doneCh'
    BY <1>8, AdvancesEffect
  <2>2. ~Unmeasured
    BY <2>1, IsUp, IsUpNext DEF Unmeasured, Phase, Aggregated
  <2>3. CASE coord'.round = coord.round + 1 /\ ~doneCh'
    <3>1. Unmeasured'
      BY <1>0, <2>1, <2>3, IsUp, IsUpNext DEF Unmeasured, Phase, Aggregated
    <3>2. coord'.round - 1 = coord.round
      BY <1>0, <2>3
    <3> QED BY <2>1, <2>2, <3>1, <3>2 DEF LogInv
  <2>4. CASE coord'.round = coord.round /\ doneCh'
    <3>1. ~Unmeasured'
      BY <2>1, <2>4, IsUp, IsUpNext DEF Unmeasured, Phase
    <3> QED BY <2>1, <2>2, <2>4, <3>1 DEF LogInv
  <2> QED BY <2>1, <2>3, <2>4
<1> QED BY <1>2, <1>3, <1>4, <1>5, <1>6, <1>7, <1>8, Steps DEF Moves

\* The log has no gap and no round twice: it is the rounds up to the current
\* one, or all but the current one.
THEOREM TheLogNeverHasAGap == Spec => []MetricsLogHasNoGap
<1>1. LoopInv /\ LogInv => MetricsLogHasNoGap
  <2> SUFFICES ASSUME LoopInv, LogInv PROVE MetricsLogHasNoGap
    OBVIOUS
  <2>1. coord.round \in Nat
    BY RoundIsNat
  <2>2. Unmeasured => coord.round # 0
    <3> SUFFICES ASSUME coord.round = 0, Unmeasured PROVE FALSE
      OBVIOUS
    <3>1. Phase # "training"
      BY IsUp, IsUpNext DEF Phase
    <3>2. monBox = <<>> /\ (coordBox # <<>> => Head(coordBox).type # "AggregationResult")
      BY DEF LoopInv, Starting, Over, StartFL
    <3> QED BY <3>1, <3>2 DEF Unmeasured
  <2>3. PICK k \in Nat : mon.log = Logged(k) /\ (mon.validation => coord.round - k \in {0, 1})
    <3>1. CASE ~mon.validation
      <4>1. Logged(0) = {}
        BY DEF Logged
      <4> QED BY <3>1, <4>1 DEF LogInv
    <3>2. CASE mon.validation /\ Unmeasured
      <4>1. coord.round - 1 \in Nat /\ mon.log = Logged(coord.round - 1)
        BY <2>1, <2>2, <3>2 DEF LogInv
      <4> QED BY <2>1, <4>1
    <3>3. CASE mon.validation /\ ~Unmeasured
      <4>1. mon.log = Logged(coord.round)
        BY <3>3 DEF LogInv
      <4> QED BY <2>1, <4>1
    <3> QED BY <3>1, <3>2, <3>3
  <2>4. /\ {e.round : e \in mon.log} = 1..k
        /\ Cardinality(mon.log) = k /\ Cardinality(1..k) = k
    BY <2>3, LogCounts
  <2> QED BY <2>3, <2>4 DEF MetricsLogHasNoGap
<1> QED BY <1>1, LoopInvariance, LogInvInit, LogInvStep, PTL DEF Spec
-----------------------------------------------------------------------------
(* The training comes to an end: until then there is a step to take, and   *)
(* every step brings the end nearer.                                       *)

Holds(box, type) == \E m \in ToSet(box) : m.type = type

\* who has been asked to train, and who has been told its cluster
AskedOnes == {c \in Clients : Holds(clientBox[c], "StartRound")}
Assigned == {c \in Clients : Holds(clientBox[c], "ClusterAssign")}

\* how many messages the one in the coordinator's mailbox, and those in the
\* monitor's, bring about before the next round
Answer == IF coordBox = <<>> THEN 0
          ELSE IF Head(coordBox).type = "AggregationResult" THEN 4 ELSE 1
Measuring == IF monBox = <<>> THEN 0 ELSE 1 + Len(monBox)

\* what is left to do in the round: each message counts for itself and for what
\* it may bring about
Left == 6 * Cardinality(AskedOnes) + 5 * Len(aggBox) + Answer + Measuring

\* a round more; or less to do in it; or else a registration or an assignment less
NearerTheEnd ==
  \/ coord.round < coord'.round /\ coord'.round <= TotalRounds
  \/ /\ coord'.round = coord.round
     /\ \/ Left' < Left
        \/ Left' = Left /\ Len(cmBox') < Len(cmBox)
        \/ Left' = Left /\ cmBox' = cmBox /\ Cardinality(Assigned') < Cardinality(Assigned)

\* all of it is counted in natural numbers
Counted ==
  /\ IsFiniteSet(AskedOnes) /\ Cardinality(AskedOnes) \in Nat
  /\ IsFiniteSet(Assigned) /\ Cardinality(Assigned) \in Nat
  /\ Len(aggBox) \in Nat /\ Len(cmBox) \in Nat
  /\ Answer \in 0..4 /\ Measuring \in 0..3 /\ Left \in Nat

\* there is a message whose handler the actor it waits for can run
CanStep ==
  \/ \E t \in {"StartFederatedLearning", "AggregationResult", "MetricsReport"} : CoordTakes(t)
  \/ AggTakes("LocalUpdate")
  \/ \E t \in {"SetGlobalModel", "RoundComplete"} : MonTakes(t)
  \/ \E c \in Clients : ClientTakes(c, "StartRound") \/ ClientTakes(c, "ClusterAssign")

\* What is in the mailboxes that a client can have,
LEMMA BoxHolds ==
  ASSUME NEW r
  PROVE  /\ \A box \in IdleBoxes : ~Holds(box, "StartRound")
         /\ \A box \in AskedBoxes(r) : Holds(box, "StartRound")
         /\ \A box \in {<<ClusterAssign>>, <<ClusterAssign, StartRound(r)>>} :
              Holds(box, "ClusterAssign")
         /\ ~Holds(<<>>, "ClusterAssign") /\ ~Holds(<<StartRound(r)>>, "ClusterAssign")
<1>1. StartRound(r).type = "StartRound" /\ ClusterAssign.type = "ClusterAssign"
  BY DEF StartRound, ClusterAssign
<1>2. ASSUME NEW a PROVE ToSet(<<>>) = {} /\ ToSet(<<a>>) = {a}
  BY DEF ToSet
<1>3. ASSUME NEW a, NEW b PROVE ToSet(<<a, b>>) = {a, b}
  BY DEF ToSet
<1>4. ASSUME NEW t PROVE ~Holds(<<>>, t)
  BY <1>2 DEF Holds
<1>5. ASSUME NEW a, NEW t PROVE Holds(<<a>>, t) <=> a.type = t
  BY <1>2 DEF Holds
<1>6. ASSUME NEW a, NEW b, NEW t PROVE Holds(<<a, b>>, t) <=> (a.type = t \/ b.type = t)
  BY <1>3 DEF Holds
<1>7. \A box \in IdleBoxes : ~Holds(box, "StartRound")
  BY <1>1, <1>4, <1>5 DEF IdleBoxes
<1>8. \A box \in AskedBoxes(r) : Holds(box, "StartRound")
  BY <1>1, <1>5, <1>6 DEF AskedBoxes
<1>9. Holds(<<ClusterAssign>>, "ClusterAssign") /\ Holds(<<ClusterAssign, StartRound(r)>>, "ClusterAssign")
  BY <1>1, <1>5, <1>6
<1>10. ~Holds(<<>>, "ClusterAssign") /\ ~Holds(<<StartRound(r)>>, "ClusterAssign")
  BY <1>1, <1>4, <1>5
<1> QED BY <1>7, <1>8, <1>9, <1>10

\* and so in those of everybody.
LEMMA BoxesAre ==
  LoopInv => \A c \in Clients : clientBox[c] \in IdleBoxes \cup AskedBoxes(coord.round)
BY DEF LoopInv, Common, ClientBoxes

\* What is left to do is a number,
LEMMA LeftIsCounted == LoopInv => Counted
<1> SUFFICES ASSUME LoopInv PROVE Counted
  OBVIOUS
<1>1. AskedOnes \in SUBSET Clients /\ Assigned \in SUBSET Clients /\ IsFiniteSet(Clients)
  BY Constants DEF AskedOnes, Assigned
<1>2. /\ IsFiniteSet(AskedOnes) /\ Cardinality(AskedOnes) \in Nat
      /\ IsFiniteSet(Assigned) /\ Cardinality(Assigned) \in Nat
  BY <1>1, FS_Subset, FS_CardinalityType
<1>3. Len(aggBox) \in Nat
  <2>1. aggBox = <<>> \/ aggBox \in Seq([type : {"LocalUpdate"}, client : Clients, round : Rounds])
    BY DEF LoopInv, Starting, Training, Averaged, Reported, Measured, Over, Quiet
  <2>2. Len(<<>>) = 0
    OBVIOUS
  <2> QED BY <2>1, <2>2, LenProperties
<1>4. Len(cmBox) \in Nat
  BY LenProperties DEF LoopInv, Common, Registering
<1>5. Answer \in 0..4
  BY DEF Answer
<1>6. Measuring \in 0..3
  <2>1. ASSUME NEW a PROVE Len(<<a>>) = 1 /\ <<a>> # <<>>
    OBVIOUS
  <2>2. ASSUME NEW a, NEW b PROVE Len(<<a, b>>) = 2 /\ <<a, b>> # <<>>
    OBVIOUS
  <2>3. monBox = <<>> \/ (monBox # <<>> /\ Len(monBox) \in 1..2)
    BY <2>1, <2>2 DEF LoopInv, Starting, Training, Averaged, Reported, Measured, Over
  <2>4. CASE monBox = <<>>
    BY <2>4 DEF Measuring
  <2>5. ASSUME NEW n \in 1..2, Len(monBox) = n, monBox # <<>> PROVE Measuring \in 0..3
    <3>1. Measuring = 1 + n
      BY <2>5, Zenon DEF Measuring
    <3>2. 1 + n \in 0..3
      OBVIOUS
    <3> QED BY <3>1, <3>2, Zenon
  <2> QED BY <2>3, <2>4, <2>5
<1> QED BY <1>2, <1>3, <1>4, <1>5, <1>6 DEF Counted, Left

\* and so it is after a step,
LEMMA LeftIsCountedNext == LoopInv' => Counted'
BY LeftIsCounted, PTL

\* and nothing when the training is over.
NothingLeft == doneCh => (Left = 0)

\* No message is on its way then,
LEMMA NothingIsLeft == LoopInv => NothingLeft
<1> SUFFICES ASSUME LoopInv, doneCh PROVE Left = 0
  BY DEF NothingLeft
<1>1. Over
  BY DEF LoopInv, Starting, Training, Averaged, Reported, Measured
<1>2. aggBox = <<>> /\ coordBox = <<>> /\ monBox = <<>> /\ \A c \in Clients : clientBox[c] \in IdleBoxes
  BY <1>1 DEF Over, Quiet
<1>3. AskedOnes = {}
  BY <1>2, BoxHolds DEF AskedOnes
<1>4. Cardinality(AskedOnes) = 0 /\ Len(aggBox) = 0 /\ Answer = 0 /\ Measuring = 0
  BY <1>2, <1>3, FS_EmptySet DEF Answer, Measuring
<1> QED BY <1>4 DEF Left

\* and none after a step that ends it.
LEMMA NothingIsLeftNext == LoopInv' => NothingLeft'
BY NothingIsLeft, PTL

\* What taking an update, or a request, takes from the sum.
LEMMA LessLeft ==
  ASSUME NEW a \in Nat, NEW b \in Nat, NEW u \in Nat, NEW v \in Nat,
         NEW x \in 0..4, NEW y \in 0..4, NEW m \in 0..3,
         (b = a /\ v = u - 1 /\ x = 0) \/ (b = a - 1 /\ v <= u + 1 /\ y = x)
  PROVE  6 * b + 5 * v + y + m < 6 * a + 5 * u + x + m
OBVIOUS

\* mailboxes that hold the same requests make the same sum
LEMMA SameAsked ==
  ASSUME \A c \in Clients : Holds(clientBox'[c], "StartRound") <=> Holds(clientBox[c], "StartRound")
  PROVE  AskedOnes' = AskedOnes
BY DEF AskedOnes

\* The coordinator's steps bring the end nearer,
LEMMA CoordinatorIsNearer ==
  ASSUME LoopInv, LoopInv', Advances \/ CoordAggregationResult
  PROVE  NearerTheEnd
<1>1. Counted /\ Counted' /\ coord.round \in Nat /\ TotalRounds \in Nat
  BY LeftIsCounted, LeftIsCountedNext, RoundIsNat, Constants
<1>2. CASE Advances
  <2>1. /\ monBox = <<>> /\ coordBox # <<>> /\ Head(coordBox).type # "AggregationResult"
        /\ \/ coord.round < TotalRounds /\ coord'.round = coord.round + 1
           \/ coord'.round = coord.round /\ doneCh'
    BY <1>2, AdvancesEffect
  <2>2. CASE coord.round < TotalRounds /\ coord'.round = coord.round + 1
    BY <1>1, <2>2 DEF NearerTheEnd
  <2>3. CASE coord'.round = coord.round /\ doneCh'
    <3>1. Left' = 0
      BY <2>3, NothingIsLeftNext DEF NothingLeft
    <3>2. Answer = 1
      BY <2>1 DEF Answer
    <3>3. Left > 0
      <4>1. Left = 6 * Cardinality(AskedOnes) + 5 * Len(aggBox) + 1 + Measuring
        BY <3>2 DEF Left
      <4>2. Cardinality(AskedOnes) \in Nat /\ Len(aggBox) \in Nat /\ Measuring \in 0..3
        BY <1>1 DEF Counted
      <4> QED BY <4>1, <4>2
    <3> QED BY <2>3, <3>1, <3>3 DEF NearerTheEnd
  <2> QED BY <2>1, <2>2, <2>3
<1>3. CASE CoordAggregationResult
  <2>1. coordBox # <<>> /\ Head(coordBox).type = "AggregationResult"
    BY <1>3 DEF CoordAggregationResult, CoordTakes
  <2>2. Averaged
    BY <2>1 DEF LoopInv, Starting, Training, Reported, Measured, Over, StartFL, MetricsReport
  <2>3. coordBox' = <<>> /\ monBox = <<>> /\ UNCHANGED <<aggBox, cmBox, clientBox>>
    BY <1>3, <2>2 DEF CoordAggregationResult, Averaged
  <2>4. coord'.round = coord.round
    BY <1>3, MovesStutter DEF Moves
  <2>5. Answer = 4 /\ Answer' = 0 /\ Measuring = 0 /\ Measuring' \in 0..3
    BY <1>1, <2>1, <2>3 DEF Answer, Measuring, Counted
  <2>6. AskedOnes' = AskedOnes
    BY <2>3 DEF AskedOnes
  <2>7. Left' < Left
    <3>1. Cardinality(AskedOnes') = Cardinality(AskedOnes) /\ Len(aggBox') = Len(aggBox)
      BY <2>3, <2>6
    <3> QED BY <1>1, <2>5, <3>1 DEF Left, Counted
  <2> QED BY <2>4, <2>7 DEF NearerTheEnd
<1> QED BY <1>2, <1>3

\* those of the monitor,
LEMMA MonitorIsNearer ==
  ASSUME LoopInv, LoopInv', MonSetGlobalModel \/ MonRoundComplete
  PROVE  NearerTheEnd
<1>1. Counted /\ Counted'
  BY LeftIsCounted, LeftIsCountedNext
<1>2. coord'.round = coord.round /\ UNCHANGED <<aggBox, clientBox>>
  BY DEF MonSetGlobalModel, MonRoundComplete
<1>3. Cardinality(AskedOnes') = Cardinality(AskedOnes) /\ Len(aggBox') = Len(aggBox)
  BY <1>2 DEF AskedOnes
<1>4. monBox # <<>> /\ Head(monBox).type \in {"SetGlobalModel", "RoundComplete"}
  BY DEF MonSetGlobalModel, MonRoundComplete, MonTakes
<1>5. Reported
  BY <1>4 DEF LoopInv, Starting, Training, Averaged, Measured, Over
<1>6. coordBox = <<>> /\ Answer = 0
  BY <1>5 DEF Reported, Answer
<1>7. CASE MonSetGlobalModel
  <2>1. monBox = <<SetGlobalModel(coord.model), RoundComplete(coord.round)>>
    BY <1>5, <1>7 DEF Reported, RoundComplete, MonSetGlobalModel, MonTakes
  <2>2. monBox' = <<RoundComplete(coord.round)>> /\ coordBox' = coordBox
    BY <1>7, <2>1 DEF MonSetGlobalModel
  <2>3. Len(monBox) = 2 /\ Len(monBox') = 1 /\ monBox' # <<>>
    BY <2>1, <2>2
  <2>4. Measuring = 3 /\ Measuring' = 2 /\ Answer' = 0
    BY <1>4, <1>6, <2>2, <2>3 DEF Measuring, Answer
  <2>5. Left' < Left
    BY <1>1, <1>3, <1>6, <2>4 DEF Left, Counted
  <2> QED BY <1>2, <2>5 DEF NearerTheEnd
<1>8. CASE MonRoundComplete
  <2>1. monBox = <<RoundComplete(coord.round)>>
    BY <1>5, <1>8 DEF Reported, SetGlobalModel, MonRoundComplete, MonTakes
  <2>2. monBox' = <<>> /\ Len(monBox) = 1
    BY <1>8, <2>1 DEF MonRoundComplete
  <2>3. coordBox' = <<>> \/ Head(coordBox').type # "AggregationResult"
    <3>1. \/ coordBox' = coordBox
          \/ \E b \in BOOLEAN : coordBox' = Post(coordBox, MetricsReport(Head(monBox).round, b))
      BY <1>8 DEF MonRoundComplete
    <3>2. ASSUME NEW b \in BOOLEAN
          PROVE  Post(<<>>, MetricsReport(Head(monBox).round, b)) = <<MetricsReport(Head(monBox).round, b)>>
      BY PostShort
    <3>3. ASSUME NEW b \in BOOLEAN
          PROVE  Head(<<MetricsReport(Head(monBox).round, b)>>).type # "AggregationResult"
      BY DEF MetricsReport
    <3>4. CASE coordBox' = coordBox
      BY <1>6, <3>4
    <3>5. ASSUME NEW b \in BOOLEAN, coordBox' = Post(coordBox, MetricsReport(Head(monBox).round, b))
          PROVE  Head(coordBox').type # "AggregationResult"
      <4>1. coordBox' = <<MetricsReport(Head(monBox).round, b)>>
        BY <1>6, <3>2, <3>5, Zenon
      <4> QED BY <3>3, <4>1, Zenon
    <3> QED BY <3>1, <3>4, <3>5
  <2>4. Measuring = 2 /\ Measuring' = 0 /\ Answer' \in 0..1
    BY <1>4, <2>2, <2>3 DEF Measuring, Answer
  <2>5. Left' < Left
    BY <1>1, <1>3, <1>6, <2>4 DEF Left, Counted
  <2> QED BY <1>2, <2>5 DEF NearerTheEnd
<1> QED BY <1>7, <1>8

\* that of the aggregator, even when it makes an average,
LEMMA AggregatorIsNearer ==
  ASSUME LoopInv, LoopInv', AggLocalUpdate
  PROVE  NearerTheEnd
<1>1. Counted /\ Counted'
  BY LeftIsCounted, LeftIsCountedNext
<1>2. coord'.round = coord.round /\ UNCHANGED <<clientBox, monBox>> /\ aggBox' = Tail(aggBox) /\ aggBox # <<>>
  BY DEF AggLocalUpdate, AggTakes
<1>3. Training
  BY AggLocalUpdateStep
<1>4. coordBox = <<>> /\ Len(aggBox') = Len(aggBox) - 1
  BY <1>2, <1>3, HeadTailProperties DEF Training
<1>5. Answer = 0 /\ Answer' \in 0..4 /\ Measuring' = Measuring
  BY <1>1, <1>2, <1>4 DEF Answer, Measuring, Counted
<1>6. Cardinality(AskedOnes') = Cardinality(AskedOnes)
  BY <1>2 DEF AskedOnes
<1>7. Left' < Left
  <2>1. /\ Cardinality(AskedOnes) \in Nat /\ Cardinality(AskedOnes') \in Nat
        /\ Len(aggBox) \in Nat /\ Len(aggBox') \in Nat
        /\ Answer \in 0..4 /\ Answer' \in 0..4 /\ Measuring \in 0..3
    BY <1>1 DEF Counted
  <2>2. 6 * Cardinality(AskedOnes') + 5 * Len(aggBox') + Answer' + Measuring
        < 6 * Cardinality(AskedOnes) + 5 * Len(aggBox) + Answer + Measuring
    BY <1>4, <1>5, <1>6, <2>1, LessLeft
  <2> QED BY <1>5, <2>2, Zenon DEF Left
<1> QED BY <1>2, <1>7 DEF NearerTheEnd

\* and those of the clients
LEMMA ClientIsNearer ==
  ASSUME LoopInv, LoopInv', NEW c \in Clients, Client(c)
  PROVE  NearerTheEnd
<1> DEFINE r == coord.round
<1>1. Counted /\ Counted'
  BY LeftIsCounted, LeftIsCountedNext
<1>2. /\ UNCHANGED <<coord, coordBox, monBox, cmBox>>
      /\ clientBox' = [clientBox EXCEPT ![c] = Tail(@)] /\ clientBox[c] # <<>>
  BY DEF Client, ClientStartRound, ClientClusterAssign, ClientTakes, actorVars
<1>3. /\ clientBox'[c] = Tail(clientBox[c])
      /\ \A d \in Clients \ {c} : clientBox'[d] = clientBox[d]
  BY <1>2 DEF LoopInv, Common, ClientBoxes
<1>4. clientBox[c] \in IdleBoxes \cup AskedBoxes(r)
  BY BoxesAre
<1>5. Answer' = Answer /\ Measuring' = Measuring
  BY <1>2 DEF Answer, Measuring
<1>6. CASE ClientStartRound(c)
  <2>1. Head(clientBox[c]).type = "StartRound"
    BY <1>6 DEF ClientStartRound, ClientTakes
  <2>2. /\ Head(clientBox[c]) = StartRound(r) /\ clientBox[c] \in AskedBoxes(r)
        /\ Tail(clientBox[c]) \in IdleBoxes
    BY <1>2, <1>4, <2>1, TakeFromBox
  <2>3. Holds(clientBox[c], "StartRound") /\ ~Holds(clientBox'[c], "StartRound")
    BY <1>3, <2>2, BoxHolds
  <2>4. AskedOnes' = AskedOnes \ {c} /\ c \in AskedOnes
    BY <1>3, <2>3 DEF AskedOnes
  <2>5. Cardinality(AskedOnes') = Cardinality(AskedOnes) - 1
    BY <1>1, <2>4, FS_RemoveElement DEF Counted
  <2>6. Training
    <3>1. clientBox[c] \notin IdleBoxes
      BY <2>2, IdleIsNotAsked
    <3> QED BY <3>1 DEF LoopInv, Starting, Averaged, Reported, Measured, Over, Quiet
  <2>7. Len(aggBox') <= Len(aggBox) + 1
    <3>1. aggBox' = Post(aggBox, LocalUpdate(c, r))
      BY <1>6, <2>2, LocalAssumption DEF ClientStartRound, StartRound
    <3>2. r \in Rounds
      <4>1. r > 0
        BY <2>2, <2>6, IdleIsNotAsked DEF LoopInv, Starting, Over, Quiet
      <4> QED BY <4>1, OpenRound
    <3>3. LocalUpdate(c, r) \in [type : {"LocalUpdate"}, client : Clients, round : Rounds]
      BY <3>2 DEF LocalUpdate
    <3>4. Len(Append(aggBox, LocalUpdate(c, r))) = Len(aggBox) + 1
      BY <2>6, <3>3, AppendProperties DEF Training
    <3> QED BY <1>1, <3>1, <3>4 DEF Post, Counted
  <2>8. Left' < Left
    <3>1. /\ Cardinality(AskedOnes) \in Nat /\ Cardinality(AskedOnes') \in Nat
          /\ Len(aggBox) \in Nat /\ Len(aggBox') \in Nat
          /\ Answer \in 0..4 /\ Answer' \in 0..4 /\ Measuring \in 0..3
      BY <1>1 DEF Counted
    <3>2. 6 * Cardinality(AskedOnes') + 5 * Len(aggBox') + Answer' + Measuring
          < 6 * Cardinality(AskedOnes) + 5 * Len(aggBox) + Answer + Measuring
      BY <1>5, <2>5, <2>7, <3>1, LessLeft
    <3> QED BY <1>5, <3>2, Zenon DEF Left
  <2> QED BY <1>2, <2>8 DEF NearerTheEnd
<1>7. CASE ClientClusterAssign(c)
  <2>1. Head(clientBox[c]).type = "ClusterAssign" /\ aggBox' = aggBox
    BY <1>7 DEF ClientClusterAssign, ClientTakes
  <2>2. clientBox[c] \in {<<ClusterAssign>>, <<ClusterAssign, StartRound(r)>>}
    BY <1>2, <1>4, <2>1 DEF IdleBoxes, AskedBoxes, StartRound
  <2>3. \/ clientBox[c] = <<ClusterAssign>> /\ clientBox'[c] = <<>>
        \/ clientBox[c] = <<ClusterAssign, StartRound(r)>> /\ clientBox'[c] = <<StartRound(r)>>
    <3>1. Tail(<<ClusterAssign>>) = <<>>
      OBVIOUS
    <3>2. Tail(<<ClusterAssign, StartRound(r)>>) = <<StartRound(r)>>
      OBVIOUS
    <3> QED BY <1>3, <2>2, <3>1, <3>2, Zenon
  <2>4. /\ <<>> \in IdleBoxes /\ <<ClusterAssign>> \in IdleBoxes
        /\ <<StartRound(r)>> \in AskedBoxes(r) /\ <<ClusterAssign, StartRound(r)>> \in AskedBoxes(r)
    BY DEF IdleBoxes, AskedBoxes
  <2>5. /\ Holds(clientBox'[c], "StartRound") <=> Holds(clientBox[c], "StartRound")
        /\ Holds(clientBox[c], "ClusterAssign") /\ ~Holds(clientBox'[c], "ClusterAssign")
    BY <2>3, <2>4, BoxHolds
  <2>6. AskedOnes' = AskedOnes
    BY <1>3, <2>5, SameAsked
  <2>7. Assigned' = Assigned \ {c} /\ c \in Assigned
    BY <1>3, <2>5 DEF Assigned
  <2>8. Cardinality(Assigned') = Cardinality(Assigned) - 1
    BY <1>1, <2>7, FS_RemoveElement DEF Counted
  <2>9. Left' = Left
    BY <1>5, <2>1, <2>6 DEF Left
  <2>10. Cardinality(Assigned') < Cardinality(Assigned)
    BY <1>1, <2>8 DEF Counted
  <2> QED BY <1>2, <2>9, <2>10 DEF NearerTheEnd
<1> QED BY <1>6, <1>7 DEF Client

\* and of the cluster manager, whose assignments nobody has to answer.
LEMMA ManagerIsNearer ==
  ASSUME LoopInv, LoopInv', CMRegisterClient
  PROVE  NearerTheEnd
<1> DEFINE r == coord.round
           cs == Append(registered, Head(cmBox))
<1>1. Counted /\ Counted'
  BY LeftIsCounted, LeftIsCountedNext
<1>2. /\ cmBox # <<>> /\ cmBox' = Tail(cmBox) /\ UNCHANGED <<coord, coordBox, aggBox, monBox>>
      /\ IF Len(cs) >= NumClients THEN SendToClients(cs, ClusterAssign)
                                  ELSE UNCHANGED <<clientBox, wire>>
  BY DEF CMRegisterClient
<1>3. Registering
  BY DEF LoopInv, Common
<1>4. Len(cmBox') < Len(cmBox)
  <2>1. Len(cmBox') = Len(cmBox) - 1
    BY <1>2, <1>3, HeadTailProperties DEF Registering
  <2> QED BY <1>1, <2>1 DEF Counted
<1> HIDE DEF cs
<1>5. ASSUME NEW c \in Clients
      PROVE  Holds(clientBox'[c], "StartRound") <=> Holds(clientBox[c], "StartRound")
  <2>1. clientBox[c] \in {<<>>, <<StartRound(r)>>}
    BY <1>2, <1>3 DEF Registering
  <2>2. clientBox'[c] \in {clientBox[c], Post(clientBox[c], ClusterAssign)}
    BY <1>2, LocalAssumption DEF SendToClients
  <2>3. /\ <<>> \in IdleBoxes /\ <<ClusterAssign>> \in IdleBoxes
        /\ <<StartRound(r)>> \in AskedBoxes(r) /\ <<StartRound(r), ClusterAssign>> \in AskedBoxes(r)
    BY DEF IdleBoxes, AskedBoxes
  <2>4. Post(<<>>, ClusterAssign) = <<ClusterAssign>>
    BY PostShort
  <2>5. Post(<<StartRound(r)>>, ClusterAssign) = <<StartRound(r), ClusterAssign>>
    BY PostShort
  <2>6. CASE clientBox[c] = <<>>
    BY <2>2, <2>3, <2>4, <2>6, BoxHolds
  <2>7. CASE clientBox[c] = <<StartRound(r)>>
    BY <2>2, <2>3, <2>5, <2>7, BoxHolds
  <2> QED BY <2>1, <2>6, <2>7
<1>6. AskedOnes' = AskedOnes
  BY <1>5, SameAsked
<1>7. Left' = Left
  BY <1>2, <1>6 DEF Left, Answer, Measuring
<1> QED BY <1>2, <1>4, <1>7 DEF NearerTheEnd

\* Every step of the training brings its end nearer: rounds are bounded, and
\* within a round the steps, each of which takes a message, are.  So no schedule
\* of the actors, fair or not, makes the training run for ever.
THEOREM EveryStepIsNearerTheEnd == Spec => []Counted /\ [][NearerTheEnd]_flVars
<1>1. LoopInv /\ LoopInv' /\ [Next]_flVars => [NearerTheEnd]_flVars
  <2> SUFFICES ASSUME LoopInv, LoopInv', [Next]_flVars, ~UNCHANGED flVars PROVE NearerTheEnd
    OBVIOUS
  <2>1. Advances \/ Moves \/ AggLocalUpdate
    BY Steps
  <2> QED BY <2>1, CoordinatorIsNearer, MonitorIsNearer, AggregatorIsNearer, ClientIsNearer,
             ManagerIsNearer DEF Moves
<1> QED BY <1>1, LoopInvariance, LeftIsCounted, PTL DEF Spec

\* Where there are validation samples, training that is not over has a step to
\* take: some actor has a message that it can handle.
THEOREM TrainingIsNeverStuck == Spec => [](mon.validation /\ ~doneCh => CanStep)
<1> DEFINE Going == mon.validation /\ ~doneCh => CanStep
<1>1. LoopInv => Going
  <2> SUFFICES ASSUME LoopInv, mon.validation, ~doneCh, ~CanStep PROVE FALSE
    OBVIOUS
  <2>1. coord.up
    BY IsUp
  <2>2. ASSUME coordBox # <<>> PROVE FALSE
    <3>1. Head(coordBox).type \in {"StartFederatedLearning", "AggregationResult", "MetricsReport"}
      BY <2>2 DEF LoopInv, Starting, Training, Averaged, Reported, Measured, Over,
             StartFL, AggregationResult, MetricsReport
    <3> QED BY <2>1, <2>2, <3>1 DEF CanStep, CoordTakes
  <2>3. ASSUME monBox # <<>> PROVE FALSE
    <3>1. Head(monBox).type \in {"SetGlobalModel", "RoundComplete"}
      BY <2>3 DEF LoopInv, Starting, Training, Averaged, Reported, Measured, Over,
             SetGlobalModel, RoundComplete
    <3> QED BY <2>3, <3>1 DEF CanStep, MonTakes
  <2>4. Training
    <3>1. ~Starting
      <4>1. ASSUME NEW m PROVE <<m>> # <<>>
        OBVIOUS
      <4> QED BY <2>2, <4>1 DEF Starting
    <3>2. ~Averaged /\ ~Measured
      BY <2>2 DEF Averaged, Measured
    <3>3. ~Reported
      BY <2>3 DEF Reported
    <3>4. ~Over
      BY DEF Over
    <3> QED BY <3>1, <3>2, <3>3, <3>4 DEF LoopInv
  <2>5. aggBox = <<>>
    <3>1. aggBox # <<>> => Head(aggBox) \in [type : {"LocalUpdate"}, client : Clients, round : Rounds]
      BY <2>4, HeadTailProperties DEF Training
    <3> QED BY <3>1 DEF CanStep, AggTakes
  <2>6. PICK c \in Clients : c \notin ClientsOf(agg.updates)
    <3>1. agg.updates \in Seq(Updates)
      BY DEF LoopInv, Common, Aggregators
    <3>2. \A u \in Updates : u.client \in Clients
      BY DEF Updates
    <3>3. ClientsOf(agg.updates) \subseteq Clients
      BY <2>4, <3>1, <3>2, ListLength DEF Training
    <3> QED BY <2>4, <3>3 DEF Training
  <2>7. c \notin ClientsOf(aggBox)
    BY <2>5 DEF ClientsOf
  <2>8. clientBox[c] \in AskedBoxes(coord.round)
    BY <2>4, <2>6, <2>7 DEF Training
  <2>9. clientBox[c] # <<>> /\ Head(clientBox[c]).type \in {"StartRound", "ClusterAssign"}
    BY <2>8 DEF AskedBoxes, StartRound, ClusterAssign
  <2> QED BY <2>9 DEF CanStep, ClientTakes
<1> QED BY <1>1, LoopInvariance, PTL
=============================================================================
