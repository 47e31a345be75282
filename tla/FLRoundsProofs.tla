--------------------------- MODULE FLRoundsProofs ---------------------------
(***************************************************************************)
(* Proof that the distributed training of FLRemote keeps the promise of    *)
(* the local one as long as no fault has happened, for any number of       *)
(* clients and of rounds: although calls overtake one another, every       *)
(* average is of one update of each client, rounds do not overlap, and the *)
(* coordinator survives.                                                   *)
(*                                                                         *)
(* The invariant describes the loop by stages, like that of FLLocalProofs. *)
(* What a client has to do in a round is counted wherever it may be, on    *)
(* the wire and in mailboxes, by Work of FLRemoteProofs.                   *)
(***************************************************************************)
EXTENDS FLRemoteProofs
-----------------------------------------------------------------------------
(* The invariant.                                                          *)

\* Each client's work for round k exists once, and no other work; none if k = 0.
WorkIs(k) == \A c \in Clients, r \in Rounds : Work(c, r) = IF r = k THEN 1 ELSE 0

\* the average of one update of round r from every client
Full(r) == [p \in Clients \X Rounds |-> IF p[2] = r THEN 1 ELSE 0]

\* what the monitor has logged when rounds 1 to k are measured
LogUpTo(k) == {[round |-> r, of |-> Full(r)] : r \in 1..k}

\* no client has failed, given up or been removed
AllUp ==
  /\ coord.up
  /\ \A c \in Clients : up[c] /\ (joining[c] = "idle" => tries[c] = 0)
  /\ agg.expected = NumClients /\ \A i \in DOMAIN aggBox : aggBox[i].type # "RemoveClient"
  /\ mon.validation

\* ClusterAssigns of client c that it has not taken yet
AssignCall(c) == [to |-> c, msg |-> ClusterAssign]
Assigns(c) == Copies(wire, AssignCall(c)) + Occ(clientBox[c], ClusterAssign)

\* The cluster manager hands its assignments out once, when all have registered.
AssignsOnce ==
  /\ Len(registered) + Len(cmBox) <= Len(coord.clients)
  /\ \A c \in Clients :
       /\ Assigns(c) <= NumClients
       /\ Len(registered) < NumClients => (Assigns(c) = 0)

\* The coordinator is told its peers, then of one client after the other.
Gathering ==
  /\ coord.round = 0 /\ ~doneCh /\ WorkIs(0) /\ monBox = <<>>
  /\ mon.log = {} /\ coord.model = NoModel /\ mon.model = NoModel
  /\ ~coord.peers => (coord.clients = <<>>)
  /\ \A i \in DOMAIN coordBox : coordBox[i].type \in {"SetPeers", "ClientJoin"}
  /\ IF coord.peers
     THEN peersTold /\ \A i \in DOMAIN coordBox : coordBox[i].type = "ClientJoin"
     ELSE /\ ~peersTold => (coordBox = <<>>)
          /\ peersTold => (coordBox # <<>> /\ coordBox[1] = SetPeers)
          /\ \A i \in DOMAIN coordBox : i # 1 => (coordBox[i].type = "ClientJoin")

\* every client has joined
Joined == coord.peers /\ peersTold /\ ToSet(coord.clients) = Clients

\* a round is open
Open ==
  /\ coord.round \in Rounds /\ ~doneCh /\ WorkIs(coord.round)
  /\ coordBox = <<>> /\ monBox = <<>> /\ mon.log = LogUpTo(coord.round - 1)

\* its result is on its way to the coordinator
Averaged ==
  /\ coord.round \in Rounds /\ ~doneCh /\ WorkIs(0)
  /\ coordBox = <<AggregationResult(coord.round, Full(coord.round))>> /\ monBox = <<>>
  /\ mon.log = LogUpTo(coord.round - 1)

\* the monitor is to be given the model, then to measure it
Reported ==
  /\ coord.round \in Rounds /\ ~doneCh /\ WorkIs(0) /\ coordBox = <<>>
  /\ coord.model = Full(coord.round) /\ mon.log = LogUpTo(coord.round - 1)
  /\ \/ monBox = <<SetGlobalModel(coord.model), RoundComplete(coord.round)>>
     \/ monBox = <<RoundComplete(coord.round)>> /\ mon.model = coord.model

\* its metrics are on their way to the coordinator
Measured ==
  /\ coord.round \in Rounds /\ ~doneCh /\ WorkIs(0) /\ monBox = <<>>
  /\ coord.model = Full(coord.round) /\ mon.log = LogUpTo(coord.round)
  /\ \E b \in BOOLEAN : coordBox = <<MetricsReport(coord.round, b)>>

\* training is over
Over ==
  /\ doneCh /\ WorkIs(0) /\ coordBox = <<>> /\ monBox = <<>> /\ mon.log = LogUpTo(coord.round)
  /\ coord.round > 0 => (coord.model = Full(coord.round))

\* what is served is no model yet or complete averages of rounds begun
ServedFull(n) == {NoModel} \cup {Full(r) : r \in 1..n}

RoundsInv ==
  /\ AllUp /\ AssignsOnce
  /\ coord.model \in ServedFull(coord.round) /\ mon.model \in ServedFull(coord.round)
  /\ \/ Gathering
     \/ Joined /\ (Open \/ Averaged \/ Reported \/ Measured \/ Over)

FaultFreeInv == faults = {} => RoundsInv

-----------------------------------------------------------------------------
(* Lists, and counting in them.                                            *)

\* A list that repeats nothing is no longer than a set that holds its elements,
\* and as long only if it holds them all.
LEMMA NoRepeatLength ==
  ASSUME NEW S, NEW s \in Seq(S), NoRepeat(s), NEW T, IsFiniteSet(T), ToSet(s) \subseteq T
  PROVE  /\ Len(s) \in Nat /\ Len(s) <= Cardinality(T)
         /\ Len(s) >= Cardinality(T) => ToSet(s) = T
<1> DEFINE f == [i \in 1..Len(s) |-> s[i]]
<1>1. Len(s) \in Nat /\ DOMAIN s = 1..Len(s)
  BY LenProperties
<1>2. f \in Bijection(1..Len(s), ToSet(s))
  BY <1>1 DEF NoRepeat, ToSet, Bijection, Injection, Surjection, IsInjective
<1>3. ExistsBijection(1..Len(s), ToSet(s))
  BY <1>2 DEF ExistsBijection
<1>4. IsFiniteSet(1..Len(s)) /\ Cardinality(1..Len(s)) = Len(s)
  BY <1>1, FS_Interval
<1>5. Cardinality(ToSet(s)) = Len(s)
  BY <1>3, <1>4, FS_Bijection
<1>6. /\ Cardinality(ToSet(s)) <= Cardinality(T) /\ Cardinality(T) \in Nat
      /\ Cardinality(ToSet(s)) = Cardinality(T) => ToSet(s) = T
  BY FS_Subset, FS_CardinalityType
<1> QED BY <1>1, <1>5, <1>6

\* What a list holds at most once each is not repeated by it.
LEMMA OccursOnce ==
  ASSUME NEW S, NEW s \in Seq(S), \A i \in DOMAIN s : Occ(s, s[i]) <= 1
  PROVE  NoRepeat(s)
<1> SUFFICES ASSUME NEW i \in DOMAIN s, NEW j \in DOMAIN s, s[i] = s[j] PROVE i = j
  BY DEF NoRepeat
<1> DEFINE I == Occurrences(s, s[i])
<1>1. IsFiniteSet(I) /\ i \in I /\ j \in I
  BY OccFacts DEF Occurrences
<1>2. Cardinality(I) <= 1
  BY DEF Occ
<1> HIDE DEF I
<1>3. ASSUME i # j PROVE FALSE
  <2>1. {i, j} \subseteq I
    BY <1>1
  <2>2. Cardinality({i, j}) = 2
    <3>1. {i, j} = {i} \cup {j} /\ j \notin {i} /\ IsFiniteSet({i}) /\ Cardinality({i}) = 1
      BY <1>3, FS_Singleton
    <3>2. Cardinality({i} \cup {j}) = Cardinality({i}) + 1
      BY <3>1, FS_AddElement
    <3>3. Cardinality({i} \cup {j}) = 2
      BY <3>1, <3>2
    <3> QED BY <3>1, <3>3, Zenon
  <2>3. Cardinality({i, j}) <= Cardinality(I) /\ Cardinality(I) \in Nat
    BY <1>1, <2>1, FS_Subset, FS_CardinalityType
  <2> QED BY <1>2, <2>2, <2>3
<1> QED BY <1>3

\* A list of nothing but x holds x as often as it is long.
LEMMA OccAll ==
  ASSUME NEW S, NEW s \in Seq(S), NEW x, \A i \in DOMAIN s : s[i] = x
  PROVE  Occ(s, x) = Len(s)
<1>1. Occurrences(s, x) = 1..Len(s) /\ Len(s) \in Nat
  BY LenProperties DEF Occurrences
<1> QED BY <1>1, FS_Interval DEF Occ

\* What a list holds is counted.
LEMMA OccIn ==
  ASSUME NEW S, NEW s \in Seq(S), NEW i \in DOMAIN s
  PROVE  Occ(s, s[i]) \in Nat /\ Occ(s, s[i]) >= 1
<1>1. Occ(s, s[i]) \in Nat /\ Occ(s, s[i]) # 0
  BY OccFacts
<1> QED BY <1>1

\* No list holds anything more often than it is long.
LEMMA OccLength ==
  ASSUME NEW S, NEW s \in Seq(S), NEW x
  PROVE  Occ(s, x) <= Len(s)
<1>1. Len(s) \in Nat /\ DOMAIN s = 1..Len(s)
  BY LenProperties
<1>2. Occurrences(s, x) \subseteq 1..Len(s)
  BY <1>1 DEF Occurrences
<1>3. IsFiniteSet(1..Len(s)) /\ Cardinality(1..Len(s)) = Len(s)
  BY <1>1, FS_Interval
<1> QED BY <1>2, <1>3, FS_Subset DEF Occ

\* A mailbox with room takes the message.
LEMMA OccPostRoom ==
  ASSUME NEW S, NEW s \in Seq(S), NEW y \in S, NEW x, Len(s) < MailboxCap
  PROVE  Occ(Post(s, y), x) = Occ(s, x) + (IF x = y THEN 1 ELSE 0)
BY OccAppend DEF Post

\* The number of clients, and the room there is in a mailbox.
LEMMA Sizes ==
  /\ NumClients \in Nat \ {0} /\ MailboxCap \in Nat /\ NumClients < MailboxCap
  /\ IsFiniteSet(Clients) /\ TotalRounds \in Nat /\ MaxTries \in Nat \ {0}
BY ActorsAssumption, RemoteAssumption, ClientsCounted DEF NumClients

\* How often a message to the clients of a list is on the wire then: once more,
\* if it is sent to each client once, and never more often than the list is long.
LEMMA CopiesSentTo ==
  ASSUME IsABag(wire), NEW cs \in Seq(Clients), NEW m, SendToClients(cs, m), NEW c \in Clients
  PROVE  LET x == [to |-> c, msg |-> m] IN
         /\ Copies(wire', x) \in Nat /\ Copies(wire', x) <= Copies(wire, x) + Len(cs)
         /\ (NoRepeat(cs) /\ ToSet(cs) = Clients) => (Copies(wire', x) = Copies(wire, x) + 1)
<1> DEFINE x == [to |-> c, msg |-> m]
           Env(d) == [to |-> d, msg |-> m]
           Sent(e) == {i \in DOMAIN cs : Env(cs[i]) = e}
           D == {Env(d) : d \in ToSet(cs)}
           A == [e \in D |-> Cardinality(Sent(e))]
           C == wire (+) A
<1>1. wire' = C
  BY RemoteAssumption DEF SendToClients
<1>2. DOMAIN cs = 1..Len(cs) /\ Len(cs) \in Nat /\ \A i \in DOMAIN cs : cs[i] \in Clients
  BY LenProperties, ElementOfSeq
<1>3. \A e \in DOMAIN wire : wire[e] \in Nat
  BY DEF IsABag
<1>4. C = [d \in (DOMAIN wire) \cup (DOMAIN A) |->
             (IF d \in DOMAIN wire THEN wire[d] ELSE 0) + (IF d \in DOMAIN A THEN A[d] ELSE 0)]
  BY DEF (+)
<1>5. DOMAIN A = D /\ \A d \in D : A[d] = Cardinality(Sent(d))
  OBVIOUS
<1> HIDE DEF A
<1>6. /\ DOMAIN C = (DOMAIN wire) \cup D
      /\ \A d \in DOMAIN C :
           C[d] = (IF d \in DOMAIN wire THEN wire[d] ELSE 0) + (IF d \in D THEN A[d] ELSE 0)
  BY <1>4, <1>5
<1> HIDE DEF C
<1>7. Sent(x) = Occurrences(cs, c)
  BY DEF Occurrences
<1>8. x \in D <=> c \in ToSet(cs)
  OBVIOUS
<1>9. Occ(cs, c) \in Nat /\ Occ(cs, c) <= Len(cs)
  BY OccFacts, OccLength
<1>10. x \in D => (A[x] = Occ(cs, c))
  BY <1>5, <1>7 DEF Occ
<1> HIDE DEF D, x, Sent, Env
<1>11. Copies(wire', x) \in Nat /\ Copies(wire', x) <= Copies(wire, x) + Len(cs)
  BY <1>1, <1>2, <1>3, <1>6, <1>9, <1>10 DEF Copies
<1>12. ASSUME NoRepeat(cs), ToSet(cs) = Clients PROVE Copies(wire', x) = Copies(wire, x) + 1
  <2>1. PICK i \in DOMAIN cs : cs[i] = c
    BY <1>12 DEF ToSet
  <2>2. Occurrences(cs, c) = {i}
    BY <1>12, <2>1 DEF Occurrences, NoRepeat
  <2>3. Occ(cs, c) = 1
    BY <2>2, FS_Singleton DEF Occ
  <2>4. x \in D
    BY <1>8, <1>12
  <2> QED BY <1>1, <1>3, <1>6, <1>10, <2>3, <2>4 DEF Copies
<1> QED BY <1>11, <1>12 DEF x

-----------------------------------------------------------------------------
\* Work that is done is nowhere, and work that exists once is in one place.
LEMMA WorkParts ==
  ASSUME WorkCounts, NEW c \in Clients, NEW r \in Rounds
  PROVE  /\ Work(c, r) \in Nat
         /\ (Asked(c, r) # 0 \/ Queued(c, r) # 0 \/ Held(c, r) # 0) => Work(c, r) >= 1
         /\ Work(c, r) = 0 => (Asked(c, r) = 0 /\ Waiting(c, r) = 0 /\ Answered(c, r) = 0
                                 /\ Queued(c, r) = 0 /\ Held(c, r) = 0)
         /\ Work(c, r) = 1 =>
              /\ Asked(c, r) # 0 => (Waiting(c, r) = 0)
              /\ Queued(c, r) # 0 => (Queued(c, r) = 1 /\ Asked(c, r) = 0 /\ Waiting(c, r) = 0
                                        /\ Answered(c, r) = 0 /\ Held(c, r) = 0)
              /\ Held(c, r) # 0 => (Held(c, r) = 1 /\ Asked(c, r) = 0 /\ Waiting(c, r) = 0
                                        /\ Answered(c, r) = 0 /\ Queued(c, r) = 0)
<1>1. PICK a, b, d, e, f :
        a = Asked(c, r) /\ b = Waiting(c, r) /\ d = Answered(c, r) /\ e = Queued(c, r) /\ f = Held(c, r)
  OBVIOUS
<1>2. a \in Nat /\ b \in Nat /\ d \in Nat /\ e \in Nat /\ f \in Nat
  BY <1>1 DEF WorkCounts
<1>3. Work(c, r) = a + b + d + e + f
  BY <1>1 DEF Work
<1>4. PICK w : w = a + b + d + e + f
  OBVIOUS
<1>5. /\ w \in Nat
      /\ (a # 0 \/ e # 0 \/ f # 0) => w >= 1
      /\ w = 0 => (a = 0 /\ b = 0 /\ d = 0 /\ e = 0 /\ f = 0)
      /\ w = 1 => /\ a # 0 => (b = 0)
                  /\ e # 0 => (e = 1 /\ a = 0 /\ b = 0 /\ d = 0 /\ f = 0)
                  /\ f # 0 => (f = 1 /\ a = 0 /\ b = 0 /\ d = 0 /\ e = 0)
  BY <1>2, <1>4
<1> QED BY <1>1, <1>3, <1>4, <1>5, Zenon

-----------------------------------------------------------------------------
(* Steps that only move work from one place to the next.                   *)

SameWork == \A c \in Clients, r \in Rounds : Work(c, r)' = Work(c, r)

\* what the stages of a round look at, besides the work
stageVars == <<coord, doneCh, coordBox, monBox, mon, peersTold>>

\* the stage, whichever it is
Stage == Gathering \/ (Joined /\ (Open \/ Averaged \/ Reported \/ Measured \/ Over))
Serves == coord.model \in ServedFull(coord.round) /\ mon.model \in ServedFull(coord.round)

\* Work that moves changes no stage.
LEMMA StageStays == Stage /\ Serves /\ SameWork /\ UNCHANGED stageVars => Stage' /\ Serves'
<1> SUFFICES ASSUME Stage, Serves, SameWork, UNCHANGED stageVars PROVE Stage' /\ Serves'
  OBVIOUS
<1>1. UNCHANGED <<coord, doneCh, coordBox, monBox, mon, peersTold>>
  BY DEF stageVars
<1>2. \A k : WorkIs(k) => WorkIs(k)'
  BY DEF WorkIs, SameWork
<1>3. PICK k : k = coord.round
  OBVIOUS
<1>4. WorkIs(k) => WorkIs(k)'
  BY <1>2
<1>5. WorkIs(0) => WorkIs(0)'
  BY <1>2
<1>6. Serves'
  BY <1>1 DEF Serves, ServedFull, Full, NoModel
<1>7. ASSUME WorkIs(k) PROVE WorkIs(coord.round)'
  <2>1. coord'.round = k
    BY <1>1, <1>3
  <2>2. \A c \in Clients, r \in Rounds : Work(c, r)' = IF r = k THEN 1 ELSE 0
    BY <1>4, <1>7 DEF WorkIs
  <2> QED BY <2>1, <2>2 DEF WorkIs
<1>8. Joined => Joined'
  BY <1>1 DEF Joined
<1>9. Gathering => Gathering'
  BY <1>1, <1>5 DEF Gathering, NoModel, SetPeers
<1>10. Open => Open'
  BY <1>1, <1>3, <1>7 DEF Open, LogUpTo, Full
<1>11. Averaged => Averaged'
  BY <1>1, <1>5 DEF Averaged, LogUpTo, Full, AggregationResult
<1>12. Reported => Reported'
  BY <1>1, <1>5 DEF Reported, LogUpTo, Full, SetGlobalModel, RoundComplete
<1>13. Measured => Measured'
  BY <1>1, <1>5 DEF Measured, LogUpTo, Full, MetricsReport
<1>14. Over => Over'
  BY <1>1, <1>5 DEF Over, LogUpTo, Full
<1> QED BY <1>6, <1>8, <1>9, <1>10, <1>11, <1>12, <1>13, <1>14 DEF Stage

\* The invariant by its parts.
LEMMA PartsOfInv == RoundsInv <=> AllUp /\ AssignsOnce /\ Serves /\ Stage
BY DEF RoundsInv, Serves, Stage

\* The work is that of one round or none.
LEMMA WorkOfOne == Stage => \E k : WorkIs(k)
BY DEF Stage, Gathering, Open, Averaged, Reported, Measured, Over

\* The numbers of assignments are numbers, ...
AssignCounts == \A c \in Clients : /\ Copies(wire, AssignCall(c)) \in Nat
                                   /\ Occ(clientBox[c], ClusterAssign) \in Nat
LEMMA AssignsAreCounted == DataInv => AssignCounts
<1> SUFFICES ASSUME DataInv, NEW c \in Clients
             PROVE  /\ Copies(wire, AssignCall(c)) \in Nat
                    /\ Occ(clientBox[c], ClusterAssign) \in Nat
  BY DEF AssignCounts
<1>1. IsABag(wire) /\ clientBox[c] \in Seq(ClientMsgs(coord.round))
  BY DEF DataInv, DataOK, BoxesOK, WireOK, ClientBoxOK
<1> QED BY <1>1, CopiesFacts, OccFacts

\* ... in the next state too.
LEMMA AssignsAreCountedNext == DataInv' => AssignCounts'
BY AssignsAreCounted, PTL

\* Assignments that are taken or not touched.
LEMMA AssignsStay ==
  ASSUME AssignsOnce, \A c \in Clients : Assigns(c)' \in Nat /\ Assigns(c)' <= Assigns(c),
         \A c \in Clients : Assigns(c) \in Nat,
         UNCHANGED <<registered, cmBox>>,
         coord'.clients = coord.clients
  PROVE  AssignsOnce'
<1>1. NumClients \in Nat
  BY Sizes
<1>2. Len(registered') + Len(cmBox') <= Len(coord'.clients)
  BY DEF AssignsOnce
<1>3. ASSUME NEW c \in Clients
      PROVE  Assigns(c)' <= NumClients /\ (Len(registered') < NumClients => Assigns(c)' = 0)
  BY <1>1 DEF AssignsOnce
<1> QED BY <1>2, <1>3 DEF AssignsOnce

\* A client's step: what it was asked becomes its answer.
LEMMA ClientMoves ==
  ASSUME DataInv, DataInv', RoundsInv, NEW d \in Clients, Client(d), UNCHANGED envVars
  PROVE  RoundsInv'
<1> DEFINE n == coord.round
           m == Head(clientBox[d])
           e == Answer(d, m.round)
<1>1. /\ IsABag(wire) /\ WorkCounts /\ WorkCounts' /\ AssignCounts /\ AssignCounts'
      /\ clientBox \in [Clients -> Seq(ClientMsgs(n))]
  BY WorkIsCounted, WorkIsCountedNext, AssignsAreCounted, AssignsAreCountedNext
  DEF DataInv, DataOK, BoxesOK, WireOK, ClientBoxOK
<1>2. /\ clientBox[d] # <<>> /\ clientBox' = [clientBox EXCEPT ![d] = Tail(@)]
      /\ \/ m.type = "StartRound" /\ wire' = wire (+) SetToBag({e})
         \/ m.type = "ClusterAssign" /\ UNCHANGED wire
      /\ UNCHANGED <<coord, doneCh, agg, mon, registered, coordBox, aggBox, monBox, cmBox>>
  BY RemoteAssumption DEF Client, ClientStartRound, ClientClusterAssign, ClientTakes,
     actorVars, Answer
<1>3. clientBox[d] \in Seq(ClientMsgs(n))
  BY <1>1
<1>4. m \in ClientMsgs(n) /\ Tail(clientBox[d]) \in Seq(ClientMsgs(n))
  BY <1>2, <1>3, TakeFromSeq
<1>5. ASSUME NEW c \in Clients, NEW x
      PROVE  Occ(clientBox[c], x) = Occ(clientBox'[c], x) + (IF c = d /\ m = x THEN 1 ELSE 0)
  <2>1. CASE c = d
    <3>1. clientBox'[c] = Tail(clientBox[d])
      BY <1>1, <1>2, <2>1
    <3>2. Occ(clientBox[d], x) = Occ(Tail(clientBox[d]), x) + (IF x = m THEN 1 ELSE 0)
      BY <1>2, <1>3, OccTail
    <3> QED BY <2>1, <3>1, <3>2
  <2>2. CASE c # d
    <3>1. clientBox'[c] = clientBox[c] /\ clientBox[c] \in Seq(ClientMsgs(n))
      BY <1>1, <1>2, <2>2
    <3>2. Occ(clientBox[c], x) \in Nat
      BY <3>1, OccFacts
    <3> QED BY <2>2, <3>1, <3>2
  <2> QED BY <2>1, <2>2
<1>6. \/ m.type = "StartRound"
         /\ \A x : Copies(wire', x) = Copies(wire, x) + (IF x = e THEN 1 ELSE 0)
      \/ m.type = "ClusterAssign" /\ \A x : Copies(wire', x) = Copies(wire, x)
  <2>1. \A x : Copies(wire (+) SetToBag({e}), x) = Copies(wire, x) + (IF x = e THEN 1 ELSE 0)
    BY <1>1, CopiesAdd
  <2> QED BY <1>2, <2>1
<1>7. SameWork
  <2> SUFFICES ASSUME NEW c \in Clients, NEW r \in Rounds PROVE Work(c, r)' = Work(c, r)
    BY DEF SameWork
  <2>1. /\ Queued(c, r)' = Queued(c, r) /\ Held(c, r)' = Held(c, r)
        /\ Asked(c, r)' = Copies(wire', Ask(c, r)) /\ Answered(c, r)' = Copies(wire', Answer(c, r))
        /\ Waiting(c, r)' = Occ(clientBox'[c], StartRound(r))
    BY <1>2 DEF Queued, Held, Asked, Answered, Waiting, Ask, Answer, StartRound, LocalUpdate, Update
  <2>2. Waiting(c, r) = Waiting(c, r)' + (IF c = d /\ m = StartRound(r) THEN 1 ELSE 0)
    BY <1>5, <2>1 DEF Waiting
  <2>3. /\ Asked(c, r) \in Nat /\ Waiting(c, r) \in Nat /\ Answered(c, r) \in Nat
        /\ Queued(c, r) \in Nat /\ Held(c, r) \in Nat
        /\ Asked(c, r)' \in Nat /\ Waiting(c, r)' \in Nat /\ Answered(c, r)' \in Nat
    BY <1>1 DEF WorkCounts
  <2>4. Ask(c, r) # e
    BY RemoteAssumption DEF Ask, Answer
  <2>5. Asked(c, r)' = Asked(c, r)
    BY <1>6, <2>1, <2>3, <2>4 DEF Asked
  <2>6. Answered(c, r)' = Answered(c, r) + (IF c = d /\ m = StartRound(r) THEN 1 ELSE 0)
    <3>1. m.type = "StartRound" => (Answer(c, r) = e <=> (c = d /\ m = StartRound(r)))
      BY <1>4 DEF Answer, LocalUpdate, StartRound, ClientMsgs
    <3>2. m.type = "ClusterAssign" => (m # StartRound(r))
      BY DEF StartRound
    <3> QED BY <1>6, <2>1, <2>3, <3>1, <3>2 DEF Answered
  <2> QED BY <2>1, <2>2, <2>3, <2>5, <2>6 DEF Work
<1>8. ASSUME NEW c \in Clients PROVE Assigns(c)' \in Nat /\ Assigns(c)' <= Assigns(c) /\ Assigns(c) \in Nat
  <2>1. AssignCall(c) # e
    BY RemoteAssumption DEF AssignCall, Answer
  <2>2. /\ Copies(wire, AssignCall(c)) \in Nat /\ Occ(clientBox[c], ClusterAssign) \in Nat
        /\ Copies(wire', AssignCall(c)) \in Nat /\ Occ(clientBox'[c], ClusterAssign) \in Nat
    BY <1>1 DEF AssignCounts, AssignCall, ClusterAssign
  <2>3. Copies(wire', AssignCall(c)) = Copies(wire, AssignCall(c))
    BY <1>6, <2>1, <2>2
  <2>4. Occ(clientBox'[c], ClusterAssign) <= Occ(clientBox[c], ClusterAssign)
    <3>1. Occ(clientBox[c], ClusterAssign)
            = Occ(clientBox'[c], ClusterAssign) + (IF c = d /\ m = ClusterAssign THEN 1 ELSE 0)
      BY <1>5
    <3> QED BY <2>2, <3>1
  <2>5. Assigns(c)' = Copies(wire', AssignCall(c)) + Occ(clientBox'[c], ClusterAssign)
    BY DEF Assigns, AssignCall, ClusterAssign
  <2> QED BY <2>2, <2>3, <2>4, <2>5 DEF Assigns
<1>9. AssignsOnce'
  <2>1. coord'.clients = coord.clients
    BY <1>2
  <2> QED BY <1>2, <1>8, <2>1, AssignsStay DEF RoundsInv
<1>10. AllUp'
  BY <1>2 DEF RoundsInv, AllUp, envVars
<1>11. Stage' /\ Serves'
  <2>1. UNCHANGED stageVars
    BY <1>2 DEF stageVars, envVars
  <2> QED BY <1>7, <2>1, StageStays, PartsOfInv
<1>12. RoundsInv' <=> AllUp' /\ AssignsOnce' /\ Serves' /\ Stage'
  BY PartsOfInv, PTL
<1> QED BY <1>9, <1>10, <1>11, <1>12

\* Work when only the wire has changed, and no work on it.
LEMMA WorkOnWire ==
  ASSUME DataInv, DataInv', UNCHANGED <<clientBox, aggBox, agg>>,
         \A c \in Clients, r \in Rounds :
           /\ Copies(wire', Ask(c, r)) = Copies(wire, Ask(c, r))
           /\ Copies(wire', Answer(c, r)) = Copies(wire, Answer(c, r))
  PROVE  SameWork
<1> SUFFICES ASSUME NEW c \in Clients, NEW r \in Rounds PROVE Work(c, r)' = Work(c, r)
  BY DEF SameWork
<1>1. /\ Waiting(c, r)' = Waiting(c, r) /\ Queued(c, r)' = Queued(c, r) /\ Held(c, r)' = Held(c, r)
      /\ Asked(c, r)' = Asked(c, r) /\ Answered(c, r)' = Answered(c, r)
  BY DEF Waiting, Queued, Held, Asked, Answered, Ask, Answer, StartRound, LocalUpdate, Update
<1> QED BY <1>1 DEF Work

\* The coordinator lists no more clients than there are.
LEMMA ClientsListed ==
  ASSUME DataInv, JoinOnce
  PROVE  /\ Len(coord.clients) \in Nat /\ Len(coord.clients) <= NumClients
         /\ Len(coord.clients) >= NumClients => ToSet(coord.clients) = Clients
<1>1. coord.clients \in Seq(Clients) /\ NoRepeat(coord.clients) /\ IsFiniteSet(Clients)
  BY Sizes DEF DataInv, CoordOK, CoordRecord, JoinOnce
<1>2. ToSet(coord.clients) \subseteq Clients
  BY <1>1, LenProperties, ElementOfSeq DEF ToSet
<1> QED BY <1>1, <1>2, NoRepeatLength DEF NumClients

\* The cluster manager's step: with the last registration the assignments are sent.
LEMMA ClusterManagerMoves ==
  ASSUME DataInv, DataInv', JoinOnce, RoundsInv, CMRegisterClient, UNCHANGED envVars
  PROVE  RoundsInv'
<1> DEFINE n == coord.round
           cs == Append(registered, Head(cmBox))
<1>1. /\ IsABag(wire) /\ AssignCounts /\ AssignCounts'
      /\ registered \in Seq(Clients) /\ cmBox \in Seq(Clients)
      /\ clientBox \in [Clients -> Seq(ClientMsgs(n))] /\ NumClients \in Nat
  BY AssignsAreCounted, AssignsAreCountedNext, Sizes
  DEF DataInv, DataOK, BoxesOK, WireOK, ClientBoxOK, RegisteringOK
<1>2. /\ cmBox # <<>> /\ cmBox' = Tail(cmBox) /\ registered' = cs
      /\ IF Len(cs) >= NumClients THEN SendToClients(cs, ClusterAssign) ELSE UNCHANGED <<clientBox, wire>>
      /\ UNCHANGED <<coord, doneCh, agg, mon, coordBox, aggBox, monBox>>
  BY DEF CMRegisterClient
<1>3. /\ cs \in Seq(Clients) /\ Len(cs) = Len(registered) + 1 /\ Len(registered) \in Nat
      /\ Len(cmBox') = Len(cmBox) - 1 /\ Len(cmBox) \in Nat \ {0}
  <2>1. Head(cmBox) \in Clients /\ Len(Tail(cmBox)) = Len(cmBox) - 1 /\ Len(cmBox) \in Nat \ {0}
    BY <1>1, <1>2, HeadTailProperties, LenProperties, EmptySeq
  <2> QED BY <1>1, <1>2, <2>1, AppendProperties, LenProperties
<1>4. /\ Len(registered) + Len(cmBox) <= Len(coord.clients)
      /\ Len(coord.clients) \in Nat /\ Len(coord.clients) <= NumClients
  BY ClientsListed DEF RoundsInv, AssignsOnce
<1> HIDE DEF cs
<1>5. UNCHANGED clientBox
  BY <1>2, RemoteAssumption DEF SendToClients
<1>6. SameWork
  <2>1. ASSUME NEW c \in Clients, NEW r \in Rounds
        PROVE  /\ Copies(wire', Ask(c, r)) = Copies(wire, Ask(c, r))
               /\ Copies(wire', Answer(c, r)) = Copies(wire, Answer(c, r))
    <3>1. /\ ~\E b \in Clients : Ask(c, r) = [to |-> b, msg |-> ClusterAssign]
          /\ ~\E b \in Clients : Answer(c, r) = [to |-> b, msg |-> ClusterAssign]
      BY DEF Ask, Answer, StartRound, LocalUpdate, ClusterAssign
    <3>2. CASE SendToClients(cs, ClusterAssign)
      BY <1>1, <1>3, <3>1, <3>2, CopiesSent
    <3>3. CASE UNCHANGED wire
      BY <3>3
    <3> QED BY <1>2, <3>2, <3>3
  <2> QED BY <1>2, <1>5, <2>1, WorkOnWire
<1>7. ASSUME NEW c \in Clients
      PROVE  Assigns(c)' <= NumClients /\ (Len(registered') < NumClients => Assigns(c)' = 0)
  <2>1. /\ Copies(wire, AssignCall(c)) \in Nat /\ Occ(clientBox[c], ClusterAssign) \in Nat
        /\ Assigns(c) = Copies(wire, AssignCall(c)) + Occ(clientBox[c], ClusterAssign)
        /\ Assigns(c)' = Copies(wire', AssignCall(c)) + Occ(clientBox[c], ClusterAssign)
    BY <1>1, <1>5 DEF AssignCounts, Assigns, AssignCall, ClusterAssign
  <2>2. Assigns(c) = 0
    <3>1. Len(cmBox) \in Nat /\ Len(cmBox) >= 1 /\ Len(registered) \in Nat
      BY <1>3
    <3>2. Len(registered) < NumClients
      BY <1>1, <1>4, <3>1
    <3> QED BY <3>2 DEF RoundsInv, AssignsOnce
  <2>3. CASE Len(cs) >= NumClients
    <3>1. SendToClients(cs, ClusterAssign)
      BY <1>2, <2>3
    <3>2. Copies(wire', AssignCall(c)) \in Nat /\ Copies(wire', AssignCall(c)) <= Copies(wire, AssignCall(c)) + Len(cs)
      BY <1>1, <1>3, <3>1, CopiesSentTo DEF AssignCall
    <3> QED BY <1>1, <1>2, <1>3, <1>4, <2>1, <2>2, <2>3, <3>2
  <2>4. CASE ~(Len(cs) >= NumClients)
    <3>1. wire' = wire
      BY <1>2, <2>4
    <3> QED BY <1>1, <2>1, <2>2, <3>1
  <2> QED BY <2>3, <2>4
<1>8. AssignsOnce'
  <2>1. coord' = coord
    BY <1>2
  <2>2. Len(registered') + Len(cmBox') <= Len(coord'.clients)
    BY <1>2, <1>3, <1>4, <2>1
  <2> QED BY <1>7, <2>2 DEF AssignsOnce
<1>9. AllUp'
  BY <1>2 DEF RoundsInv, AllUp, envVars
<1>10. Stage' /\ Serves'
  <2>1. UNCHANGED stageVars
    BY <1>2 DEF stageVars, envVars
  <2> QED BY <1>6, <2>1, StageStays, PartsOfInv
<1>11. RoundsInv' <=> AllUp' /\ AssignsOnce' /\ Serves' /\ Stage'
  BY PartsOfInv, PTL
<1> QED BY <1>8, <1>9, <1>10, <1>11

\* The aggregator's mailbox holds at most one update of each client.
LEMMA UpdatesQueued ==
  ASSUME DataInv, AllUp, NEW k, WorkIs(k)
  PROVE  /\ Len(aggBox) \in Nat /\ Len(aggBox) <= NumClients
         /\ \A i \in DOMAIN aggBox :
              \E c \in Clients : aggBox[i] = LocalUpdate(c, k) /\ k \in Rounds
<1> DEFINE n == coord.round
           T == {LocalUpdate(c, k) : c \in Clients}
<1>1. aggBox \in Seq(AggMsgs(n)) /\ WorkCounts /\ n \in 0..TotalRounds /\ TotalRounds \in Nat
  BY WorkIsCounted, Sizes DEF DataInv, DataOK, BoxesOK, AggBoxOK, CoordOK, CoordRecord
<1>2. ASSUME NEW i \in DOMAIN aggBox
      PROVE  \E c \in Clients : aggBox[i] = LocalUpdate(c, k) /\ k \in Rounds /\ Occ(aggBox, aggBox[i]) <= 1
  <2>1. aggBox[i] \in AggMsgs(n) /\ aggBox[i].type # "RemoveClient"
    BY <1>1, LenProperties, ElementOfSeq DEF AllUp
  <2>2. PICK c \in Clients, r \in 1..n : aggBox[i] = LocalUpdate(c, r)
    BY <2>1 DEF AggMsgs, LocalUpdate
  <2>3. r \in Rounds
    BY <1>1 DEF Rounds
  <2>4. Occ(aggBox, aggBox[i]) \in Nat /\ Occ(aggBox, aggBox[i]) >= 1
    BY <1>1, OccIn
  <2>5. Queued(c, r) >= 1
    BY <2>2, <2>4 DEF Queued
  <2>6. Work(c, r) >= Queued(c, r) /\ Queued(c, r) \in Nat
    BY <1>1, <2>3 DEF Work, WorkCounts
  <2>7. Work(c, r) = IF r = k THEN 1 ELSE 0
    BY <2>3 DEF WorkIs
  <2>8. r = k /\ Queued(c, r) <= 1
    BY <2>5, <2>6, <2>7
  <2> QED BY <2>2, <2>3, <2>8 DEF Queued
<1>3. NoRepeat(aggBox)
  BY <1>1, <1>2, OccursOnce
<1>4. ToSet(aggBox) \subseteq T
  BY <1>2 DEF ToSet
<1>5. IsFiniteSet(T) /\ Cardinality(T) <= NumClients /\ Cardinality(T) \in Nat
  <2>1. IsFiniteSet(Clients)
    BY Sizes
  <2> DEFINE f == [c \in Clients |-> LocalUpdate(c, k)]
  <2>2. f \in Surjection(Clients, T)
    BY DEF Surjection
  <2>3. IsFiniteSet(T) /\ Cardinality(T) <= Cardinality(Clients)
    BY <2>1, <2>2, FS_Surjection
  <2> QED BY <2>3, FS_CardinalityType DEF NumClients
<1>6. Len(aggBox) \in Nat /\ Len(aggBox) <= Cardinality(T)
  BY <1>1, <1>3, <1>4, <1>5, NoRepeatLength
<1>7. Len(aggBox) <= NumClients
  BY <1>5, <1>6, Sizes
<1> QED BY <1>2, <1>6, <1>7

\* The clients have room for the message that begins a round.
LEMMA RoomToStart ==
  ASSUME DataInv, RoundsInv, NEW c \in Clients, \A r \in Rounds : Waiting(c, r) = 0
  PROVE  Len(clientBox[c]) < MailboxCap
<1> DEFINE n == coord.round
           box == clientBox[c]
<1>1. box \in Seq(ClientMsgs(n)) /\ n \in 0..TotalRounds /\ AssignCounts
  BY AssignsAreCounted DEF DataInv, DataOK, BoxesOK, ClientBoxOK, CoordOK, CoordRecord
<1>2. ASSUME NEW i \in DOMAIN box PROVE box[i] = ClusterAssign
  <2>1. box[i] \in ClientMsgs(n)
    BY <1>1, LenProperties, ElementOfSeq
  <2>2. ASSUME NEW r \in 1..n, box[i] = StartRound(r) PROVE FALSE
    <3>1. r \in Rounds
      BY <1>1, Sizes DEF Rounds
    <3>2. Occ(box, StartRound(r)) = 0
      BY <3>1 DEF Waiting
    <3>3. Occ(box, StartRound(r)) >= 1
      BY <1>1, <2>2, OccIn
    <3> QED BY <3>2, <3>3
  <2> QED BY <2>1, <2>2 DEF ClientMsgs, StartRound, ClusterAssign
<1>3. Occ(box, ClusterAssign) = Len(box)
  BY <1>1, <1>2, OccAll
<1>4. Occ(box, ClusterAssign) <= Assigns(c) /\ Assigns(c) <= NumClients /\ Assigns(c) \in Nat
  BY <1>1 DEF AssignCounts, Assigns, RoundsInv, AssignsOnce
<1>5. Len(box) \in Nat
  BY <1>1, LenProperties
<1> QED BY <1>3, <1>4, <1>5, Sizes

\* An update arrives: there is room for it in the aggregator's mailbox.
LEMMA UpdateArrives ==
  ASSUME DataInv, DataInv', RoundsInv, NEW e \in DOMAIN wire, DeliverUpdate(e)
  PROVE  RoundsInv'
<1> DEFINE n == coord.round
<1>1. /\ IsABag(wire) /\ DOMAIN wire \subseteq CallsUpTo(n) /\ aggBox \in Seq(AggMsgs(n))
      /\ WorkCounts /\ WorkCounts' /\ AssignCounts /\ AssignCounts'
      /\ AllUp /\ AssignsOnce /\ Stage /\ Serves
  BY WorkIsCounted, WorkIsCountedNext, AssignsAreCounted, AssignsAreCountedNext, PartsOfInv
  DEF DataInv, DataOK, BoxesOK, WireOK, AggBoxOK
<1>2. /\ wire' = wire (-) SetToBag({e}) /\ aggBox' = Post(aggBox, e.msg) /\ e.to = "aggregator"
      /\ UNCHANGED <<coord, doneCh, agg, mon, registered, coordBox, monBox, cmBox, clientBox, envVars>>
  BY DEF DeliverUpdate, actorVars
<1>3. PICK d \in Clients, s \in 1..n : e = Answer(d, s)
  <2>1. e \in UpdateCalls(n)
    BY <1>1, <1>2, RemoteAssumption DEF CallsUpTo, JoinCalls, ClientCalls
  <2> QED BY <2>1 DEF UpdateCalls, Answer, LocalUpdate
<1>4. e.msg = LocalUpdate(d, s) /\ e.msg \in AggMsgs(n)
  BY <1>3 DEF Answer, LocalUpdate, AggMsgs
<1>5. Len(aggBox) < MailboxCap
  <2>1. PICK k : WorkIs(k)
    BY <1>1, WorkOfOne
  <2>2. Len(aggBox) \in Nat /\ Len(aggBox) <= NumClients
    BY <1>1, <2>1, UpdatesQueued
  <2> QED BY <2>2, Sizes
<1>6. \A x : Occ(aggBox', x) = Occ(aggBox, x) + (IF x = LocalUpdate(d, s) THEN 1 ELSE 0)
  <2> TAKE x
  <2>1. Occ(Post(aggBox, e.msg), x) = Occ(aggBox, x) + (IF x = e.msg THEN 1 ELSE 0)
    BY <1>1, <1>4, <1>5, OccPostRoom
  <2> QED BY <1>2, <1>4, <2>1
<1>7. \A x : Copies(wire', x) = Copies(wire, x) - (IF x = e THEN 1 ELSE 0)
  BY <1>1, <1>2, CopiesTake
<1>8. SameWork
  <2> SUFFICES ASSUME NEW c \in Clients, NEW r \in Rounds PROVE Work(c, r)' = Work(c, r)
    BY DEF SameWork
  <2>1. /\ Waiting(c, r)' = Waiting(c, r) /\ Held(c, r)' = Held(c, r)
        /\ Asked(c, r)' = Copies(wire', Ask(c, r)) /\ Answered(c, r)' = Copies(wire', Answer(c, r))
        /\ Queued(c, r)' = Occ(aggBox', LocalUpdate(c, r))
    BY <1>2 DEF Queued, Held, Asked, Answered, Waiting, Ask, Answer, StartRound, LocalUpdate, Update
  <2>2. /\ Asked(c, r) \in Nat /\ Waiting(c, r) \in Nat /\ Answered(c, r) \in Nat
        /\ Queued(c, r) \in Nat /\ Held(c, r) \in Nat
        /\ Answered(c, r)' \in Nat /\ Queued(c, r)' \in Nat
    BY <1>1 DEF WorkCounts
  <2>3. Ask(c, r) # e /\ (Answer(c, r) = e <=> (c = d /\ r = s))
        /\ (LocalUpdate(c, r) = LocalUpdate(d, s) <=> (c = d /\ r = s))
    BY <1>3, RemoteAssumption DEF Ask, Answer, LocalUpdate
  <2>4. Asked(c, r)' = Asked(c, r)
    BY <1>7, <2>1, <2>2, <2>3 DEF Asked
  <2>5. Answered(c, r)' = Answered(c, r) - (IF c = d /\ r = s THEN 1 ELSE 0)
    BY <1>7, <2>1, <2>2, <2>3 DEF Answered
  <2>6. Queued(c, r)' = Queued(c, r) + (IF c = d /\ r = s THEN 1 ELSE 0)
    BY <1>6, <2>1, <2>2, <2>3 DEF Queued
  <2> QED BY <2>1, <2>2, <2>4, <2>5, <2>6 DEF Work
<1>9. ASSUME NEW c \in Clients PROVE Assigns(c)' \in Nat /\ Assigns(c)' <= Assigns(c) /\ Assigns(c) \in Nat
  <2>1. AssignCall(c) # e
    BY <1>2, RemoteAssumption DEF AssignCall
  <2>2. /\ Copies(wire, AssignCall(c)) \in Nat /\ Occ(clientBox[c], ClusterAssign) \in Nat
    BY <1>1 DEF AssignCounts
  <2>3. Copies(wire', AssignCall(c)) = Copies(wire, AssignCall(c))
    BY <1>7, <2>1, <2>2
  <2>4. Assigns(c)' = Copies(wire', AssignCall(c)) + Occ(clientBox[c], ClusterAssign)
    BY <1>2 DEF Assigns, AssignCall, ClusterAssign
  <2> QED BY <2>2, <2>3, <2>4 DEF Assigns
<1>10. AssignsOnce'
  <2>1. coord'.clients = coord.clients
    BY <1>2
  <2> QED BY <1>1, <1>2, <1>9, <2>1, AssignsStay
<1>11. AllUp'
  <2>1. \A i \in DOMAIN aggBox' : aggBox'[i].type # "RemoveClient"
    <3>1. aggBox' = Append(aggBox, e.msg) /\ e.msg.type # "RemoveClient"
      BY <1>2, <1>4, <1>5 DEF Post, LocalUpdate
    <3>2. DOMAIN aggBox = 1..Len(aggBox) /\ Len(aggBox) \in Nat
      BY <1>1, LenProperties
    <3>3. /\ DOMAIN aggBox' = 1..(Len(aggBox) + 1)
          /\ \A i \in 1..Len(aggBox) : aggBox'[i] = aggBox[i]
          /\ aggBox'[Len(aggBox) + 1] = e.msg
      BY <1>1, <1>4, <3>1, <3>2, AppendProperties, LenProperties
    <3>4. \A i \in 1..(Len(aggBox) + 1) : i \in 1..Len(aggBox) \/ i = Len(aggBox) + 1
      BY <3>2
    <3> QED BY <1>1, <3>1, <3>2, <3>3, <3>4 DEF AllUp
  <2> QED BY <1>1, <1>2, <2>1 DEF AllUp, envVars
<1>12. Stage' /\ Serves'
  <2>1. UNCHANGED stageVars
    BY <1>2 DEF stageVars, envVars
  <2> QED BY <1>1, <1>8, <2>1, StageStays
<1>13. RoundsInv' <=> AllUp' /\ AssignsOnce' /\ Serves' /\ Stage'
  BY PartsOfInv, PTL
<1> QED BY <1>10, <1>11, <1>12, <1>13

\* A message arrives at a client: if it begins a round, there is room for it.
LEMMA MessageArrives ==
  ASSUME DataInv, DataInv', RoundsInv, NEW e \in DOMAIN wire, DeliverToClient(e)
  PROVE  RoundsInv'
<1> DEFINE n == coord.round
           d == e.to
           m == e.msg
<1>1. /\ IsABag(wire) /\ DOMAIN wire \subseteq CallsUpTo(n) /\ clientBox \in [Clients -> Seq(ClientMsgs(n))]
      /\ WorkCounts /\ WorkCounts' /\ AssignCounts /\ AssignCounts'
      /\ AllUp /\ AssignsOnce /\ Stage /\ Serves /\ n \in 0..TotalRounds /\ TotalRounds \in Nat
  BY WorkIsCounted, WorkIsCountedNext, AssignsAreCounted, AssignsAreCountedNext, PartsOfInv, Sizes
  DEF DataInv, DataOK, BoxesOK, WireOK, ClientBoxOK, CoordOK, CoordRecord
<1>2. d \in Clients /\ up[d]
  BY <1>1 DEF DeliverToClient, AllUp
<1>3. /\ wire' = wire (-) SetToBag({e}) /\ clientBox' = [clientBox EXCEPT ![d] = Post(@, m)]
      /\ UNCHANGED <<coord, doneCh, agg, mon, registered, coordBox, aggBox, monBox, cmBox, envVars>>
  BY <1>2 DEF DeliverToClient, actorVars
<1>4. e = [to |-> d, msg |-> m] /\ m \in ClientMsgs(n)
  <2>1. e \in ClientCalls(n)
    BY <1>1, <1>2, RemoteAssumption DEF CallsUpTo, JoinCalls, UpdateCalls
  <2> QED BY <2>1 DEF ClientCalls
<1>5. \A x : Copies(wire', x) = Copies(wire, x) - (IF x = e THEN 1 ELSE 0)
  BY <1>1, <1>3, CopiesTake
<1>6. clientBox'[d] = Post(clientBox[d], m) /\ clientBox[d] \in Seq(ClientMsgs(n))
      /\ \A c \in Clients : c # d => clientBox'[c] = clientBox[c]
  BY <1>1, <1>2, <1>3
<1>7. \A x : /\ Occ(clientBox'[d], x) <= Occ(clientBox[d], x) + (IF x = m THEN 1 ELSE 0)
             /\ x # m => (Occ(clientBox'[d], x) = Occ(clientBox[d], x))
  BY <1>4, <1>6, OccPost
<1>8. \A r \in Rounds : m = StartRound(r) =>
        Occ(clientBox'[d], m) = Occ(clientBox[d], m) + 1
  <2> SUFFICES ASSUME NEW r \in Rounds, m = StartRound(r)
               PROVE  Occ(clientBox'[d], m) = Occ(clientBox[d], m) + 1
    OBVIOUS
  <2>1. PICK k : WorkIs(k)
    BY <1>1, WorkOfOne
  <2>2. Asked(d, r) # 0
    <3>1. e = Ask(d, r)
      BY <1>4 DEF Ask
    <3> QED BY <1>1, <3>1, CopiesFacts DEF Asked
  <2>3. ASSUME NEW s \in Rounds PROVE Waiting(d, s) = 0
    <3>1. Work(d, r) = (IF r = k THEN 1 ELSE 0) /\ Work(d, s) = (IF s = k THEN 1 ELSE 0)
      BY <1>2, <2>1 DEF WorkIs
    <3>2. Work(d, r) >= 1 /\ (Work(d, r) = 1 => Waiting(d, r) = 0)
      BY <1>1, <1>2, <2>2, WorkParts
    <3>3. r = k
      BY <3>1, <3>2
    <3>4. Work(d, s) = 0 => Waiting(d, s) = 0
      BY <1>1, <1>2, WorkParts
    <3> QED BY <3>1, <3>2, <3>3, <3>4
  <2>4. Len(clientBox[d]) < MailboxCap
    BY <1>2, <2>3, RoomToStart
  <2>5. Occ(Post(clientBox[d], m), m) = Occ(clientBox[d], m) + (IF m = m THEN 1 ELSE 0)
    BY <1>4, <1>6, <2>4, OccPostRoom
  <2> QED BY <1>6, <2>5
<1> HIDE DEF d, m
<1>9. SameWork
  <2> SUFFICES ASSUME NEW c \in Clients, NEW r \in Rounds PROVE Work(c, r)' = Work(c, r)
    BY DEF SameWork
  <2>1. /\ Queued(c, r)' = Queued(c, r) /\ Held(c, r)' = Held(c, r)
        /\ Asked(c, r)' = Copies(wire', Ask(c, r)) /\ Answered(c, r)' = Copies(wire', Answer(c, r))
        /\ Waiting(c, r)' = Occ(clientBox'[c], StartRound(r))
    BY <1>3 DEF Queued, Held, Asked, Answered, Waiting, Ask, Answer, StartRound, LocalUpdate, Update
  <2>2. /\ Asked(c, r) \in Nat /\ Waiting(c, r) \in Nat /\ Answered(c, r) \in Nat
        /\ Queued(c, r) \in Nat /\ Held(c, r) \in Nat
        /\ Asked(c, r)' \in Nat /\ Waiting(c, r)' \in Nat /\ Answered(c, r)' \in Nat
    BY <1>1 DEF WorkCounts
  <2>3. Answer(c, r) # e /\ (Ask(c, r) = e <=> (c = d /\ m = StartRound(r)))
    BY <1>2, <1>4, RemoteAssumption DEF Ask, Answer
  <2>4. Answered(c, r)' = Answered(c, r)
    BY <1>5, <2>1, <2>2, <2>3 DEF Answered
  <2>5. Asked(c, r)' = Asked(c, r) - (IF c = d /\ m = StartRound(r) THEN 1 ELSE 0)
    BY <1>5, <2>1, <2>2, <2>3 DEF Asked
  <2>6. Waiting(c, r)' = Waiting(c, r) + (IF c = d /\ m = StartRound(r) THEN 1 ELSE 0)
    <3>1. CASE c = d /\ m = StartRound(r)
      <4>1. Occ(clientBox'[d], m) = Occ(clientBox[d], m) + 1
        BY <1>8, <3>1
      <4>2. Waiting(c, r)' = Occ(clientBox'[d], m) /\ Waiting(c, r) = Occ(clientBox[d], m)
        BY <2>1, <3>1 DEF Waiting
      <4> QED BY <2>2, <3>1, <4>1, <4>2
    <3>2. CASE c = d /\ m # StartRound(r)
      <4>1. Occ(clientBox'[d], StartRound(r)) = Occ(clientBox[d], StartRound(r))
        BY <1>7, <3>2
      <4>2. Waiting(c, r)' = Waiting(c, r)
        BY <2>1, <3>2, <4>1 DEF Waiting
      <4> QED BY <2>2, <3>2, <4>2
    <3>3. CASE c # d
      <4>1. Waiting(c, r)' = Waiting(c, r)
        BY <1>6, <2>1, <3>3 DEF Waiting
      <4> QED BY <2>2, <3>3, <4>1
    <3> QED BY <3>1, <3>2, <3>3
  <2> QED BY <2>1, <2>2, <2>4, <2>5, <2>6 DEF Work
<1>10. ASSUME NEW c \in Clients PROVE Assigns(c)' \in Nat /\ Assigns(c)' <= Assigns(c) /\ Assigns(c) \in Nat
  <2>1. AssignCall(c) = e <=> (c = d /\ m = ClusterAssign)
    BY <1>4 DEF AssignCall
  <2>2. /\ Copies(wire, AssignCall(c)) \in Nat /\ Occ(clientBox[c], ClusterAssign) \in Nat
        /\ Copies(wire', AssignCall(c)) \in Nat /\ Occ(clientBox'[c], ClusterAssign) \in Nat
    BY <1>1 DEF AssignCounts, AssignCall, ClusterAssign
  <2>3. Copies(wire', AssignCall(c))
          = Copies(wire, AssignCall(c)) - (IF c = d /\ m = ClusterAssign THEN 1 ELSE 0)
    BY <1>5, <2>1
  <2>4. Occ(clientBox'[c], ClusterAssign)
          <= Occ(clientBox[c], ClusterAssign) + (IF c = d /\ m = ClusterAssign THEN 1 ELSE 0)
    <3>1. CASE c = d
      BY <1>7, <3>1
    <3>2. CASE c # d
      BY <1>6, <2>2, <3>2
    <3> QED BY <3>1, <3>2
  <2>5. /\ Assigns(c)' = Copies(wire', AssignCall(c)) + Occ(clientBox'[c], ClusterAssign)
        /\ Assigns(c) = Copies(wire, AssignCall(c)) + Occ(clientBox[c], ClusterAssign)
    BY DEF Assigns, AssignCall, ClusterAssign
  <2> QED BY <2>2, <2>3, <2>4, <2>5
<1>11. AssignsOnce'
  <2>1. coord'.clients = coord.clients
    BY <1>3
  <2> QED BY <1>1, <1>3, <1>10, <2>1, AssignsStay
<1>12. AllUp'
  BY <1>1, <1>3 DEF AllUp, envVars
<1>13. Stage' /\ Serves'
  <2>1. UNCHANGED stageVars
    BY <1>3 DEF stageVars, envVars
  <2> QED BY <1>1, <1>9, <2>1, StageStays
<1>14. RoundsInv' <=> AllUp' /\ AssignsOnce' /\ Serves' /\ Stage'
  BY PartsOfInv, PTL
<1> QED BY <1>11, <1>12, <1>13, <1>14

\* The clients' updates of round k.
LEMMA UpdatesOf ==
  ASSUME NEW k
  PROVE  LET T == {Update(c, k) : c \in Clients} IN
         IsFiniteSet(T) /\ Cardinality(T) <= NumClients /\ Cardinality(T) \in Nat
<1> DEFINE T == {Update(c, k) : c \in Clients}
           f == [c \in Clients |-> Update(c, k)]
<1>1. IsFiniteSet(Clients)
  BY Sizes
<1>2. f \in Surjection(Clients, T)
  BY DEF Surjection
<1>3. IsFiniteSet(T) /\ Cardinality(T) <= Cardinality(Clients)
  BY <1>1, <1>2, FS_Surjection
<1> QED BY <1>3, FS_CardinalityType DEF NumClients

\* A list of round k's updates, none twice, that is as long as there are clients
\* averages one of each.
LEMMA AverageOfAll ==
  ASSUME NEW n, NEW us \in Seq(UpdatesUpTo(n)), NEW k,
         Len(us) >= NumClients,
         \A c \in Clients, r \in Rounds : Occ(us, Update(c, r)) <= IF r = k THEN 1 ELSE 0,
         \A i \in DOMAIN us : \E c \in Clients : us[i] = Update(c, k), k \in Rounds
  PROVE  /\ FedAvg(us) = Full(k)
         /\ \A c \in Clients, r \in Rounds : Occ(us, Update(c, r)) = IF r = k THEN 1 ELSE 0
<1> DEFINE T == {Update(c, k) : c \in Clients}
<1>1. NoRepeat(us)
  <2>1. \A i \in DOMAIN us : Occ(us, us[i]) <= 1
    <3> TAKE i \in DOMAIN us
    <3>1. PICK c \in Clients : us[i] = Update(c, k)
      OBVIOUS
    <3>2. Occ(us, Update(c, k)) <= IF k = k THEN 1 ELSE 0
      OBVIOUS
    <3> QED BY <3>1, <3>2
  <2> QED BY <2>1, OccursOnce
<1>2. ToSet(us) \subseteq T
  BY DEF ToSet
<1>3. IsFiniteSet(T) /\ Cardinality(T) <= NumClients /\ Cardinality(T) \in Nat
  BY UpdatesOf
<1> HIDE DEF T
<1>4. ToSet(us) = T
  <2>1. Len(us) \in Nat /\ (Len(us) >= Cardinality(T) => ToSet(us) = T)
    BY <1>1, <1>2, <1>3, NoRepeatLength
  <2>2. Len(us) >= Cardinality(T)
    BY <1>3, <2>1, Sizes
  <2> QED BY <2>1, <2>2
<1>5. ASSUME NEW c \in Clients, NEW r \in Rounds
      PROVE  Occ(us, Update(c, r)) = IF r = k THEN 1 ELSE 0
  <2>1. Occ(us, Update(c, r)) \in Nat /\ Occ(us, Update(c, r)) <= IF r = k THEN 1 ELSE 0
    BY OccFacts
  <2>2. CASE r = k
    <3>1. Update(c, r) \in ToSet(us)
      BY <1>4, <2>2 DEF T
    <3>2. PICK i \in DOMAIN us : us[i] = Update(c, r)
      BY <3>1 DEF ToSet
    <3>3. Occ(us, Update(c, r)) >= 1
      BY <3>2, OccIn
    <3> QED BY <2>1, <2>2, <3>3
  <2>3. CASE r # k
    BY <2>1, <2>3
  <2> QED BY <2>2, <2>3
<1>6. FedAvg(us) = [p \in Clients \X Rounds |-> Occ(us, Update(p[1], p[2]))]
  BY DEF FedAvg, Occ, Occurrences
<1>7. \A p \in Clients \X Rounds : p[1] \in Clients /\ p[2] \in Rounds
  OBVIOUS
<1>8. FedAvg(us) = Full(k)
  BY <1>5, <1>6, <1>7 DEF Full
<1> QED BY <1>5, <1>8

\* What the aggregator takes is an update of the round that is open, and so are
\* those it has collected.
Collected == \A i \in DOMAIN agg.updates : \E c \in Clients : agg.updates[i] = Update(c, coord.round)
Takes(d) ==
  /\ Joined /\ Open /\ Head(aggBox) = LocalUpdate(d, coord.round) /\ Queued(d, coord.round) # 0
  /\ Collected /\ Kept(coord.round) = agg.updates

\* So it is as long as no fault has happened.
LEMMA AggregatorTakes ==
  ASSUME DataInv, RoundsInv, aggBox # <<>>
  PROVE  \E d \in Clients : Takes(d)
<1> DEFINE n == coord.round
           m == Head(aggBox)
<1>1. /\ aggBox \in Seq(AggMsgs(n)) /\ WorkCounts /\ AllUp /\ Stage
      /\ agg \in [expected : 1..NumClients, round : 0..n, updates : Seq(UpdatesUpTo(n))]
      /\ \A i \in DOMAIN agg.updates : agg.updates[i].round = agg.round
      /\ n \in 0..TotalRounds /\ TotalRounds \in Nat
  BY WorkIsCounted, PartsOfInv, Sizes
  DEF DataInv, DataOK, BoxesOK, AggBoxOK, AggOK, CoordOK, CoordRecord
<1>3. PICK k : WorkIs(k)
  BY <1>1, WorkOfOne
<1>4. 1 \in DOMAIN aggBox /\ aggBox[1] = m
  BY <1>1, HeadTailProperties, LenProperties, EmptySeq
<1>5. PICK d \in Clients : m = LocalUpdate(d, k) /\ k \in Rounds
  BY <1>1, <1>3, <1>4, UpdatesQueued
<1>6. Joined /\ Open /\ k = n
  <2>1. ~WorkIs(0)
    BY <1>3, <1>5 DEF WorkIs, Rounds
  <2>2. Joined /\ Open
    BY <1>1, <2>1 DEF Stage, Gathering, Averaged, Reported, Measured, Over
  <2>3. Work(d, k) = (IF k = k THEN 1 ELSE 0) /\ Work(d, k) = (IF k = n THEN 1 ELSE 0)
    BY <1>3, <1>5, <2>2 DEF Open, WorkIs
  <2> QED BY <2>2, <2>3
<1>7. Queued(d, n) # 0
  BY <1>1, <1>4, <1>5, <1>6, OccFacts DEF Queued
<1>8. Collected
  <2> SUFFICES ASSUME NEW i \in DOMAIN agg.updates PROVE \E c \in Clients : agg.updates[i] = Update(c, n)
    BY DEF Collected
  <2>1. agg.updates[i] \in UpdatesUpTo(n)
    BY <1>1, LenProperties, ElementOfSeq
  <2>2. PICK c \in Clients, r \in 1..n : agg.updates[i] = Update(c, r)
    BY <2>1 DEF UpdatesUpTo, Update
  <2>3. r \in Rounds
    BY <1>1 DEF Rounds
  <2>4. Held(c, r) \in Nat /\ Held(c, r) >= 1
    BY <1>1, <2>2, OccIn DEF Held
  <2>5. Work(c, r) >= 1
    BY <1>1, <2>3, <2>4, WorkParts
  <2>6. Work(c, r) = IF r = n THEN 1 ELSE 0
    BY <1>3, <1>6, <2>3 DEF WorkIs
  <2>7. r = n
    BY <2>5, <2>6
  <2> QED BY <2>2, <2>7
<1>9. Kept(n) = agg.updates
  <2>1. CASE agg.updates = <<>>
    BY <2>1 DEF Kept
  <2>2. CASE agg.updates # <<>>
    <3>1. 1 \in DOMAIN agg.updates
      BY <1>1, <2>2, LenProperties, EmptySeq
    <3>2. agg.updates[1].round = agg.round /\ agg.updates[1].round = n
      BY <1>1, <1>8, <3>1 DEF Update, Collected
    <3> QED BY <3>2 DEF Kept
  <2> QED BY <2>1, <2>2
<1> QED BY <1>5, <1>6, <1>7, <1>8, <1>9 DEF Takes

\* An update is taken by the aggregator: with the last one of the round its
\* list holds one of each client, and the average is on its way.
LEMMA AggregatorMoves ==
  ASSUME DataInv, DataInv', RoundsInv, Aggregator, UNCHANGED envVars
  PROVE  RoundsInv'
<1> DEFINE n == coord.round
           m == Head(aggBox)
           us == Append(agg.updates, Update(m.client, m.round))
<1>1. /\ aggBox \in Seq(AggMsgs(n)) /\ WorkCounts /\ WorkCounts' /\ AssignCounts
      /\ AllUp /\ AssignsOnce /\ Stage /\ Serves
      /\ agg \in [expected : 1..NumClients, round : 0..n, updates : Seq(UpdatesUpTo(n))]
      /\ n \in 0..TotalRounds /\ TotalRounds \in Nat
  BY WorkIsCounted, WorkIsCountedNext, AssignsAreCounted, PartsOfInv, Sizes
  DEF DataInv, DataOK, BoxesOK, AggBoxOK, AggOK, CoordOK, CoordRecord
<1>2. /\ aggBox # <<>> /\ aggBox' = Tail(aggBox)
      /\ UNCHANGED <<coord, doneCh, mon, registered, monBox, cmBox, clientBox, wire>>
  BY DEF Aggregator, AggLocalUpdate, AggRemoveClient, AggTakes
<1>5. PICK d \in Clients : Takes(d)
  BY <1>2, AggregatorTakes
<1>6. Joined /\ Open /\ m = LocalUpdate(d, n) /\ WorkIs(n) /\ n \in Rounds
  BY <1>5 DEF Takes, Open
<1>7. m.client = d /\ m.round = n /\ m.type = "LocalUpdate"
  BY <1>6 DEF LocalUpdate
<1>8. \A i \in DOMAIN agg.updates : \E c \in Clients : agg.updates[i] = Update(c, n)
  BY <1>5 DEF Takes, Collected
<1>9. Kept(n) = agg.updates
  BY <1>5 DEF Takes
<1>10. AggLocalUpdate
  BY <1>7 DEF Aggregator, AggRemoveClient, AggTakes
<1>11. us = Append(agg.updates, Update(d, n)) /\ us \in Seq(UpdatesUpTo(n))
  <2>1. Update(d, n) \in UpdatesUpTo(n)
    BY <1>6 DEF Update, UpdatesUpTo, Rounds
  <2> QED BY <1>1, <1>7, <2>1, AppendProperties
<1> DEFINE a == [agg EXCEPT !.round = n, !.updates = us]
<1>12. Settle(a)
  BY <1>7, <1>9, <1>10 DEF AggLocalUpdate
<1>13. /\ a.updates = us /\ a.expected = NumClients /\ a.round = n /\ agg.expected = NumClients
       /\ \E R, S : a \in [expected : 1..NumClients, round : R, updates : S]
  <2>1. a \in [expected : 1..NumClients, round : {n}, updates : {us}]
    BY <1>1
  <2> QED BY <1>1, <2>1 DEF AllUp
<1>14. ASSUME NEW c \in Clients, NEW r \in Rounds
       PROVE  /\ Queued(c, r) = Queued(c, r)' + (IF c = d /\ r = n THEN 1 ELSE 0)
              /\ Occ(us, Update(c, r)) = Held(c, r) + (IF c = d /\ r = n THEN 1 ELSE 0)
              /\ Asked(c, r)' = Asked(c, r) /\ Waiting(c, r)' = Waiting(c, r)
              /\ Answered(c, r)' = Answered(c, r)
  <2>1. Occ(aggBox, LocalUpdate(c, r))
          = Occ(Tail(aggBox), LocalUpdate(c, r)) + (IF LocalUpdate(c, r) = m THEN 1 ELSE 0)
    BY <1>1, <1>2, OccTail
  <2>2. LocalUpdate(c, r) = m <=> (c = d /\ r = n)
    BY <1>6 DEF LocalUpdate
  <2>3. Occ(us, Update(c, r)) = Occ(agg.updates, Update(c, r)) + (IF Update(c, r) = Update(d, n) THEN 1 ELSE 0)
    <3>1. Update(d, n) \in UpdatesUpTo(n)
      BY <1>6 DEF Update, UpdatesUpTo, Rounds
    <3> QED BY <1>1, <1>11, <3>1, OccAppend
  <2>4. Update(c, r) = Update(d, n) <=> (c = d /\ r = n)
    BY DEF Update
  <2>5. /\ Queued(c, r)' = Occ(aggBox', LocalUpdate(c, r)) /\ Queued(c, r) = Occ(aggBox, LocalUpdate(c, r))
        /\ Held(c, r) = Occ(agg.updates, Update(c, r))
        /\ Asked(c, r)' = Asked(c, r) /\ Waiting(c, r)' = Waiting(c, r)
        /\ Answered(c, r)' = Answered(c, r)
    BY <1>2 DEF Queued, Held, Asked, Waiting, Answered, Ask, Answer, StartRound, LocalUpdate, Update
  <2>6. Queued(c, r) = Queued(c, r)' + (IF c = d /\ r = n THEN 1 ELSE 0)
    BY <1>2, <2>1, <2>2, <2>5
  <2>7. Occ(us, Update(c, r)) = Held(c, r) + (IF c = d /\ r = n THEN 1 ELSE 0)
    BY <2>3, <2>4, <2>5
  <2> QED BY <2>5, <2>6, <2>7
<1> HIDE DEF us, m, a
<1>15. AllUp' /\ AssignsOnce'
  <2>1. \A i \in DOMAIN aggBox' : aggBox'[i].type # "RemoveClient"
    <3>1. Len(aggBox) \in Nat /\ DOMAIN aggBox = 1..Len(aggBox) /\ Len(aggBox) # 0
      BY <1>1, <1>2, LenProperties, EmptySeq
    <3>2. DOMAIN aggBox' = 1..(Len(aggBox) - 1) /\ \A i \in 1..(Len(aggBox) - 1) : aggBox'[i] = aggBox[i + 1]
      BY <1>1, <1>2, <3>1, HeadTailProperties, LenProperties
    <3>3. \A i \in 1..(Len(aggBox) - 1) : i + 1 \in 1..Len(aggBox)
      BY <3>1
    <3> QED BY <1>1, <3>1, <3>2, <3>3 DEF AllUp
  <2>2. agg'.expected = agg.expected
    BY <1>12, <1>13 DEF Settle
  <2>3. AllUp'
    BY <1>1, <1>2, <2>1, <2>2 DEF AllUp, envVars
  <2>4. ASSUME NEW c \in Clients PROVE Assigns(c)' = Assigns(c) /\ Assigns(c) \in Nat
    <3>1. Copies(wire, AssignCall(c)) \in Nat /\ Occ(clientBox[c], ClusterAssign) \in Nat
      BY <1>1 DEF AssignCounts
    <3>2. Assigns(c)' = Copies(wire, AssignCall(c)) + Occ(clientBox[c], ClusterAssign)
      BY <1>2 DEF Assigns, AssignCall, ClusterAssign
    <3> QED BY <3>1, <3>2 DEF Assigns
  <2>5. \A c \in Clients : Assigns(c)' <= Assigns(c) /\ Assigns(c)' \in Nat /\ Assigns(c) \in Nat
    BY <2>4
  <2>6. coord'.clients = coord.clients
    BY <1>2
  <2> QED BY <1>1, <1>2, <2>3, <2>5, <2>6, AssignsStay
<1>16. ASSUME ~Enough(a) PROVE Stage' /\ Serves'
  <2>1. agg' = a /\ UNCHANGED coordBox
    BY <1>12, <1>16 DEF Settle
  <2>2. SameWork
    <3> SUFFICES ASSUME NEW c \in Clients, NEW r \in Rounds PROVE Work(c, r)' = Work(c, r)
      BY DEF SameWork
    <3>1. Held(c, r)' = Occ(us, Update(c, r))
      BY <1>13, <2>1 DEF Held, Update
    <3>2. /\ Asked(c, r) \in Nat /\ Waiting(c, r) \in Nat /\ Answered(c, r) \in Nat
          /\ Queued(c, r) \in Nat /\ Held(c, r) \in Nat /\ Queued(c, r)' \in Nat /\ Held(c, r)' \in Nat
      BY <1>1 DEF WorkCounts
    <3> QED BY <1>14, <3>1, <3>2 DEF Work
  <2>3. UNCHANGED stageVars
    BY <1>2, <2>1 DEF stageVars, envVars
  <2> QED BY <1>1, <2>2, <2>3, StageStays
<1>17. ASSUME Enough(a) PROVE Stage' /\ Serves'
  <2>1. coordBox' = Post(coordBox, AggregationResult(n, FedAvg(us))) /\ agg'.updates = <<>>
    BY <1>12, <1>13, <1>17 DEF Settle
  <2>2. coordBox' = <<AggregationResult(n, FedAvg(us))>>
    BY <1>6, <2>1, Sizes DEF Open, Post
  <2>3. Len(us) >= NumClients
    BY <1>13, <1>17 DEF Enough
  <2>4. \A c \in Clients, r \in Rounds : Occ(us, Update(c, r)) <= IF r = n THEN 1 ELSE 0
    <3> TAKE c \in Clients, r \in Rounds
    <3>1. /\ Asked(c, r) \in Nat /\ Waiting(c, r) \in Nat /\ Answered(c, r) \in Nat
          /\ Queued(c, r) \in Nat /\ Held(c, r) \in Nat /\ Queued(c, r)' \in Nat
      BY <1>1 DEF WorkCounts
    <3>2. Work(c, r) = IF r = n THEN 1 ELSE 0
      BY <1>6 DEF WorkIs
    <3>3. Occ(us, Update(c, r)) <= Work(c, r)
      BY <1>14, <3>1 DEF Work
    <3> QED BY <3>2, <3>3
  <2>5. \A i \in DOMAIN us : \E c \in Clients : us[i] = Update(c, n)
    <3>1. Len(agg.updates) \in Nat /\ DOMAIN agg.updates = 1..Len(agg.updates)
      BY <1>1, LenProperties
    <3>2. /\ DOMAIN us = 1..(Len(agg.updates) + 1)
          /\ \A i \in 1..Len(agg.updates) : us[i] = agg.updates[i]
          /\ us[Len(agg.updates) + 1] = Update(d, n)
      <4>1. Update(d, n) \in UpdatesUpTo(n)
        BY <1>6 DEF Update, UpdatesUpTo, Rounds
      <4> QED BY <1>1, <1>11, <3>1, <4>1, AppendProperties, LenProperties
    <3>3. \A i \in 1..(Len(agg.updates) + 1) : i \in 1..Len(agg.updates) \/ i = Len(agg.updates) + 1
      BY <3>1
    <3> QED BY <1>8, <3>1, <3>2, <3>3
  <2>6. /\ FedAvg(us) = Full(n)
        /\ \A c \in Clients, r \in Rounds : Occ(us, Update(c, r)) = IF r = n THEN 1 ELSE 0
    <3>1. us \in Seq(UpdatesUpTo(n)) /\ n \in Rounds
      BY <1>6, <1>11
    <3> HIDE DEF n
    <3> QED BY <2>3, <2>4, <2>5, <3>1, AverageOfAll
  <2>7. ASSUME NEW c \in Clients, NEW r \in Rounds PROVE Work(c, r)' = 0
    <3>1. /\ Asked(c, r) \in Nat /\ Waiting(c, r) \in Nat /\ Answered(c, r) \in Nat
          /\ Queued(c, r) \in Nat /\ Held(c, r) \in Nat /\ Queued(c, r)' \in Nat
      BY <1>1 DEF WorkCounts
    <3>2. Held(c, r)' = 0
      BY <2>1, OccEmpty DEF Held
    <3>3. Work(c, r) = Occ(us, Update(c, r))
      BY <1>6, <2>6 DEF WorkIs
    <3>4. Work(c, r) = Asked(c, r) + Waiting(c, r) + Answered(c, r) + Queued(c, r) + Held(c, r)
      BY DEF Work
    <3>5. Work(c, r)' = Asked(c, r) + Waiting(c, r) + Answered(c, r) + Queued(c, r)' + 0
      BY <1>14, <3>2 DEF Work
    <3>6. PICK i \in {0, 1} : /\ Queued(c, r) = Queued(c, r)' + i
                            /\ Occ(us, Update(c, r)) = Held(c, r) + i
      <4>1. CASE c = d /\ r = n
        BY <1>14, <4>1
      <4>2. CASE ~(c = d /\ r = n)
        BY <1>14, <4>2
      <4> QED BY <4>1, <4>2
    <3>7. PICK a1, b1, d1, e1, e2, f1, w :
            /\ a1 = Asked(c, r) /\ b1 = Waiting(c, r) /\ d1 = Answered(c, r)
            /\ e1 = Queued(c, r) /\ e2 = Queued(c, r)' /\ f1 = Held(c, r) /\ w = Work(c, r)
      OBVIOUS
    <3>8. /\ a1 \in Nat /\ b1 \in Nat /\ d1 \in Nat /\ e1 \in Nat /\ e2 \in Nat /\ f1 \in Nat
          /\ w = f1 + i /\ e1 = e2 + i /\ w = a1 + b1 + d1 + e1 + f1
      BY <3>1, <3>3, <3>4, <3>6, <3>7
    <3>9. a1 + b1 + d1 + e2 + 0 = 0
      BY <3>8
    <3> QED BY <3>5, <3>7, <3>9
  <2>8. WorkIs(0)'
    BY <2>7, Sizes DEF WorkIs, Rounds
  <2>9. UNCHANGED <<coord, doneCh, mon, monBox, peersTold>>
    BY <1>2 DEF envVars
  <2>10. Serves'
    BY <1>1, <2>9 DEF Serves, ServedFull, Full, NoModel
  <2>11. Joined' /\ Averaged'
    BY <1>6, <2>2, <2>6, <2>8, <2>9 DEF Joined, Open, Averaged, Full, AggregationResult, LogUpTo
  <2> QED BY <2>10, <2>11 DEF Stage
<1>18. RoundsInv' <=> AllUp' /\ AssignsOnce' /\ Serves' /\ Stage'
  BY PartsOfInv, PTL
<1> QED BY <1>15, <1>16, <1>17, <1>18

\* Where no message of a round is touched, the work stays what it is, ...
LEMMA WorkAtRest ==
  ASSUME UNCHANGED <<clientBox, wire, aggBox, agg>>
  PROVE  SameWork
<1> SUFFICES ASSUME NEW c \in Clients, NEW r \in Rounds PROVE Work(c, r)' = Work(c, r)
  BY DEF SameWork
<1>1. /\ Waiting(c, r)' = Waiting(c, r) /\ Queued(c, r)' = Queued(c, r) /\ Held(c, r)' = Held(c, r)
      /\ Asked(c, r)' = Asked(c, r) /\ Answered(c, r)' = Answered(c, r)
  BY DEF Waiting, Queued, Held, Asked, Answered, Ask, Answer, StartRound, LocalUpdate, Update
<1> QED BY <1>1 DEF Work

\* ... of one round or of none, ...
LEMMA RoundAtRest ==
  ASSUME UNCHANGED <<clientBox, wire, aggBox, agg>>, NEW k, WorkIs(k)
  PROVE  \A c \in Clients, r \in Rounds : Work(c, r)' = IF r = k THEN 1 ELSE 0
BY WorkAtRest DEF SameWork, WorkIs

\* ... and so do the cluster manager's assignments.
LEMMA AssignsAtRest ==
  ASSUME AssignsOnce, UNCHANGED <<clientBox, wire, registered>>,
         Len(registered') + Len(cmBox') <= Len(coord'.clients)
  PROVE  AssignsOnce'
<1>1. ASSUME NEW c \in Clients PROVE Assigns(c)' = Assigns(c)
  BY DEF Assigns, AssignCall, ClusterAssign
<1> QED BY <1>1, ClientsCounted DEF AssignsOnce

\* An average of one update of each client is not the model of no update.
LEMMA FullIsModel == \A n \in Rounds : Full(n) # NoModel
<1> SUFFICES ASSUME NEW n \in Rounds PROVE Full(n) # NoModel
  OBVIOUS
<1>1. PICK c : c \in Clients
  BY ActorsAssumption
<1>2. <<c, n>> \in Clients \X Rounds
  BY <1>1
<1>3. Full(n)[<<c, n>>] = 1
  BY <1>2 DEF Full
<1>4. NoModel[<<c, n>>] = 0
  BY <1>2 DEF NoModel
<1> QED BY <1>3, <1>4

\* The monitor is given the average, then measures it.
LEMMA MonitorMoves ==
  ASSUME DataInv, RoundsInv, Monitor, UNCHANGED envVars
  PROVE  RoundsInv'
<1> DEFINE n == coord.round
<1>1. /\ AllUp /\ AssignsOnce /\ Stage /\ Serves /\ NumClients \in Nat
      /\ mon \in [validation : BOOLEAN, model : Served(n), log : SUBSET [round : Rounds, of : Models]]
  BY PartsOfInv, Sizes DEF DataInv, DataOK, MonOK
<1>2. /\ monBox # <<>> /\ monBox' = Tail(monBox)
      /\ UNCHANGED <<coord, doneCh, agg, registered, aggBox, cmBox, clientBox, wire>>
      /\ UNCHANGED <<up, joining, tries, peersTold, faults>>
  BY DEF Monitor, MonSetGlobalModel, MonRoundComplete, MonTakes, envVars
<1>3. Joined /\ Reported
  BY <1>1, <1>2 DEF Stage, Gathering, Open, Averaged, Measured, Over
<1>4. n \in Rounds /\ coord.model = Full(n) /\ WorkIs(0)
  BY <1>3 DEF Reported
<1>5. WorkIs(0)'
  <2>1. \A c \in Clients, r \in Rounds : Work(c, r)' = IF r = 0 THEN 1 ELSE 0
    BY <1>2, <1>4, RoundAtRest
  <2> QED BY <2>1 DEF WorkIs
<1>6. AssignsOnce'
  BY <1>1, <1>2, AssignsAtRest DEF AssignsOnce
<1>7. Joined'
  BY <1>2, <1>3 DEF Joined
<1>8. CASE MonSetGlobalModel
  <2>1. /\ Head(monBox).type = "SetGlobalModel" /\ mon' = [mon EXCEPT !.model = Head(monBox).model]
        /\ UNCHANGED coordBox
    BY <1>8 DEF MonSetGlobalModel, MonTakes
  <2>2. monBox = <<SetGlobalModel(coord.model), RoundComplete(coord.round)>>
    BY <1>3, <2>1 DEF Reported, RoundComplete
  <2>3. Head(monBox).model = coord.model /\ monBox' = <<RoundComplete(coord.round)>>
    BY <1>2, <2>2 DEF SetGlobalModel
  <2>4. mon'.model = coord.model /\ mon'.log = mon.log /\ mon'.validation = mon.validation
    BY <1>1, <2>1, <2>3
  <2>5. AllUp'
    BY <1>1, <1>2, <2>4 DEF AllUp
  <2>6. Serves'
    BY <1>1, <1>2, <2>4 DEF Serves, ServedFull, Full, NoModel
  <2>7. Reported'
    BY <1>2, <1>3, <1>5, <2>1, <2>3, <2>4 DEF Reported, LogUpTo, Full, RoundComplete
  <2> QED BY <1>6, <1>7, <2>5, <2>6, <2>7 DEF RoundsInv, Serves
<1>9. CASE MonRoundComplete
  <2>1. Head(monBox).type = "RoundComplete"
    BY <1>9 DEF MonRoundComplete, MonTakes
  <2>2. monBox = <<RoundComplete(coord.round)>> /\ mon.model = coord.model /\ coordBox = <<>>
        /\ mon.log = LogUpTo(n - 1) /\ ~doneCh
    BY <1>3, <2>1 DEF Reported, SetGlobalModel
  <2>3. Head(monBox).round = n /\ mon.model # NoModel /\ mon.validation /\ monBox' = <<>>
    BY <1>1, <1>2, <1>4, <2>2, FullIsModel DEF RoundComplete, AllUp
  <2>4. PICK b \in BOOLEAN :
          /\ mon' = [mon EXCEPT !.log = @ \cup {[round |-> n, of |-> mon.model]}]
          /\ coordBox' = Post(coordBox, MetricsReport(n, b))
    BY <1>9, <2>3 DEF MonRoundComplete
  <2>5. mon'.model = mon.model /\ mon'.validation = mon.validation
        /\ mon'.log = LogUpTo(n - 1) \cup {[round |-> n, of |-> Full(n)]}
    BY <1>1, <1>4, <2>2, <2>4
  <2>6. mon'.log = LogUpTo(n)
    <3>1. 1..n = (1..(n - 1)) \cup {n}
      BY <1>4 DEF Rounds
    <3> QED BY <2>5, <3>1 DEF LogUpTo
  <2>7. coordBox' = <<MetricsReport(n, b)>>
    BY <2>2, <2>4, Sizes DEF Post
  <2>8. AllUp'
    BY <1>1, <1>2, <2>5 DEF AllUp
  <2>9. Serves'
    BY <1>1, <1>2, <2>5 DEF Serves, ServedFull, Full, NoModel
  <2>10. Measured'
    BY <1>2, <1>4, <1>5, <2>2, <2>3, <2>6, <2>7 DEF Measured, LogUpTo, Full, MetricsReport
  <2> QED BY <1>6, <1>7, <2>8, <2>9, <2>10 DEF RoundsInv, Serves
<1> QED BY <1>8, <1>9 DEF Monitor

\* One round more is served from, and less than its rounds is.
LEMMA ServesMore ==
  ASSUME NEW n \in Nat
  PROVE  ServedFull(n) \subseteq ServedFull(n + 1)
<1>1. 1..n \subseteq 1..(n + 1)
  OBVIOUS
<1> QED BY <1>1 DEF ServedFull

\* The round that every client is told of is the work of each once, if there
\* was no work before; when all rounds have been, training is over.
LEMMA RoundBegins ==
  ASSUME DataInv, DataInv', AllUp, AssignsOnce, Serves, WorkIs(0),
         NEW c \in CoordRecord, BeginRound(c),
         c.round = coord.round, c.up, c.model = coord.model, c.peers,
         NoRepeat(c.clients), ToSet(c.clients) = Clients,
         Len(registered') + Len(cmBox') <= Len(c.clients),
         ~doneCh, peersTold, coordBox' = <<>>, monBox = <<>>, mon.log = LogUpTo(coord.round),
         coord.round > 0 => (coord.model = Full(coord.round)),
         UNCHANGED <<agg, mon, registered, aggBox, monBox>>, UNCHANGED envVars
  PROVE  RoundsInv'
<1> DEFINE n == coord.round
<1>1. /\ IsABag(wire) /\ WorkCounts /\ WorkCounts' /\ AssignCounts /\ AssignCounts'
      /\ c.clients \in Seq(Clients) /\ n \in 0..TotalRounds /\ TotalRounds \in Nat /\ n \in Nat
  BY WorkIsCounted, WorkIsCountedNext, AssignsAreCounted, AssignsAreCountedNext, Sizes
  DEF DataInv, DataOK, WireOK, CoordRecord, CoordOK
<1>2. UNCHANGED <<up, joining, tries, peersTold, faults>>
  BY DEF envVars
<1>3. CASE RoundsLeft(c)
  <2>1. /\ coord' = [c EXCEPT !.round = n + 1] /\ SendToClients(c.clients, StartRound(n + 1))
        /\ UNCHANGED doneCh /\ n < TotalRounds
    BY <1>3 DEF BeginRound, RoundsLeft
  <2>2. /\ coord'.round = n + 1 /\ coord'.clients = c.clients /\ coord'.up /\ coord'.peers
        /\ coord'.model = coord.model /\ n + 1 \in Rounds
    BY <1>1, <2>1 DEF CoordRecord, Rounds
  <2>3. UNCHANGED clientBox
    BY <2>1, RemoteAssumption DEF SendToClients
  <2>4. \A d \in Clients : Copies(wire', Ask(d, n + 1)) = Copies(wire, Ask(d, n + 1)) + 1
    BY <1>1, <2>1, CopiesSentTo DEF Ask
  <2>5. \A x : (~\E d \in Clients : x = Ask(d, n + 1)) => Copies(wire', x) = Copies(wire, x)
    BY <1>1, <2>1, CopiesSent DEF Ask
  <2>6. ASSUME NEW d \in Clients, NEW r \in Rounds
        PROVE  Work(d, r)' = IF r = n + 1 THEN 1 ELSE 0
    <3>1. Work(d, r) = 0
      BY <1>1 DEF WorkIs, Rounds
    <3>2. Asked(d, r) = 0 /\ Waiting(d, r) = 0 /\ Answered(d, r) = 0 /\ Queued(d, r) = 0 /\ Held(d, r) = 0
      BY <1>1, <3>1, WorkParts
    <3>3. /\ Waiting(d, r)' = Waiting(d, r) /\ Queued(d, r)' = Queued(d, r) /\ Held(d, r)' = Held(d, r)
          /\ Asked(d, r)' = Copies(wire', Ask(d, r)) /\ Answered(d, r)' = Copies(wire', Answer(d, r))
      BY <2>3 DEF Waiting, Queued, Held, Asked, Answered, Ask, Answer, StartRound, LocalUpdate, Update
    <3>4. ~\E b \in Clients : Answer(d, r) = Ask(b, n + 1)
      BY RemoteAssumption DEF Answer, Ask
    <3>5. Answered(d, r)' = 0
      BY <2>5, <3>2, <3>3, <3>4 DEF Answered
    <3>6. Asked(d, r)' = IF r = n + 1 THEN 1 ELSE 0
      <4>1. CASE r = n + 1
        BY <2>4, <3>2, <3>3, <4>1 DEF Asked
      <4>2. CASE r # n + 1
        <5>1. ~\E b \in Clients : Ask(d, r) = Ask(b, n + 1)
          BY <4>2 DEF Ask, StartRound
        <5> QED BY <2>5, <3>2, <3>3, <4>2, <5>1 DEF Asked
      <4> QED BY <4>1, <4>2
    <3> QED BY <3>2, <3>3, <3>5, <3>6 DEF Work
  <2>7. WorkIs(coord.round)'
    BY <2>2, <2>6 DEF WorkIs
  <2>8. AllUp'
    BY <1>2, <2>2 DEF AllUp
  <2>9. AssignsOnce'
    <3>1. ASSUME NEW d \in Clients PROVE Assigns(d)' = Assigns(d)
      <4>1. ~\E b \in Clients : AssignCall(d) = Ask(b, n + 1)
        BY DEF AssignCall, Ask, ClusterAssign, StartRound
      <4>2. Assigns(d)' = Copies(wire', AssignCall(d)) + Occ(clientBox[d], ClusterAssign)
        BY <2>3 DEF Assigns, AssignCall, ClusterAssign
      <4> QED BY <2>5, <4>1, <4>2 DEF Assigns
    <3>2. Len(registered') + Len(cmBox') <= Len(coord'.clients)
      BY <2>2
    <3> QED BY <3>1, <3>2, ClientsCounted DEF AssignsOnce
  <2>10. Serves'
    <3>1. coord.model \in ServedFull(n + 1) /\ mon.model \in ServedFull(n + 1)
      BY <1>1, ServesMore DEF Serves
    <3> QED BY <2>2, <3>1 DEF Serves, ServedFull, Full, NoModel
  <2>11. Joined'
    BY <1>2, <2>2 DEF Joined
  <2>12. Open'
    <3>1. (n + 1) - 1 = n
      BY <1>1
    <3>2. coord'.round - 1 = n
      BY <2>2, <3>1
    <3>3. mon'.log = LogUpTo(coord.round - 1)'
      BY <3>2 DEF LogUpTo, Full
    <3> QED BY <2>1, <2>2, <2>7, <3>3 DEF Open
  <2> QED BY <2>8, <2>9, <2>10, <2>11, <2>12 DEF RoundsInv, Serves
<1>4. CASE ~RoundsLeft(c)
  <2>1. doneCh' = TRUE /\ coord' = [c EXCEPT !.up = TRUE] /\ UNCHANGED <<clientBox, wire>>
    BY <1>4 DEF BeginRound, CloseDone
  <2>2. /\ coord'.round = n /\ coord'.clients = c.clients /\ coord'.up /\ coord'.peers
        /\ coord'.model = coord.model
    BY <2>1 DEF CoordRecord
  <2>3. \A d \in Clients, r \in Rounds : Work(d, r)' = IF r = 0 THEN 1 ELSE 0
    BY <2>1, RoundAtRest
  <2>4. WorkIs(0)'
    BY <2>3 DEF WorkIs
  <2>5. AllUp'
    BY <1>2, <2>2 DEF AllUp
  <2>6. AssignsOnce'
    BY <2>1, <2>2, AssignsAtRest
  <2>7. Serves'
    BY <2>2 DEF Serves, ServedFull, Full, NoModel
  <2>8. Joined'
    BY <1>2, <2>2 DEF Joined
  <2>9. Over'
    <3>1. coord'.round > 0 => coord'.model = Full(coord.round)'
      BY <2>2 DEF Full
    <3>2. mon'.log = LogUpTo(coord.round)'
      BY <2>2 DEF LogUpTo, Full
    <3> QED BY <2>1, <2>4, <3>1, <3>2 DEF Over
  <2> QED BY <2>5, <2>6, <2>7, <2>8, <2>9 DEF RoundsInv, Serves
<1> QED BY <1>3, <1>4

\* The coordinator hears of its peers and of the clients: with the last one it
\* begins the first round.
LEMMA CoordinatorGathers ==
  ASSUME DataInv, DataInv', JoinOnce, RoundsInv, Gathering, Coordinator, UNCHANGED envVars
  PROVE  RoundsInv'
<1> DEFINE n == coord.round
           m == Head(coordBox)
<1>1. /\ AllUp /\ AssignsOnce /\ Serves /\ coordBox \in Seq(CoordMsgs(n)) /\ coord \in CoordRecord
      /\ registered \in Seq(Clients) /\ cmBox \in Seq(Clients)
      /\ coord.clients \in Seq(Clients) /\ NoRepeat(coord.clients)
  BY PartsOfInv DEF DataInv, DataOK, BoxesOK, CoordBoxOK, CoordOK, CoordRecord, RegisteringOK, JoinOnce
<1>2. /\ coordBox # <<>> /\ coordBox' = Tail(coordBox)
      /\ UNCHANGED <<mon, agg, registered, up, joining, tries, peersTold, faults>>
  BY DEF Coordinator, CoordStartFL, CoordAggregationResult, CoordMetricsReport, CoordSetPeers,
     CoordClientJoin, CoordClientDown, CoordTakes, envVars
<1>3. /\ Len(coordBox) \in Nat \ {0} /\ DOMAIN coordBox = 1..Len(coordBox) /\ coordBox[1] = m
      /\ DOMAIN coordBox' = 1..(Len(coordBox) - 1)
      /\ \A i \in DOMAIN coordBox' : coordBox'[i] = coordBox[i + 1] /\ i + 1 \in DOMAIN coordBox /\ i + 1 # 1
  <2>1. Len(coordBox) \in Nat /\ DOMAIN coordBox = 1..Len(coordBox) /\ Len(coordBox) # 0
    BY <1>1, <1>2, LenProperties, EmptySeq
  <2>2. /\ coordBox' \in Seq(CoordMsgs(n)) /\ Len(coordBox') = Len(coordBox) - 1 /\ coordBox[1] = m
        /\ \A i \in 1..Len(coordBox') : coordBox'[i] = coordBox[i + 1]
    BY <1>1, <1>2, <2>1, HeadTailProperties
  <2>3. DOMAIN coordBox' = 1..Len(coordBox')
    BY <2>2, LenProperties
  <2> QED BY <2>1, <2>2, <2>3
<1>4. \A i \in DOMAIN coordBox' : coordBox'[i].type = "ClientJoin"
  BY <1>3 DEF Gathering
<1>5. n = 0 /\ ~doneCh /\ WorkIs(0) /\ monBox = <<>> /\ mon.log = {} /\ peersTold
      /\ coord.model = NoModel /\ mon.model = NoModel
  BY <1>2 DEF Gathering
<1>6. CASE m.type = "SetPeers"
  <2>1. coord' = [coord EXCEPT !.peers = TRUE]
        /\ UNCHANGED <<doneCh, agg, aggBox, monBox, cmBox, clientBox, wire>>
    BY <1>6 DEF Coordinator, CoordStartFL, CoordAggregationResult, CoordMetricsReport, CoordSetPeers,
       CoordClientJoin, CoordClientDown, CoordTakes
  <2>2. coord'.peers /\ coord'.round = 0 /\ coord'.model = NoModel /\ coord'.clients = coord.clients
        /\ coord'.up = coord.up
    BY <1>1, <1>5, <2>1 DEF CoordRecord
  <2>3. \A d \in Clients, r \in Rounds : Work(d, r)' = IF r = 0 THEN 1 ELSE 0
    BY <1>2, <1>5, <2>1, RoundAtRest
  <2>4. WorkIs(0)'
    BY <2>3 DEF WorkIs
  <2>5. AllUp'
    BY <1>1, <1>2, <2>1, <2>2 DEF AllUp
  <2>6. AssignsOnce'
    <3>1. Len(registered') + Len(cmBox') <= Len(coord'.clients)
      BY <1>1, <1>2, <2>1, <2>2 DEF AssignsOnce
    <3> QED BY <1>1, <1>2, <2>1, <3>1, AssignsAtRest
  <2>7. Gathering'
    BY <1>2, <1>4, <1>5, <2>1, <2>2, <2>4 DEF Gathering, NoModel
  <2>8. Serves'
    BY <1>2, <1>5, <2>2 DEF Serves, ServedFull, NoModel
  <2> QED BY <2>5, <2>6, <2>7, <2>8 DEF RoundsInv, Serves
<1>7. CASE m.type # "SetPeers"
  <2>1. coord.peers /\ m.type = "ClientJoin"
    BY <1>2, <1>3, <1>7 DEF Gathering, SetPeers
  <2>2. CoordClientJoin
    BY <2>1 DEF Coordinator, CoordStartFL, CoordAggregationResult, CoordMetricsReport, CoordSetPeers,
       CoordClientDown, CoordTakes
  <2>3. PICK c \in Clients : m = ClientJoin(c) /\ m.client = c
    <3>1. m \in CoordMsgs(n)
      BY <1>1, <1>2, TakeFromSeq
    <3> QED BY <2>1, <3>1 DEF CoordMsgs, ClientJoin
  <2> DEFINE joined == [coord EXCEPT !.clients = Append(@, c), !.seeded = @ \cup {c}]
  <2>4. /\ cmBox' = (IF coord.peers /\ Clustering THEN Post(cmBox, c) ELSE cmBox)
        /\ \/ Complete(joined.clients) /\ BeginRound(joined)
           \/ ~Complete(joined.clients) /\ coord' = joined /\ UNCHANGED <<doneCh, clientBox, wire>>
        /\ UNCHANGED <<agg, mon, registered, aggBox, monBox>>
    BY <2>2, <2>3 DEF CoordClientJoin
  <2>5. c \notin ToSet(coord.clients)
    BY <1>2, <2>3, HeadIsNew
  <2>6. /\ Append(coord.clients, c) \in Seq(Clients) /\ Len(Append(coord.clients, c)) = Len(coord.clients) + 1
        /\ NoRepeat(Append(coord.clients, c)) /\ Len(coord.clients) \in Nat
    BY <1>1, <2>5, AppendNew, AppendProperties, LenProperties
  <2>7. /\ joined \in CoordRecord /\ joined.clients = Append(coord.clients, c) /\ joined.round = 0
        /\ joined.model = NoModel /\ joined.up = coord.up /\ joined.peers = coord.peers
    BY <1>1, <1>5, <2>6 DEF CoordRecord
  <2> HIDE DEF joined
  <2>8. Len(registered') + Len(cmBox') <= Len(joined.clients)
    <3>1. Len(cmBox') \in Nat /\ Len(cmBox') <= Len(cmBox) + 1 /\ Len(cmBox) \in Nat
      <4>1. Len(Append(cmBox, c)) = Len(cmBox) + 1 /\ Len(cmBox) \in Nat
        BY <1>1, AppendProperties, LenProperties
      <4> QED BY <2>4, <4>1 DEF Post
    <3>2. Len(registered) + Len(cmBox) <= Len(coord.clients) /\ Len(registered) \in Nat
      BY <1>1, LenProperties DEF AssignsOnce
    <3>3. registered' = registered
      BY <2>4
    <3> QED BY <2>6, <2>7, <3>1, <3>2, <3>3
  <2>9. CASE Complete(joined.clients)
    <3>1. ToSet(joined.clients) = Clients
      <4>1. ToSet(joined.clients) \subseteq Clients
        BY <2>6, <2>7, LenProperties, ElementOfSeq DEF ToSet
      <4> QED BY <2>6, <2>7, <2>9, <4>1, NoRepeatLength, Sizes DEF Complete, NumClients
    <3>2. coordBox' = <<>>
      <4>1. ASSUME coordBox' # <<>> PROVE FALSE
        <5>1. coordBox' \in Seq(CoordMsgs(n))
          BY <1>1, <1>2, TakeFromSeq
        <5>2. 1 \in DOMAIN coordBox' /\ coordBox'[1] \in CoordMsgs(n)
          BY <4>1, <5>1, LenProperties, EmptySeq, ElementOfSeq
        <5>3. PICK d \in Clients : coordBox'[1] = ClientJoin(d)
          BY <1>4, <5>2 DEF CoordMsgs, ClientJoin
        <5>4. coordBox[2] = ClientJoin(d) /\ 2 \in DOMAIN coordBox
          BY <1>3, <5>2, <5>3
        <5>5. d = c \/ d \in ToSet(coord.clients)
          BY <3>1, <2>6, <2>7, <1>1, <2>5, AppendNew
        <5>6. Occ(coordBox, ClientJoin(d)) # 0
          BY <1>1, <5>4, OccFacts
        <5>7. CASE d \in ToSet(coord.clients)
          <6>1. Joins(d) = 0
            BY <5>7 DEF JoinOnce, JoinedOnce
          <6>2. Copies(wire, JoinCall(d, tries[d])) \in Nat /\ Occ(coordBox, ClientJoin(d)) \in Nat
            BY <1>1, CopiesFacts, OccFacts DEF DataInv, DataOK, WireOK
          <6> QED BY <5>6, <6>1, <6>2 DEF Joins
        <5>8. CASE d = c
          <6>1. Occ(coordBox, ClientJoin(c)) = 1
            BY <1>2, <2>3, HeadIsNew
          <6>2. Occ(coordBox, ClientJoin(c)) = Occ(Tail(coordBox), ClientJoin(c)) + 1
            BY <1>1, <1>2, <2>3, OccTail
          <6>3. Occ(coordBox', ClientJoin(c)) \in Nat /\ Occ(coordBox', ClientJoin(c)) # 0
            BY <5>1, <5>2, <5>3, <5>8, OccFacts
          <6> QED BY <1>2, <6>1, <6>2, <6>3
        <5> QED BY <5>5, <5>7, <5>8
      <4> QED BY <4>1
    <3>3. mon.log = LogUpTo(0)
      <4>1. 1..0 = {}
        OBVIOUS
      <4> QED BY <1>5, <4>1 DEF LogUpTo
    <3>4. BeginRound(joined) /\ ~doneCh /\ peersTold /\ joined.up /\ joined.peers
          /\ monBox = <<>> /\ joined.round = coord.round /\ joined.model = coord.model
          /\ UNCHANGED <<agg, mon, registered, aggBox, monBox>> /\ mon.log = LogUpTo(coord.round)
          /\ (coord.round > 0 => coord.model = Full(coord.round))
      BY <1>1, <1>5, <2>1, <2>4, <2>7, <2>9, <3>3 DEF AllUp
    <3> QED BY <1>1, <1>5, <2>6, <2>7, <2>8, <3>1, <3>2, <3>4, RoundBegins
  <2>10. CASE ~Complete(joined.clients)
    <3>1. coord' = joined /\ UNCHANGED <<doneCh, agg, aggBox, monBox, clientBox, wire>>
      BY <2>4, <2>10
    <3>2. coord'.peers /\ coord'.round = 0 /\ coord'.model = NoModel
          /\ coord'.clients = joined.clients /\ coord'.up = coord.up
      BY <2>1, <2>7, <3>1
    <3>3. \A d \in Clients, r \in Rounds : Work(d, r)' = IF r = 0 THEN 1 ELSE 0
      BY <1>2, <1>5, <3>1, RoundAtRest
    <3>4. WorkIs(0)'
      BY <3>3 DEF WorkIs
    <3>5. AllUp'
      BY <1>1, <1>2, <3>1, <3>2 DEF AllUp
    <3>6. AssignsOnce'
      BY <1>1, <1>2, <2>8, <3>1, <3>2, AssignsAtRest
    <3>7. Gathering'
      BY <1>2, <1>4, <1>5, <3>1, <3>2, <3>4 DEF Gathering, NoModel
    <3>8. Serves'
      BY <1>2, <1>5, <3>2 DEF Serves, ServedFull, NoModel
    <3> QED BY <3>5, <3>6, <3>7, <3>8 DEF RoundsInv, Serves
  <2> QED BY <2>9, <2>10
<1> QED BY <1>6, <1>7

\* A list of one element with one more.
LEMMA AppendOne ==
  ASSUME NEW a, NEW b
  PROVE  Append(<<a>>, b) = <<a, b>>
<1>1. <<a>> \in Seq({a, b}) /\ <<a, b>> \in Seq({a, b}) /\ Len(<<a>>) = 1 /\ Len(<<a, b>>) = 2
  OBVIOUS
<1>2. /\ Append(<<a>>, b) \in Seq({a, b}) /\ Len(Append(<<a>>, b)) = 2
      /\ Append(<<a>>, b)[1] = a /\ Append(<<a>>, b)[2] = b
  BY <1>1, AppendProperties
<1>3. <<a, b>>[1] = a /\ <<a, b>>[2] = b
  OBVIOUS
<1>4. \A i \in 1..2 : i = 1 \/ i = 2
  OBVIOUS
<1>5. \A i \in 1..2 : Append(<<a>>, b)[i] = <<a, b>>[i]
  BY <1>2, <1>3, <1>4
<1> QED BY <1>1, <1>2, <1>5, SeqEqual

\* The coordinator passes an average on, and begins the next round when it is
\* measured.
LEMMA CoordinatorTrains ==
  ASSUME DataInv, DataInv', JoinOnce, RoundsInv, ~Gathering, Coordinator, UNCHANGED envVars
  PROVE  RoundsInv'
<1> DEFINE n == coord.round
           m == Head(coordBox)
<1>1. /\ AllUp /\ AssignsOnce /\ Serves /\ Stage /\ coord \in CoordRecord /\ NoRepeat(coord.clients)
  BY PartsOfInv DEF DataInv, CoordOK, JoinOnce
<1>2. /\ coordBox # <<>> /\ coordBox' = Tail(coordBox)
      /\ UNCHANGED <<mon, agg, registered, aggBox, up, joining, tries, peersTold, faults>>
  BY <1>1, RemoteAssumption
  DEF Coordinator, CoordStartFL, CoordAggregationResult, CoordMetricsReport, CoordSetPeers,
      CoordClientJoin, CoordClientDown, CoordTakes, envVars, Stage, Averaged, Measured, Open,
      Reported, Over, AggregationResult, MetricsReport
<1>3. Joined /\ (Averaged \/ Measured)
  BY <1>1, <1>2 DEF Stage, Open, Reported, Over
<1>4. n \in Rounds /\ WorkIs(0) /\ ~doneCh /\ monBox = <<>> /\ coord.peers /\ peersTold
      /\ coord.up /\ ToSet(coord.clients) = Clients
  BY <1>1, <1>3 DEF Averaged, Measured, Joined, AllUp
<1>5. CASE Averaged
  <2>1. coordBox = <<AggregationResult(n, Full(n))>> /\ mon.log = LogUpTo(n - 1)
    BY <1>5 DEF Averaged
  <2>2. m = AggregationResult(n, Full(n)) /\ coordBox' = <<>>
    BY <1>2, <2>1
  <2>3. m.type = "AggregationResult" /\ m.round = n /\ m.model = Full(n)
    BY <2>2 DEF AggregationResult
  <2>4. CoordAggregationResult
    BY <2>3 DEF Coordinator, CoordStartFL, CoordMetricsReport, CoordSetPeers,
       CoordClientJoin, CoordClientDown, CoordTakes
  <2>5. /\ coord' = [coord EXCEPT !.model = Full(n), !.up = coord.peers]
        /\ monBox' = Report(m)
        /\ UNCHANGED <<doneCh, cmBox, clientBox, wire>>
    BY <1>4, <2>3, <2>4 DEF CoordAggregationResult
  <2>6. coord'.model = Full(n) /\ coord'.up /\ coord'.round = n /\ coord'.clients = coord.clients
        /\ coord'.peers
    BY <1>1, <1>4, <2>5 DEF CoordRecord
  <2>7. monBox' = <<SetGlobalModel(Full(n)), RoundComplete(n)>>
    <3>1. Post(monBox, SetGlobalModel(Full(n))) = <<SetGlobalModel(Full(n))>>
      BY <1>4, Sizes DEF Post
    <3>2. Post(<<SetGlobalModel(Full(n))>>, RoundComplete(n)) = <<SetGlobalModel(Full(n)), RoundComplete(n)>>
      <4>1. Len(<<SetGlobalModel(Full(n))>>) = 1 /\ 1 < MailboxCap
        BY Sizes
      <4>2. Append(<<SetGlobalModel(Full(n))>>, RoundComplete(n)) = <<SetGlobalModel(Full(n)), RoundComplete(n)>>
        BY AppendOne
      <4> QED BY <4>1, <4>2 DEF Post
    <3> QED BY <2>3, <2>5, <3>1, <3>2 DEF Report
  <2>8. \A d \in Clients, r \in Rounds : Work(d, r)' = IF r = 0 THEN 1 ELSE 0
    BY <1>2, <1>4, <2>5, RoundAtRest
  <2>9. WorkIs(0)'
    BY <2>8 DEF WorkIs
  <2>10. AllUp'
    BY <1>1, <1>2, <2>6 DEF AllUp
  <2>11. AssignsOnce'
    BY <1>1, <1>2, <2>5, <2>6, AssignsAtRest DEF AssignsOnce
  <2>12. Joined'
    BY <1>2, <1>3, <2>6 DEF Joined
  <2>13. Serves'
    <3>1. Full(n) \in ServedFull(n)
      BY <1>4 DEF ServedFull, Rounds
    <3> QED BY <1>1, <1>2, <2>6, <3>1 DEF Serves, ServedFull, Full, NoModel
  <2>14. Reported'
    <3>1. coord'.model = Full(coord.round)' /\ mon'.log = LogUpTo(coord.round - 1)'
      BY <1>2, <2>1, <2>6 DEF LogUpTo, Full
    <3>2. SetGlobalModel(coord.model)' = SetGlobalModel(Full(n)) /\ RoundComplete(coord.round)' = RoundComplete(n)
      BY <2>6 DEF SetGlobalModel, RoundComplete
    <3>3. monBox' = <<SetGlobalModel(coord.model)', RoundComplete(coord.round)'>>
      BY <2>7, <3>2
    <3> QED BY <1>4, <2>2, <2>5, <2>6, <2>9, <3>1, <3>3 DEF Reported
  <2> QED BY <2>10, <2>11, <2>12, <2>13, <2>14 DEF RoundsInv, Serves
<1>6. CASE Measured
  <2>1. PICK b \in BOOLEAN : coordBox = <<MetricsReport(n, b)>>
    BY <1>6 DEF Measured
  <2>2. mon.log = LogUpTo(n) /\ coord.model = Full(n) /\ (n > 0 => coord.model = Full(n))
    BY <1>6 DEF Measured
  <2>3. m = MetricsReport(n, b) /\ coordBox' = <<>>
    BY <1>2, <2>1
  <2>4. m.type = "MetricsReport"
    BY <2>3 DEF MetricsReport
  <2>5. CoordMetricsReport
    BY <2>4 DEF Coordinator, CoordStartFL, CoordAggregationResult, CoordSetPeers,
       CoordClientJoin, CoordClientDown, CoordTakes
  <2>6. /\ UNCHANGED <<agg, mon, registered, aggBox, monBox, cmBox>>
        /\ (CloseDone(coord) /\ UNCHANGED <<clientBox, wire>>) \/ BeginRound(coord)
    BY <2>5 DEF CoordMetricsReport
  <2>7. CASE BeginRound(coord)
    <3>1. Len(registered') + Len(cmBox') <= Len(coord.clients)
      BY <1>1, <2>6 DEF AssignsOnce
    <3> QED BY <1>1, <1>4, <2>2, <2>3, <2>6, <2>7, <3>1, RoundBegins
  <2>8. CASE CloseDone(coord) /\ UNCHANGED <<clientBox, wire>>
    <3>1. doneCh' = TRUE /\ coord' = [coord EXCEPT !.up = TRUE]
      BY <1>4, <2>8 DEF CloseDone
    <3>2. coord'.model = coord.model /\ coord'.up /\ coord'.round = n /\ coord'.clients = coord.clients
          /\ coord'.peers
      BY <1>1, <1>4, <3>1 DEF CoordRecord
    <3>3. \A d \in Clients, r \in Rounds : Work(d, r)' = IF r = 0 THEN 1 ELSE 0
      BY <1>2, <1>4, <2>8, RoundAtRest
    <3>4. WorkIs(0)'
      BY <3>3 DEF WorkIs
    <3>5. AllUp'
      BY <1>1, <1>2, <3>2 DEF AllUp
    <3>6. AssignsOnce'
      BY <1>1, <2>6, <2>8, <3>2, AssignsAtRest DEF AssignsOnce
    <3>7. Joined'
      BY <1>2, <1>3, <3>2 DEF Joined
    <3>8. Serves'
      BY <1>1, <1>2, <3>2 DEF Serves, ServedFull, Full, NoModel
    <3>9. Over'
      <4>1. coord'.round > 0 => coord'.model = Full(coord.round)'
        BY <2>2, <3>2 DEF Full
      <4>2. mon'.log = LogUpTo(coord.round)'
        BY <2>2, <2>6, <3>2 DEF LogUpTo, Full
      <4> QED BY <1>2, <1>4, <2>3, <2>6, <3>1, <3>4, <4>1, <4>2 DEF Over
    <3> QED BY <3>5, <3>6, <3>7, <3>8, <3>9 DEF RoundsInv, Serves
  <2> QED BY <2>6, <2>7, <2>8
<1> QED BY <1>3, <1>5, <1>6

\* Assignments when only calls that are none are sent or delivered.
LEMMA AssignsOnWire ==
  ASSUME AssignsOnce, UNCHANGED <<coord, clientBox, registered, cmBox>>,
         \A c \in Clients : Copies(wire', AssignCall(c)) = Copies(wire, AssignCall(c))
  PROVE  AssignsOnce'
<1>1. ASSUME NEW c \in Clients PROVE Assigns(c)' = Assigns(c)
  <2>1. Assigns(c)' = Copies(wire', AssignCall(c)) + Occ(clientBox[c], ClusterAssign)
    BY DEF Assigns, AssignCall, ClusterAssign
  <2> QED BY <2>1 DEF Assigns
<1>2. Len(registered') + Len(cmBox') <= Len(coord'.clients)
  BY DEF AssignsOnce
<1> QED BY <1>1, <1>2, ClientsCounted DEF AssignsOnce

\* runCoordinator tells the coordinator its peers.
LEMMA PeersAreSet ==
  ASSUME RoundsInv, MainSetPeers
  PROVE  RoundsInv'
<1>1. /\ ~peersTold /\ peersTold' = TRUE /\ coordBox' = Post(coordBox, SetPeers)
      /\ UNCHANGED <<coord, doneCh, agg, mon, registered, aggBox, monBox, cmBox, clientBox, wire,
                     up, joining, tries, faults>>
  BY DEF MainSetPeers, actorVars
<1>2. AllUp /\ AssignsOnce /\ Serves /\ Stage
  BY PartsOfInv
<1>3. Gathering /\ ~coord.peers /\ coordBox = <<>>
  BY <1>1, <1>2 DEF Stage, Joined, Gathering
<1>4. coordBox' = <<SetPeers>>
  BY <1>1, <1>3, Sizes DEF Post
<1>5. \A d \in Clients, r \in Rounds : Work(d, r)' = IF r = 0 THEN 1 ELSE 0
  BY <1>1, <1>3, RoundAtRest DEF Gathering
<1>6. WorkIs(0)'
  BY <1>5 DEF WorkIs
<1>7. AllUp'
  BY <1>1, <1>2 DEF AllUp
<1>8. AssignsOnce'
  BY <1>1, <1>2, AssignsAtRest DEF AssignsOnce
<1>9. Serves'
  BY <1>1, <1>2 DEF Serves, ServedFull, Full, NoModel
<1>10. Gathering'
  <2>1. /\ DOMAIN coordBox' = {1} /\ coordBox'[1] = SetPeers /\ SetPeers.type = "SetPeers"
        /\ coordBox' # <<>>
    BY <1>4 DEF SetPeers
  <2> QED BY <1>1, <1>3, <1>6, <2>1 DEF Gathering, NoModel, SetPeers
<1> QED BY <1>7, <1>8, <1>9, <1>10 DEF RoundsInv, Serves

\* A client asks to join.
LEMMA JoinIsSent ==
  ASSUME DataInv, DataInv', RoundsInv, NEW d \in Clients, SendJoin(d)
  PROVE  RoundsInv'
<1> DEFINE e == JoinCall(d, tries[d] + 1)
<1>1. /\ wire' = wire (+) SetToBag({e})
      /\ joining' = [joining EXCEPT ![d] = "waiting"] /\ tries' = [tries EXCEPT ![d] = @ + 1]
      /\ UNCHANGED <<coord, doneCh, agg, mon, registered, coordBox, aggBox, monBox, cmBox, clientBox,
                     up, peersTold, faults>>
  BY DEF SendJoin, actorVars
<1>2. /\ AllUp /\ AssignsOnce /\ Serves /\ Stage /\ IsABag(wire)
      /\ joining \in [Clients -> {"idle", "waiting", "registered"}] /\ tries \in [Clients -> 0..MaxTries]
  BY PartsOfInv DEF DataInv, DataOK, WireOK, EnvOK
<1>3. \A x : Copies(wire', x) = Copies(wire, x) + (IF x = e THEN 1 ELSE 0)
  <2> HIDE DEF e
  <2>1. \A x : Copies(wire (+) SetToBag({e}), x) = Copies(wire, x) + (IF x = e THEN 1 ELSE 0)
    BY <1>2, CopiesAdd
  <2> QED BY <1>1, <2>1
<1>4. \A x : x.to # "coordinator" => (Copies(wire', x) = Copies(wire, x))
  <2> SUFFICES ASSUME NEW x, x.to # "coordinator" PROVE Copies(wire', x) = Copies(wire, x)
    OBVIOUS
  <2>1. x # e /\ Copies(wire, x) \in Nat
    BY <1>2, CopiesFacts DEF JoinCall
  <2> QED BY <1>3, <2>1
<1>5. \A c \in Clients, r \in Rounds :
        /\ Copies(wire', Ask(c, r)) = Copies(wire, Ask(c, r))
        /\ Copies(wire', Answer(c, r)) = Copies(wire, Answer(c, r))
  BY <1>4, RemoteAssumption DEF Ask, Answer
<1>6. \A c \in Clients : Copies(wire', AssignCall(c)) = Copies(wire, AssignCall(c))
  BY <1>4, RemoteAssumption DEF AssignCall
<1>7. SameWork
  BY <1>1, <1>5, WorkOnWire
<1>8. AssignsOnce'
  BY <1>1, <1>2, <1>6, AssignsOnWire
<1>9. AllUp'
  <2>1. \A c \in Clients : up'[c] /\ (joining'[c] = "idle" => tries'[c] = 0)
    <3> TAKE c \in Clients
    <3>1. CASE c = d
      BY <1>1, <1>2, <3>1 DEF AllUp
    <3>2. CASE c # d
      BY <1>1, <1>2, <3>2 DEF AllUp
    <3> QED BY <3>1, <3>2
  <2> QED BY <1>1, <1>2, <2>1 DEF AllUp
<1>10. Stage' /\ Serves'
  BY <1>1, <1>2, <1>7, StageStays DEF stageVars
<1>11. RoundsInv' <=> AllUp' /\ AssignsOnce' /\ Serves' /\ Stage'
  BY PartsOfInv, PTL
<1> QED BY <1>8, <1>9, <1>10, <1>11

\* As long as joins arrive, the clients are not all there.
LEMMA JoinGathers ==
  ASSUME DataInv, JoinOnce, RoundsInv, NEW d \in Clients, NEW k \in 1..MaxTries,
         JoinCall(d, k) \in DOMAIN wire
  PROVE  Gathering
<1> DEFINE e == JoinCall(d, k)
<1>1. Stage /\ IsABag(wire) /\ coordBox \in Seq(CoordMsgs(coord.round))
  BY PartsOfInv DEF DataInv, DataOK, WireOK, BoxesOK, CoordBoxOK
<1>2. ASSUME Joined PROVE FALSE
  <2>1. d \in ToSet(coord.clients)
    BY <1>2 DEF Joined
  <2>2. Joins(d) = 0 /\ (k # tries[d] => Copies(wire, e) = 0)
    BY <2>1 DEF JoinOnce, JoinedOnce
  <2>3. Copies(wire, e) \in Nat /\ Copies(wire, e) # 0 /\ Occ(coordBox, ClientJoin(d)) \in Nat
    BY <1>1, CopiesFacts, OccFacts
  <2> QED BY <2>2, <2>3 DEF Joins
<1> QED BY <1>1, <1>2 DEF Stage

\* A client's join arrives, after the peers were set as long as nothing is early.
LEMMA JoinArrives ==
  ASSUME DataInv, DataInv', JoinOnce, RoundsInv, faults' = {},
         NEW d \in Clients, NEW k \in 1..MaxTries, DeliverJoin(d, k)
  PROVE  RoundsInv'
<1> DEFINE e == JoinCall(d, k)
           n == coord.round
<1>1. peersTold
  BY DEF DeliverJoin, Fault
<1>2. /\ AllUp /\ AssignsOnce /\ Serves /\ Stage /\ IsABag(wire) /\ coord.up
      /\ joining \in [Clients -> {"idle", "waiting", "registered"}]
      /\ coordBox \in Seq(CoordMsgs(n))
  BY PartsOfInv DEF DataInv, DataOK, WireOK, EnvOK, BoxesOK, CoordBoxOK, AllUp
<1>3. /\ e \in DOMAIN wire /\ wire' = wire (-) SetToBag({e})
      /\ coordBox' = Post(coordBox, ClientJoin(d))
      /\ \A c \in Clients : joining'[c] = joining[c] \/ joining'[c] = "registered"
      /\ UNCHANGED <<coord, doneCh, agg, mon, registered, aggBox, monBox, cmBox, clientBox,
                     up, tries, peersTold, faults>>
  BY <1>1, <1>2 DEF DeliverJoin, actorVars, BagIn, BagToSet
<1>4. \A x : x.to # "coordinator" => (Copies(wire', x) = Copies(wire, x))
  <2> SUFFICES ASSUME NEW x, x.to # "coordinator" PROVE Copies(wire', x) = Copies(wire, x)
    OBVIOUS
  <2>1. x # e /\ Copies(wire, x) \in Nat
    BY <1>2, CopiesFacts DEF JoinCall
  <2>2. Copies(wire', x) = Copies(wire, x) - (IF x = e THEN 1 ELSE 0)
    BY <1>2, <1>3, CopiesTake
  <2> QED BY <2>1, <2>2
<1>5. \A c \in Clients, r \in Rounds :
        /\ Copies(wire', Ask(c, r)) = Copies(wire, Ask(c, r))
        /\ Copies(wire', Answer(c, r)) = Copies(wire, Answer(c, r))
  BY <1>4, RemoteAssumption DEF Ask, Answer
<1>6. \A c \in Clients : Copies(wire', AssignCall(c)) = Copies(wire, AssignCall(c))
  BY <1>4, RemoteAssumption DEF AssignCall
<1>7. SameWork
  BY <1>3, <1>5, WorkOnWire
<1>8. AssignsOnce'
  BY <1>2, <1>3, <1>6, AssignsOnWire
<1>9. AllUp'
  <2>1. \A c \in Clients : up'[c] /\ (joining'[c] = "idle" => tries'[c] = 0)
    <3> TAKE c \in Clients
    <3>1. joining'[c] = joining[c] \/ joining'[c] = "registered"
      BY <1>3
    <3> QED BY <1>2, <1>3, <3>1 DEF AllUp
  <2> QED BY <1>2, <1>3, <2>1 DEF AllUp
<1>10. Gathering
  BY <1>3, JoinGathers
<1>11. WorkIs(0)'
  <2>1. WorkIs(0)
    BY <1>10 DEF Gathering
  <2>2. \A c \in Clients, r \in Rounds : Work(c, r)' = IF r = 0 THEN 1 ELSE 0
    BY <1>7, <2>1 DEF SameWork, WorkIs
  <2> QED BY <2>2 DEF WorkIs
<1>12. Gathering'
  <2>1. /\ \A i \in DOMAIN coordBox' : \/ i \in DOMAIN coordBox /\ coordBox'[i] = coordBox[i]
                                       \/ i = Len(coordBox) + 1 /\ coordBox'[i] = ClientJoin(d)
        /\ \A i \in DOMAIN coordBox : i \in DOMAIN coordBox' /\ coordBox'[i] = coordBox[i]
    <3>1. Len(coordBox) \in Nat /\ DOMAIN coordBox = 1..Len(coordBox)
      BY <1>2, LenProperties
    <3>2. ClientJoin(d) \in CoordMsgs(n)
      BY DEF ClientJoin, CoordMsgs
    <3>3. CASE coordBox' = Append(coordBox, ClientJoin(d))
      <4>1. /\ DOMAIN coordBox' = 1..(Len(coordBox) + 1)
            /\ \A i \in 1..Len(coordBox) : coordBox'[i] = coordBox[i]
            /\ coordBox'[Len(coordBox) + 1] = ClientJoin(d)
        BY <1>2, <3>1, <3>2, <3>3, AppendProperties, LenProperties
      <4>2. \A i \in 1..(Len(coordBox) + 1) : i \in 1..Len(coordBox) \/ i = Len(coordBox) + 1
        BY <3>1
      <4>3. \A i \in 1..Len(coordBox) : i \in 1..(Len(coordBox) + 1)
        BY <3>1
      <4> QED BY <3>1, <4>1, <4>2, <4>3
    <3>4. CASE coordBox' = coordBox
      BY <3>4
    <3> QED BY <1>3, <3>3, <3>4 DEF Post
  <2>2. ClientJoin(d).type = "ClientJoin"
    BY DEF ClientJoin
  <2>3. \A i \in DOMAIN coordBox' : i \notin DOMAIN coordBox => (coordBox'[i].type = "ClientJoin")
    BY <2>1, <2>2
  <2>4. \A i \in DOMAIN coordBox' : coordBox'[i].type \in {"SetPeers", "ClientJoin"}
    BY <1>10, <2>1, <2>2 DEF Gathering
  <2>5. coord.peers => (\A i \in DOMAIN coordBox' : coordBox'[i].type = "ClientJoin")
    BY <1>10, <2>1, <2>2 DEF Gathering
  <2>6. ~coord.peers => /\ coordBox' # <<>> /\ coordBox'[1] = SetPeers
                        /\ \A i \in DOMAIN coordBox' : i # 1 => (coordBox'[i].type = "ClientJoin")
    <3> SUFFICES ASSUME ~coord.peers
                 PROVE  /\ coordBox' # <<>> /\ coordBox'[1] = SetPeers
                        /\ \A i \in DOMAIN coordBox' : i # 1 => (coordBox'[i].type = "ClientJoin")
      OBVIOUS
    <3>1. /\ coordBox # <<>> /\ coordBox[1] = SetPeers
          /\ \A i \in DOMAIN coordBox : i # 1 => (coordBox[i].type = "ClientJoin")
      BY <1>1, <1>10 DEF Gathering
    <3>2. 1 \in DOMAIN coordBox
      BY <1>2, <3>1, LenProperties, EmptySeq
    <3>3. 1 \in DOMAIN coordBox' /\ coordBox'[1] = SetPeers
      BY <2>1, <3>1, <3>2
    <3> QED BY <2>1, <2>2, <3>1, <3>3
  <2> QED BY <1>1, <1>3, <1>10, <1>11, <2>4, <2>5, <2>6 DEF Gathering, NoModel, SetPeers
<1>13. Serves'
  BY <1>2, <1>3 DEF Serves, ServedFull, Full, NoModel
<1> QED BY <1>8, <1>9, <1>12, <1>13 DEF RoundsInv, Serves

-----------------------------------------------------------------------------
(* The invariant, and what it says of the averages and of the rounds.      *)

\* Nothing has happened.
LEMMA RoundsInit == Init => FaultFreeInv
<1> SUFFICES ASSUME Init PROVE RoundsInv
  BY DEF FaultFreeInv
<1>1. /\ coord = [up |-> TRUE, round |-> 0, clients |-> <<>>, peers |-> FALSE,
                  model |-> NoModel, seeded |-> {}]
      /\ doneCh = FALSE /\ agg = [expected |-> NumClients, round |-> 0, updates |-> <<>>]
      /\ mon = [validation |-> TRUE, model |-> NoModel, log |-> {}]
      /\ registered = <<>> /\ coordBox = <<>> /\ aggBox = <<>> /\ monBox = <<>> /\ cmBox = <<>>
      /\ clientBox = [c \in Clients |-> <<>>] /\ wire = EmptyBag
      /\ up = [c \in Clients |-> TRUE] /\ tries = [c \in Clients |-> 0] /\ peersTold = FALSE
  BY DEF Init
<1>2. \A x : Copies(wire, x) = 0
  BY <1>1 DEF Copies, EmptyBag, SetToBag
<1>3. \A x : Occ(<<>>, x) = 0
  BY OccEmpty
<1>4. ASSUME NEW c \in Clients, NEW r \in Rounds PROVE Work(c, r) = 0
  <2>1. Asked(c, r) = 0 /\ Answered(c, r) = 0
    BY <1>2 DEF Asked, Answered
  <2>2. Waiting(c, r) = 0 /\ Queued(c, r) = 0 /\ Held(c, r) = 0
    BY <1>1, <1>3 DEF Waiting, Queued, Held
  <2> QED BY <2>1, <2>2 DEF Work
<1>5. WorkIs(0)
  BY <1>4 DEF WorkIs, Rounds
<1>6. AllUp
  BY <1>1 DEF AllUp
<1>7. AssignsOnce
  <2>1. ASSUME NEW c \in Clients PROVE Assigns(c) = 0
    BY <1>1, <1>2, <1>3 DEF Assigns
  <2>2. Len(registered) + Len(cmBox) <= Len(coord.clients)
    BY <1>1
  <2> QED BY <2>1, <2>2, ClientsCounted DEF AssignsOnce
<1>8. Serves
  BY <1>1 DEF Serves, ServedFull
<1>9. Gathering
  BY <1>1, <1>5 DEF Gathering
<1> QED BY <1>6, <1>7, <1>8, <1>9, PartsOfInv DEF Stage

\* Every step keeps the promise as long as it is no fault.
LEMMA RoundsStep ==
  DataInv /\ DataInv' /\ OnceInv /\ FaultFreeInv /\ [Next]_vars => FaultFreeInv'
<1> SUFFICES ASSUME DataInv, DataInv', OnceInv, FaultFreeInv, [Next]_vars, faults' = {}
             PROVE  RoundsInv'
  BY DEF FaultFreeInv
<1>1. faults = {}
  BY FaultsStay
<1>2. RoundsInv /\ JoinOnce
  BY <1>1 DEF FaultFreeInv, OnceInv, Calm
<1>3. ASSUME NEW kind PROVE ~Fault(kind)
  BY DEF Fault
<1>4. CASE ActorStep
  <2>1. UNCHANGED envVars
    BY <1>4 DEF ActorStep
  <2>2. CASE Coordinator
    BY <1>2, <2>1, <2>2, CoordinatorGathers, CoordinatorTrains
  <2>3. CASE Aggregator
    BY <1>2, <2>1, <2>3, AggregatorMoves
  <2>4. CASE Monitor
    BY <1>2, <2>1, <2>4, MonitorMoves
  <2>5. CASE CMRegisterClient
    BY <1>2, <2>1, <2>5, ClusterManagerMoves
  <2>6. CASE \E c \in Clients : Client(c)
    BY <1>2, <2>1, <2>6, ClientMoves
  <2> QED BY <1>4, <2>2, <2>3, <2>4, <2>5, <2>6 DEF ActorStep, Actors
<1>5. CASE MainSetPeers
  BY <1>2, <1>5, PeersAreSet
<1>6. CASE Deliver
  <2>1. CASE \E c \in Clients, n \in 1..MaxTries : DeliverJoin(c, n)
    BY <1>2, <2>1, JoinArrives
  <2>2. CASE \E e \in BagToSet(wire) : DeliverUpdate(e) \/ DeliverToClient(e)
    BY <1>2, <2>2, UpdateArrives, MessageArrives DEF BagToSet
  <2> QED BY <1>6, <2>1, <2>2 DEF Deliver
<1>7. ASSUME NEW c \in Clients,
             \/ SendJoin(c) \/ JoinTimeout(c) \/ GiveUp(c)
             \/ ClientCrash(c) \/ ClientRestart(c) \/ ReportCrashed(c)
      PROVE  RoundsInv'
  <2>1. ~JoinTimeout(c) /\ ~ClientCrash(c) /\ ~ClientRestart(c)
    BY <1>3 DEF JoinTimeout, ClientCrash, ClientRestart
  <2>2. up[c] /\ (joining[c] = "idle" => tries[c] = 0) /\ MaxTries # 0
    BY <1>2, Sizes DEF RoundsInv, AllUp
  <2>3. ~GiveUp(c) /\ ~ReportCrashed(c)
    BY <2>2 DEF GiveUp, ReportCrashed
  <2> QED BY <1>2, <1>7, <2>1, <2>3, JoinIsSent
<1>8. ASSUME (\E c \in Clients : Hear(c)) \/ UNCHANGED vars PROVE RoundsInv'
  <2>1. UNCHANGED <<coord, doneCh, agg, mon, registered, coordBox, aggBox, monBox, cmBox, clientBox,
                    wire, up, joining, tries, peersTold, faults>>
    BY <1>8 DEF Hear, vars, flVars, actorVars, boxVars, envVars
  <2>2. AllUp /\ AssignsOnce /\ Serves /\ Stage
    BY <1>2, PartsOfInv
  <2>3. SameWork
    BY <2>1, WorkAtRest
  <2>4. Stage' /\ Serves'
    BY <2>1, <2>2, <2>3, StageStays DEF stageVars
  <2>5. AssignsOnce'
    BY <2>1, <2>2, AssignsAtRest DEF AssignsOnce
  <2>6. AllUp'
    BY <2>1, <2>2 DEF AllUp
  <2>7. RoundsInv' <=> AllUp' /\ AssignsOnce' /\ Serves' /\ Stage'
    BY PartsOfInv, PTL
  <2> QED BY <2>4, <2>5, <2>6, <2>7
<1>9. ~Lose /\ \A m \in Clients \cup {CoordinatorId} : ~ReportWrongly(m)
  BY <1>3 DEF Lose, ReportWrongly
<1> QED BY <1>4, <1>5, <1>6, <1>7, <1>8, <1>9 DEF Next

\* As many rounds are measured as the log says.
LEMMA LogCounted ==
  ASSUME NEW k \in Nat
  PROVE  Cardinality(LogUpTo(k)) = k
<1> DEFINE f == [r \in 1..k |-> [round |-> r, of |-> Full(r)]]
<1>1. f \in Bijection(1..k, LogUpTo(k))
  BY DEF LogUpTo, Bijection, Injection, Surjection, IsInjective
<1>2. IsFiniteSet(1..k) /\ Cardinality(1..k) = k
  BY FS_Interval
<1>3. ExistsBijection(1..k, LogUpTo(k))
  BY <1>1 DEF ExistsBijection
<1> QED BY <1>2, <1>3, FS_Bijection

\* What the invariant says of the averages and of the rounds.
LEMMA RoundsAreFaultFree == DataInv /\ FaultFreeInv => FaultFreeRounds
<1> SUFFICES ASSUME DataInv, FaultFreeInv, faults = {} PROVE FaultFreeRounds
  BY Zenon DEF FaultFreeRounds
<1> DEFINE n == coord.round
<1>1. AllUp /\ AssignsOnce /\ Serves /\ Stage
  BY PartsOfInv DEF FaultFreeInv
<1>2. n \in Nat
  BY Sizes DEF DataInv, CoordOK, CoordRecord
<1>3. ASSUME NEW a \in Averages PROVE \E r \in 1..n : a = Full(r)
  <2>1. CASE a \in {coord.model, mon.model} \ {NoModel}
    BY <1>1, <2>1 DEF Serves, ServedFull
  <2>2. CASE a \in {m.model : m \in {x \in ToSet(coordBox) : x.type = "AggregationResult"}}
    <3>1. PICK i \in DOMAIN coordBox : coordBox[i].type = "AggregationResult" /\ a = coordBox[i].model
      BY <2>2 DEF ToSet
    <3>2. ~Gathering /\ coordBox # <<>>
      BY <3>1 DEF Gathering
    <3>3. ~Measured
      <4>1. ASSUME NEW b, coordBox = <<MetricsReport(n, b)>> PROVE FALSE
        <5>1. i = 1 /\ coordBox[1] = MetricsReport(n, b)
          BY <3>1, <4>1
        <5> QED BY <3>1, <5>1 DEF MetricsReport
      <4> QED BY <4>1 DEF Measured
    <3>4. Averaged
      BY <1>1, <3>2, <3>3 DEF Stage, Open, Reported, Over
    <3>5. i = 1 /\ coordBox[1] = AggregationResult(n, Full(n))
      BY <3>1, <3>4 DEF Averaged
    <3>6. a = Full(n) /\ n \in 1..n
      BY <3>1, <3>4, <3>5 DEF AggregationResult, Averaged, Rounds
    <3> QED BY <3>6
  <2>3. CASE a \in {m.model : m \in {x \in ToSet(monBox) : x.type = "SetGlobalModel"}}
    <3>1. PICK i \in DOMAIN monBox : monBox[i].type = "SetGlobalModel" /\ a = monBox[i].model
      BY <2>3 DEF ToSet
    <3>2. Reported
      BY <1>1, <3>1 DEF Stage, Gathering, Open, Averaged, Measured, Over
    <3>3. coord.model = Full(n) /\ n \in 1..n
      BY <3>2 DEF Reported, Rounds
    <3>4. CASE monBox = <<SetGlobalModel(coord.model), RoundComplete(n)>>
      <4>1. i = 1 \/ i = 2
        BY <3>1, <3>4
      <4>2. monBox[1] = SetGlobalModel(coord.model) /\ monBox[2] = RoundComplete(n)
        BY <3>4
      <4>3. i = 1
        BY <3>1, <4>1, <4>2 DEF RoundComplete
      <4> QED BY <3>1, <3>3, <4>2, <4>3 DEF SetGlobalModel
    <3>5. CASE monBox = <<RoundComplete(n)>>
      <4>1. i = 1 /\ monBox[1] = RoundComplete(n)
        BY <3>1, <3>5
      <4> QED BY <3>1, <4>1 DEF RoundComplete
    <3> QED BY <3>2, <3>4, <3>5 DEF Reported
  <2> QED BY <2>1, <2>2, <2>3 DEF Averages
<1>4. ASSUME NEW r PROVE \A c \in Clients, s \in Rounds : Full(r)[c, s] = IF s = r THEN 1 ELSE 0
  BY Zenon DEF Full
<1>5. \A a \in Averages : \E r \in 1..n :
        \A c \in Clients, s \in Rounds : a[c, s] = IF s = r THEN 1 ELSE 0
  <2> TAKE a \in Averages
  <2>1. PICK r \in 1..n : a = Full(r)
    BY <1>3
  <2> QED BY <1>4, <2>1, Zenon
<1>6. n - Cardinality(mon.log) \in {0, 1}
  <2>1. CASE mon.log = LogUpTo(n)
    BY <1>2, <2>1, LogCounted
  <2>2. CASE mon.log = LogUpTo(n - 1) /\ n \in Rounds
    <3>1. n - 1 \in Nat
      BY <2>2 DEF Rounds
    <3>2. Cardinality(mon.log) = n - 1
      BY <2>2, <3>1, LogCounted
    <3> QED BY <1>2, <3>2
  <2>3. CASE Gathering
    <3>1. n = 0 /\ mon.log = {}
      BY <2>3 DEF Gathering
    <3> QED BY <3>1, FS_EmptySet
  <2> QED BY <1>1, <2>1, <2>2, <2>3 DEF Stage, Open, Averaged, Reported, Measured, Over
<1> QED BY <1>1, <1>5, <1>6, Zenon DEF FaultFreeRounds, AllUp

\* The invariant holds from the start.
LEMMA RoundsInvariance == Spec => [](DataInv /\ OnceInv /\ FaultFreeInv)
<1>1. Init => DataInv /\ OnceInv /\ FaultFreeInv
  BY DataInit, OnceInit, RoundsInit
<1>2. DataInv /\ OnceInv /\ FaultFreeInv /\ [Next]_vars => DataInv' /\ OnceInv' /\ FaultFreeInv'
  BY DataStep, OnceStep, RoundsStep
<1> QED BY <1>1, <1>2, PTL DEF Spec

\* Without a fault the distributed deployment keeps the promise of the local
\* one: every average is of one update of each client in one round, the
\* coordinator survives, and no round begins before the last one is measured.
THEOREM FaultFreeRoundsAreComplete == Spec => []FaultFreeRounds
<1>1. DataInv /\ OnceInv /\ FaultFreeInv => FaultFreeRounds
  BY RoundsAreFaultFree
<1> QED BY <1>1, RoundsInvariance, PTL
-----------------------------------------------------------------------------
(* The abstract training loop.                                             *)

\* The messages between the coordinator and the monitor tell whether the clients
\* are at work.
RoundOpen == coord.round > 0 /\ ~doneCh /\ coordBox = <<>> /\ monBox = <<>>

\* The aggregator's round is that of the last update it took.
AggRoundInv == agg.round = IF RoundOpen /\ agg.updates = <<>> THEN coord.round - 1 ELSE coord.round

\* the invariant of the refinement, while nothing has failed
LoopInv == faults = {} => AggRoundInv

\* Rounds are counted from nought.
LEMMA RoundNumber == DataInv => coord.round \in Nat /\ coord.round \in 0..TotalRounds /\ TotalRounds \in Nat
BY Sizes DEF DataInv, CoordOK, CoordRecord

\* A round is open just when the messages say so.
LEMMA OpenSeen == DataInv /\ RoundsInv => (RoundOpen <=> Open)
<1> SUFFICES ASSUME DataInv, RoundsInv PROVE RoundOpen <=> Open
  OBVIOUS
<1>1. Stage /\ coord.round \in Nat
  BY PartsOfInv, RoundNumber
<1>2. Open => RoundOpen
  BY Sizes DEF Open, RoundOpen, Rounds
<1>3. ASSUME RoundOpen PROVE Open
  <2>1. ~Gathering /\ ~Over /\ ~Reported
    BY <1>1, <1>3 DEF RoundOpen, Gathering, Over, Reported
  <2>2. ~Averaged /\ ~Measured
    BY <1>3 DEF RoundOpen, Averaged, Measured
  <2> QED BY <1>1, <2>1, <2>2 DEF Stage
<1> QED BY <1>2, <1>3

\* Between rounds the aggregator has collected nothing.
LEMMA NothingCollected == DataInv /\ RoundsInv /\ ~RoundOpen => agg.updates = <<>>
<1> SUFFICES ASSUME DataInv, RoundsInv, ~RoundOpen, agg.updates # <<>> PROVE FALSE
  OBVIOUS
<1> DEFINE n == coord.round
<1>1. Stage /\ WorkCounts /\ n \in 0..TotalRounds /\ TotalRounds \in Nat
      /\ agg.updates \in Seq(UpdatesUpTo(n))
  BY PartsOfInv, WorkIsCounted, RoundNumber DEF DataInv, DataOK, AggOK
<1>2. WorkIs(0)
  BY <1>1, OpenSeen DEF Stage, Gathering, Averaged, Reported, Measured, Over
<1>3. 1 \in DOMAIN agg.updates
  BY <1>1, LenProperties, EmptySeq
<1>4. agg.updates[1] \in UpdatesUpTo(n)
  BY <1>1, <1>3, LenProperties, ElementOfSeq
<1>5. PICK c \in Clients, r \in 1..n : agg.updates[1] = Update(c, r)
  BY <1>4 DEF UpdatesUpTo, Update
<1>6. r \in Rounds /\ r # 0
  BY <1>1 DEF Rounds
<1>7. Held(c, r) \in Nat /\ Held(c, r) >= 1
  BY <1>1, <1>3, <1>5, OccIn DEF Held
<1>8. Work(c, r) = 0
  BY <1>2, <1>6 DEF WorkIs
<1> QED BY <1>1, <1>6, <1>7, <1>8, WorkParts

\* the phase of the loop, as the messages tell it
PhaseView ==
  /\ Phase = IF doneCh THEN "done" ELSE IF coord.round = 0 THEN "idle"
             ELSE IF RoundOpen THEN "training" ELSE "evaluating"
  /\ Phase = "training" <=> RoundOpen

\* So it is as long as nothing has failed, ...
LEMMA PhaseSeen == DataInv /\ RoundsInv /\ AggRoundInv => PhaseView
<1> SUFFICES ASSUME DataInv, RoundsInv, AggRoundInv PROVE PhaseView
  OBVIOUS
<1>1. coord.up /\ coord.round \in Nat
  BY RoundNumber DEF RoundsInv, AllUp
<1>2. CASE RoundOpen
  <2>1. ~Aggregated
    BY <1>1, <1>2 DEF AggRoundInv, Aggregated
  <2> QED BY <1>1, <1>2, <2>1 DEF Phase, RoundOpen, PhaseView
<1>3. CASE ~RoundOpen
  <2>1. Aggregated
    BY <1>3, NothingCollected DEF AggRoundInv, Aggregated
  <2> QED BY <1>1, <1>3, <2>1 DEF Phase, PhaseView
<1> QED BY <1>2, <1>3

\* ... in the next state as well.
LEMMA PhaseSeenNext == DataInv' /\ RoundsInv' /\ AggRoundInv' => PhaseView'
BY PhaseSeen, PTL

\* what contributed stands for, in the refinement mapping
Mapped == IF Phase = "training" THEN Contributed
          ELSE {c \in Clients : \E r \in Rounds : LatestAverage[<<c, r>>] > 0}

\* what a reader of the abstract loop sees in it
MappedView ==
  Mapped = IF RoundOpen THEN Contributed ELSE IF coord.round = 0 THEN {} ELSE Clients

\* Between rounds the average at hand is of everybody's update, or there is none.
LEMMA MappedSeen == DataInv /\ RoundsInv /\ AggRoundInv => MappedView
<1> DEFINE n == coord.round
           Averagers == {c \in Clients : \E r \in Rounds : LatestAverage[<<c, r>>] > 0}
<1> SUFFICES ASSUME DataInv, RoundsInv, AggRoundInv PROVE MappedView
  OBVIOUS
<1>1. Stage /\ Serves /\ n \in Nat /\ PhaseView
  BY PartsOfInv, RoundNumber, PhaseSeen
<1>2. CASE RoundOpen
  BY <1>1, <1>2 DEF PhaseView, Mapped, MappedView
<1>3. CASE ~RoundOpen /\ n = 0
  <2>1. coord.model = NoModel
    BY <1>1, <1>3 DEF Serves, ServedFull
  <2>2. ASSUME coordBox # <<>> PROVE Head(coordBox).type # "AggregationResult"
    <3>1. Gathering
      BY <1>1, <1>3, <2>2 DEF Stage, Open, Averaged, Reported, Measured, Over, Rounds
    <3>2. coordBox \in Seq(CoordMsgs(n))
      BY DEF DataInv, DataOK, BoxesOK, CoordBoxOK
    <3>3. 1 \in DOMAIN coordBox /\ Head(coordBox) = coordBox[1]
      BY <2>2, <3>2, LenProperties, EmptySeq
    <3> QED BY <3>1, <3>3 DEF Gathering
  <2>3. LatestAverage = NoModel
    BY <2>1, <2>2 DEF LatestAverage
  <2>4. \A c \in Clients, r \in Rounds : ~(LatestAverage[<<c, r>>] > 0)
    BY <2>3 DEF NoModel
  <2>5. Averagers = {}
    BY <2>4
  <2> QED BY <1>1, <1>3, <2>5 DEF PhaseView, Mapped, MappedView
<1>4. CASE ~RoundOpen /\ n # 0
  <2>1. Averaged \/ Reported \/ Measured \/ Over
    BY <1>1, <1>4, OpenSeen DEF Stage, Gathering
  <2>2. LatestAverage = Full(n) /\ n \in Rounds
    <3>1. CASE Averaged
      BY <3>1 DEF Averaged, AggregationResult, LatestAverage
    <3>2. CASE Reported
      BY <3>2 DEF Reported, LatestAverage
    <3>3. CASE Measured
      BY <3>3 DEF Measured, MetricsReport, LatestAverage
    <3>4. CASE Over
      <4>1. n > 0 /\ n \in Rounds
        BY <1>1, <1>4, RoundNumber DEF Rounds
      <4> QED BY <3>4, <4>1 DEF Over, LatestAverage
    <3> QED BY <2>1, <3>1, <3>2, <3>3, <3>4
  <2>3. \A c \in Clients : Full(n)[<<c, n>>] = 1
    BY <2>2 DEF Full
  <2>4. Averagers = Clients
    BY <2>2, <2>3
  <2> QED BY <1>1, <1>4, <2>4 DEF PhaseView, Mapped, MappedView
<1> QED BY <1>2, <1>3, <1>4

\* The same in the next state.
LEMMA MappedSeenNext == DataInv' /\ RoundsInv' /\ AggRoundInv' => MappedView'
BY MappedSeen, PTL

\* Steps that touch neither the round nor the aggregator, between rounds or in one.
LoopRests ==
  UNCHANGED <<doneCh, agg>> /\ coord'.round = coord.round /\ (RoundOpen' <=> RoundOpen)

\* Such a step is none of the loop's.
LEMMA RestsStutter ==
  ASSUME DataInv, RoundsInv, AggRoundInv, DataInv', RoundsInv', LoopRests
  PROVE  AggRoundInv' /\ UNCHANGED Loop!loopVars
<1>1. UNCHANGED <<doneCh, agg>> /\ coord'.round = coord.round /\ (RoundOpen' <=> RoundOpen)
  BY DEF LoopRests
<1>2. AggRoundInv'
  BY <1>1 DEF AggRoundInv
<1>3. PhaseView /\ PhaseView' /\ MappedView /\ MappedView'
  BY <1>2, PhaseSeen, PhaseSeenNext, MappedSeen, MappedSeenNext
<1>4. Phase' = Phase
  BY <1>1, <1>3 DEF PhaseView
<1>5. Contributed' = Contributed
  BY <1>1 DEF Contributed
<1>6. Mapped' = Mapped
  BY <1>1, <1>3, <1>5 DEF MappedView
<1> QED BY <1>1, <1>2, <1>4, <1>6 DEF Loop!loopVars, Mapped

\* The next round begins, or training ends.
LoopAdvances ==
  /\ ~RoundOpen /\ ~doneCh /\ UNCHANGED agg
  /\ \/ coord.round < TotalRounds /\ coord'.round = coord.round + 1 /\ RoundOpen'
     \/ (coord.round = TotalRounds \/ coord.round > 0) /\ coord'.round = coord.round /\ doneCh'

\* Such a step is one of the loop's.
LEMMA AdvancesStep ==
  ASSUME DataInv, RoundsInv, AggRoundInv, DataInv', RoundsInv', LoopAdvances
  PROVE  AggRoundInv' /\ Loop!Next
<1>1. /\ ~RoundOpen /\ ~doneCh /\ UNCHANGED agg /\ agg.updates = <<>> /\ agg.round = coord.round
      /\ coord.round \in Nat /\ TotalRounds \in Nat
  BY NothingCollected, RoundNumber DEF LoopAdvances, AggRoundInv
<1>2. CASE coord.round < TotalRounds /\ coord'.round = coord.round + 1 /\ RoundOpen'
  <2>1. AggRoundInv'
    BY <1>1, <1>2 DEF AggRoundInv
  <2>2. PhaseView /\ PhaseView' /\ MappedView'
    BY <2>1, PhaseSeen, PhaseSeenNext, MappedSeenNext
  <2>3. Phase' = "training" /\ Phase \in {"idle", "evaluating"}
    BY <1>1, <1>2, <2>2 DEF PhaseView
  <2>4. Contributed' = {}
    BY <1>1 DEF Contributed, ToSet
  <2>5. Mapped' = {}
    BY <1>2, <2>2, <2>4 DEF MappedView
  <2>6. Loop!StartRound
    BY <1>2, <2>3, <2>5 DEF Loop!StartRound, Mapped
  <2> QED BY <2>1, <2>6 DEF Loop!Next
<1>3. CASE (coord.round = TotalRounds \/ coord.round > 0) /\ coord'.round = coord.round /\ doneCh'
  <2>1. ~RoundOpen'
    BY <1>3 DEF RoundOpen
  <2>2. AggRoundInv'
    BY <1>1, <1>3, <2>1 DEF AggRoundInv
  <2>3. PhaseView /\ PhaseView' /\ MappedView /\ MappedView'
    BY <2>2, PhaseSeen, PhaseSeenNext, MappedSeen, MappedSeenNext
  <2>4. Phase' = "done" /\ Phase = IF coord.round = 0 THEN "idle" ELSE "evaluating"
    BY <1>1, <1>3, <2>3 DEF PhaseView
  <2>5. Mapped' = Mapped
    BY <1>1, <1>3, <2>1, <2>3 DEF MappedView
  <2>6. Phase = "evaluating" \/ (Phase = "idle" /\ coord.round = TotalRounds)
    BY <1>1, <1>3, <2>4
  <2>7. Loop!Finish
    BY <1>3, <2>4, <2>5, <2>6 DEF Loop!Finish, Mapped
  <2> QED BY <2>2, <2>7 DEF Loop!Next
<1> QED BY <1>2, <1>3 DEF LoopAdvances

\* client d's update is collected: it is the first of d's in this round, and the
\* round is closed if all clients have added to it
LoopCollects(d) ==
  /\ RoundOpen /\ d \notin Contributed /\ UNCHANGED <<coord, doneCh>> /\ agg'.round = coord.round
  /\ \/ agg'.updates # <<>> /\ RoundOpen'
          /\ Contributed' = Contributed \cup {d} /\ Contributed' # Clients
     \/ agg'.updates = <<>> /\ ~RoundOpen' /\ Contributed \cup {d} = Clients

\* Such a step is one of the loop's.
LEMMA CollectsStep ==
  ASSUME DataInv, RoundsInv, AggRoundInv, DataInv', RoundsInv', NEW d \in Clients, LoopCollects(d)
  PROVE  AggRoundInv' /\ Loop!Next
<1>1. /\ RoundOpen /\ d \notin Contributed /\ UNCHANGED <<coord, doneCh>> /\ agg'.round = coord.round
      /\ coord.round \in Nat /\ coord.round # 0 /\ ~doneCh
  BY RoundNumber DEF LoopCollects, RoundOpen
<1>2. AggRoundInv'
  BY <1>1 DEF AggRoundInv, LoopCollects
<1>3. PhaseView /\ PhaseView' /\ MappedView /\ MappedView'
  BY <1>2, PhaseSeen, PhaseSeenNext, MappedSeen, MappedSeenNext
<1>4. Phase = "training" /\ Mapped = Contributed /\ Phase' = IF RoundOpen' THEN "training" ELSE "evaluating"
  BY <1>1, <1>3 DEF PhaseView, MappedView
<1>5. /\ Mapped' = Mapped \cup {d}
      /\ Phase' = IF Mapped' = Clients THEN "evaluating" ELSE "training"
  <2>1. CASE RoundOpen' /\ Contributed' = Contributed \cup {d} /\ Contributed' # Clients
    BY <1>3, <1>4, <2>1 DEF MappedView
  <2>2. CASE ~RoundOpen' /\ Contributed \cup {d} = Clients
    <3>1. Mapped' = Clients
      BY <1>1, <1>3, <2>2 DEF MappedView
    <3> QED BY <1>4, <2>2, <3>1
  <2> QED BY <2>1, <2>2 DEF LoopCollects
<1>6. Loop!Contribute(d)
  BY <1>1, <1>4, <1>5 DEF Loop!Contribute, Mapped
<1> QED BY <1>2, <1>6 DEF Loop!Next

\* A message that is posted leaves no mailbox empty.
LEMMA PostLeaves == \A s, x : Post(s, x) # <<>>
<1> SUFFICES ASSUME NEW s, NEW x PROVE Post(s, x) # <<>>
  OBVIOUS
<1>1. CASE Len(s) < MailboxCap
  <2>1. Post(s, x) = Append(s, x)
    BY <1>1 DEF Post
  <2> QED BY <2>1
<1>2. CASE ~(Len(s) < MailboxCap)
  <2>1. Len(<<>>) = 0 /\ 0 < MailboxCap
    BY Sizes
  <2>2. Post(s, x) = s
    BY <1>2 DEF Post
  <2> QED BY <1>2, <2>1, <2>2
<1> QED BY <1>1, <1>2

\* The round begins that the coordinator counts, or training ends.
LEMMA BeginRoundEffect ==
  ASSUME NEW c \in CoordRecord, BeginRound(c)
  PROVE  \/ c.round < TotalRounds /\ coord'.round = c.round + 1 /\ UNCHANGED doneCh
         \/ c.round = TotalRounds /\ coord'.round = c.round /\ doneCh' = TRUE
<1>1. c.round \in 0..TotalRounds /\ TotalRounds \in Nat
  BY Sizes DEF CoordRecord
<1> DEFINE n == c.round + 1
<1>2. CASE RoundsLeft(c)
  <2>1. coord' = [c EXCEPT !.round = n] /\ UNCHANGED doneCh
    BY <1>2 DEF BeginRound
  <2> HIDE DEF n
  <2>2. coord'.round = n
    BY <2>1 DEF CoordRecord
  <2> QED BY <1>2, <2>1, <2>2 DEF RoundsLeft, n
<1>3. CASE ~RoundsLeft(c)
  <2>1. coord' = [c EXCEPT !.up = ~doneCh] /\ doneCh' = TRUE
    BY <1>3 DEF BeginRound, CloseDone
  <2>2. coord'.round = c.round /\ c.round = TotalRounds
    BY <1>1, <1>3, <2>1 DEF CoordRecord, RoundsLeft
  <2> QED BY <2>1, <2>2
<1> QED BY <1>2, <1>3

\* A coordinator that has a message to take is between rounds, and gathers the
\* clients, has an average, or has metrics.
LEMMA CoordinatorAtWork ==
  ASSUME DataInv, RoundsInv, coordBox # <<>>
  PROVE  /\ ~RoundOpen /\ ~doneCh /\ monBox = <<>>
         /\ \/ Gathering /\ Head(coordBox).type \in {"SetPeers", "ClientJoin"}
                 /\ \A i \in DOMAIN Tail(coordBox) : Tail(coordBox)[i].type \in {"SetPeers", "ClientJoin"}
            \/ Averaged /\ Joined /\ Head(coordBox).type = "AggregationResult"
            \/ Measured /\ Head(coordBox).type = "MetricsReport" /\ Tail(coordBox) = <<>>
<1> DEFINE n == coord.round
<1>1. Stage /\ coordBox \in Seq(CoordMsgs(n))
  BY PartsOfInv DEF DataInv, DataOK, BoxesOK, CoordBoxOK
<1>2. Gathering \/ (Joined /\ (Averaged \/ Measured))
  BY <1>1 DEF Stage, Open, Reported, Over
<1>3. ~RoundOpen /\ ~doneCh /\ monBox = <<>>
  BY <1>2 DEF Gathering, Averaged, Measured, RoundOpen
<1>4. CASE Gathering
  <2>1. Len(coordBox) \in Nat /\ DOMAIN coordBox = 1..Len(coordBox) /\ Len(coordBox) # 0
    BY <1>1, LenProperties, EmptySeq
  <2>2. /\ Tail(coordBox) \in Seq(CoordMsgs(n)) /\ Len(Tail(coordBox)) = Len(coordBox) - 1
        /\ coordBox[1] = Head(coordBox)
        /\ \A i \in 1..Len(Tail(coordBox)) : Tail(coordBox)[i] = coordBox[i + 1]
    BY <1>1, <2>1, HeadTailProperties
  <2>3. DOMAIN Tail(coordBox) = 1..Len(Tail(coordBox))
    BY <2>2, LenProperties
  <2>4. 1 \in DOMAIN coordBox /\ \A i \in DOMAIN Tail(coordBox) : i + 1 \in DOMAIN coordBox
    BY <2>1, <2>2, <2>3
  <2>5. \A i \in DOMAIN coordBox : coordBox[i].type \in {"SetPeers", "ClientJoin"}
    BY <1>4 DEF Gathering
  <2> QED BY <1>3, <1>4, <2>2, <2>3, <2>4, <2>5
<1>5. CASE Joined /\ Averaged
  <2>1. Head(coordBox).type = "AggregationResult"
    BY <1>5 DEF Averaged, AggregationResult
  <2> QED BY <1>3, <1>5, <2>1
<1>6. CASE Measured
  <2>1. Head(coordBox).type = "MetricsReport" /\ Tail(coordBox) = <<>>
    BY <1>6 DEF Measured, MetricsReport
  <2> QED BY <1>3, <1>6, <2>1
<1> QED BY <1>2, <1>4, <1>5, <1>6

\* When the coordinator begins a round it has nothing more to do.
LEMMA RoundIsOpened ==
  ASSUME DataInv, RoundsInv, DataInv', RoundsInv', coordBox # <<>>, coordBox' = Tail(coordBox),
         UNCHANGED monBox, ~Averaged, coord'.round > 0, ~doneCh'
  PROVE  RoundOpen'
<1>1. monBox' = <<>> /\ (coordBox' = <<>> \/ \A i \in DOMAIN coordBox' : coordBox'[i].type \in {"SetPeers", "ClientJoin"})
  BY CoordinatorAtWork
<1>2. Stage' <=> Gathering' \/ (Joined' /\ (Open' \/ Averaged' \/ Reported' \/ Measured' \/ Over'))
  BY DEF Stage
<1>3. RoundsInv' <=> AllUp' /\ AssignsOnce' /\ Serves' /\ Stage'
  BY PartsOfInv, PTL
<1>4. ~Gathering' /\ ~Over'
  <2>1. coord'.round # 0
    OBVIOUS
  <2> QED BY <2>1 DEF Gathering, Over
<1>5. ~Reported'
  BY <1>1 DEF Reported
<1>6. ASSUME Averaged' PROVE FALSE
  <2>1. 1 \in DOMAIN coordBox' /\ coordBox'[1].type = "AggregationResult" /\ coordBox' # <<>>
    <3>1. PICK n, m : coordBox' = <<AggregationResult(n, m)>>
      BY <1>6 DEF Averaged, AggregationResult
    <3> QED BY <3>1 DEF AggregationResult
  <2> QED BY <1>1, <2>1
<1>7. ASSUME Measured' PROVE FALSE
  <2>1. 1 \in DOMAIN coordBox' /\ coordBox'[1].type = "MetricsReport" /\ coordBox' # <<>>
    <3>1. PICK n, b : coordBox' = <<MetricsReport(n, b)>>
      BY <1>7 DEF Measured, MetricsReport
    <3> QED BY <3>1 DEF MetricsReport
  <2> QED BY <1>1, <2>1
<1>8. Open'
  BY <1>2, <1>3, <1>4, <1>5, <1>6, <1>7
<1> QED BY <1>8 DEF Open, RoundOpen

\* A round that the coordinator begins, or its close of DoneCh, is the loop's.
LEMMA RoundIsBegun ==
  ASSUME DataInv, RoundsInv, DataInv', RoundsInv', coordBox # <<>>, coordBox' = Tail(coordBox),
         UNCHANGED <<agg, monBox>>, ~Averaged,
         NEW c \in CoordRecord, c.round = coord.round, BeginRound(c)
  PROVE  LoopAdvances
<1>1. ~RoundOpen /\ ~doneCh /\ coord.round \in Nat /\ TotalRounds \in Nat
  BY CoordinatorAtWork, RoundNumber
<1>2. CASE c.round < TotalRounds /\ coord'.round = c.round + 1 /\ UNCHANGED doneCh
  <2>1. coord'.round > 0 /\ ~doneCh'
    BY <1>1, <1>2
  <2>2. RoundOpen'
    BY <2>1, RoundIsOpened
  <2> QED BY <1>1, <1>2, <2>2 DEF LoopAdvances
<1>3. CASE c.round = TotalRounds /\ coord'.round = c.round /\ doneCh' = TRUE
  BY <1>1, <1>3 DEF LoopAdvances
<1> QED BY <1>2, <1>3, BeginRoundEffect

\* What the coordinator does is a step of the loop or none.
LEMMA CoordinatorLoop ==
  ASSUME DataInv, RoundsInv, DataInv', RoundsInv', Coordinator
  PROVE  LoopRests \/ LoopAdvances
<1> DEFINE n == coord.round
           m == Head(coordBox)
<1>1. coordBox # <<>> /\ coordBox' = Tail(coordBox) /\ UNCHANGED agg
  BY DEF Coordinator, CoordStartFL, CoordAggregationResult, CoordMetricsReport, CoordSetPeers,
     CoordClientJoin, CoordClientDown, CoordTakes
<1>2. /\ ~RoundOpen /\ ~doneCh /\ coord \in CoordRecord /\ coord.up /\ n \in Nat
      /\ \/ Gathering /\ m.type \in {"SetPeers", "ClientJoin"}
         \/ Averaged /\ Joined /\ m.type = "AggregationResult"
         \/ Measured /\ m.type = "MetricsReport"
  BY <1>1, CoordinatorAtWork, RoundNumber DEF DataInv, CoordOK, RoundsInv, AllUp
<1>3. CASE Gathering /\ m.type = "SetPeers"
  <2>1. coord' = [coord EXCEPT !.peers = TRUE] /\ UNCHANGED doneCh
    BY <1>3 DEF Coordinator, CoordStartFL, CoordAggregationResult, CoordMetricsReport, CoordSetPeers,
       CoordClientJoin, CoordClientDown, CoordTakes
  <2>2. coord'.round = n /\ n = 0
    BY <1>2, <1>3, <2>1 DEF CoordRecord, Gathering
  <2> QED BY <1>1, <1>2, <2>1, <2>2 DEF LoopRests, RoundOpen
<1>4. CASE Gathering /\ m.type = "ClientJoin"
  <2>1. CoordClientJoin
    BY <1>4 DEF Coordinator, CoordStartFL, CoordAggregationResult, CoordMetricsReport, CoordSetPeers,
       CoordClientDown, CoordTakes
  <2>2. m.client \in Clients
    <3>1. m \in CoordMsgs(n)
      BY <1>1, TakeFromSeq DEF DataInv, DataOK, BoxesOK, CoordBoxOK
    <3> QED BY <1>4, <3>1 DEF CoordMsgs
  <2> DEFINE joined == [coord EXCEPT !.clients = Append(@, m.client), !.seeded = @ \cup {m.client}]
  <2>3. UNCHANGED <<agg, monBox>>
        /\ \/ BeginRound(joined)
           \/ coord' = joined /\ UNCHANGED doneCh
    BY <2>1 DEF CoordClientJoin
  <2>4. joined \in CoordRecord /\ joined.round = n
    <3>1. coord.clients \in Seq(Clients) /\ Append(coord.clients, m.client) \in Seq(Clients)
      BY <1>2, <2>2, AppendProperties DEF CoordRecord
    <3> QED BY <1>2, <2>2, <3>1 DEF CoordRecord
  <2> HIDE DEF joined
  <2>5. n = 0 /\ ~Averaged
    BY <1>4 DEF Gathering, Averaged, Rounds
  <2>6. CASE BeginRound(joined)
    BY <1>1, <2>3, <2>4, <2>5, <2>6, RoundIsBegun
  <2>7. CASE coord' = joined /\ UNCHANGED doneCh
    BY <1>1, <1>2, <2>4, <2>5, <2>7 DEF LoopRests, RoundOpen
  <2> QED BY <2>3, <2>6, <2>7
<1>5. CASE Averaged /\ Joined /\ m.type = "AggregationResult"
  <2>1. CoordAggregationResult
    BY <1>5 DEF Coordinator, CoordStartFL, CoordMetricsReport, CoordSetPeers,
       CoordClientJoin, CoordClientDown, CoordTakes
  <2>2. /\ coord' = [coord EXCEPT !.model = m.model, !.up = coord.peers]
        /\ monBox' = Report(m) /\ UNCHANGED doneCh
    BY <1>5, <2>1 DEF CoordAggregationResult, Joined
  <2>3. coord'.round = n
    BY <1>2, <2>2 DEF CoordRecord
  <2>4. monBox' # <<>>
    BY <2>2, PostLeaves DEF Report
  <2> QED BY <1>1, <1>2, <2>2, <2>3, <2>4 DEF LoopRests, RoundOpen
<1>6. CASE Measured /\ m.type = "MetricsReport"
  <2>1. CoordMetricsReport
    BY <1>6 DEF Coordinator, CoordStartFL, CoordAggregationResult, CoordSetPeers,
       CoordClientJoin, CoordClientDown, CoordTakes
  <2>2. UNCHANGED <<agg, monBox>> /\ (CloseDone(coord) \/ BeginRound(coord))
    BY <2>1 DEF CoordMetricsReport
  <2>3. n > 0 /\ ~Averaged
    <3>1. n \in Rounds /\ \E b : coordBox = <<MetricsReport(n, b)>>
      BY <1>6 DEF Measured
    <3>2. m.type # "AggregationResult" /\ m = coordBox[1]
      BY <1>6, <3>1
    <3>3. ASSUME Averaged PROVE FALSE
      BY <1>6, <3>3 DEF Averaged, AggregationResult
    <3> QED BY <3>1, <3>3 DEF Rounds
  <2>4. CASE BeginRound(coord)
    BY <1>1, <1>2, <2>2, <2>3, <2>4, RoundIsBegun
  <2>5. CASE CloseDone(coord)
    <3>1. doneCh' /\ coord'.round = n
      BY <1>2, <2>5 DEF CloseDone, CoordRecord
    <3> QED BY <1>1, <1>2, <2>3, <3>1 DEF LoopAdvances
  <2> QED BY <2>2, <2>4, <2>5
<1> QED BY <1>2, <1>3, <1>4, <1>5, <1>6

\* The monitor works between rounds, and leaves a message for itself or for the
\* coordinator.
LEMMA MonitorLoop ==
  ASSUME DataInv, RoundsInv, Monitor
  PROVE  LoopRests
<1>1. /\ AllUp /\ Serves /\ Stage
      /\ mon \in [validation : BOOLEAN, model : Served(coord.round), log : SUBSET [round : Rounds, of : Models]]
  BY PartsOfInv, Sizes DEF DataInv, DataOK, MonOK
<1>2. monBox # <<>> /\ monBox' = Tail(monBox) /\ UNCHANGED <<coord, doneCh, agg>>
  BY DEF Monitor, MonSetGlobalModel, MonRoundComplete, MonTakes
<1>3. Reported
  BY <1>1, <1>2 DEF Stage, Gathering, Open, Averaged, Measured, Over
<1>4. ~RoundOpen
  BY <1>2 DEF RoundOpen
<1>5. monBox' # <<>> \/ coordBox' # <<>>
  <2>1. CASE monBox = <<SetGlobalModel(coord.model), RoundComplete(coord.round)>>
    <3>1. monBox' = <<RoundComplete(coord.round)>>
      BY <1>2, <2>1
    <3> QED BY <3>1
  <2>2. CASE monBox = <<RoundComplete(coord.round)>> /\ mon.model = coord.model
    <3>1. Head(monBox).type = "RoundComplete" /\ mon.validation /\ mon.model # NoModel
      BY <1>1, <1>3, <2>2, FullIsModel DEF RoundComplete, AllUp, Reported
    <3>2. \E converged \in BOOLEAN :
             coordBox' = Post(coordBox, MetricsReport(Head(monBox).round, converged))
      BY <3>1 DEF Monitor, MonSetGlobalModel, MonRoundComplete, MonTakes
    <3> QED BY <3>2, PostLeaves
  <2> QED BY <1>3, <2>1, <2>2 DEF Reported
<1> QED BY <1>2, <1>4, <1>5 DEF LoopRests, RoundOpen

\* A list of one round's updates, none twice, is as long as there are clients if
\* it is of all of them, and only then.
LEMMA ContributorsCounted ==
  ASSUME NEW S, NEW us \in Seq(S), NEW k, NoRepeat(us),
         \A i \in DOMAIN us : \E c \in Clients : us[i] = Update(c, k)
  PROVE  Len(us) >= NumClients <=> {u.client : u \in ToSet(us)} = Clients
<1> DEFINE C == {u.client : u \in ToSet(us)}
           f == [i \in 1..Len(us) |-> us[i].client]
<1>1. Len(us) \in Nat /\ DOMAIN us = 1..Len(us)
  BY LenProperties
<1>2. \A i \in DOMAIN us : us[i].client \in Clients /\ us[i] = Update(us[i].client, k)
  BY DEF Update
<1>3. C = {us[i].client : i \in DOMAIN us}
  BY DEF ToSet
<1>4. f \in Bijection(1..Len(us), C)
  <2>1. \A i, j \in 1..Len(us) : f[i] = f[j] => i = j
    BY <1>1, <1>2 DEF NoRepeat
  <2> QED BY <1>1, <1>3, <2>1 DEF Bijection, Injection, Surjection, IsInjective
<1>5. Cardinality(C) = Len(us)
  <2>1. ExistsBijection(1..Len(us), C)
    BY <1>4 DEF ExistsBijection
  <2>2. \A l \in Nat : IsFiniteSet(1..l) /\ Cardinality(1..l) = l
    BY FS_Interval
  <2>3. IsFiniteSet(1..Len(us)) /\ Cardinality(1..Len(us)) = Len(us)
    BY <1>1, <2>2
  <2> QED BY <2>1, <2>3, FS_Bijection
<1>6. C \in SUBSET Clients
  BY <1>2, <1>3
<1> HIDE DEF C
<1>7. /\ Cardinality(C) <= NumClients /\ NumClients \in Nat
      /\ Cardinality(C) = NumClients => C = Clients
      /\ C = Clients => (Cardinality(C) = NumClients)
  BY <1>6, Sizes, FS_Subset DEF NumClients
<1>8. PICK l : l = Len(us)
  OBVIOUS
<1>9. l \in Nat /\ l <= NumClients /\ (l = NumClients => C = Clients) /\ (C = Clients => l = NumClients)
  BY <1>1, <1>5, <1>7, <1>8
<1>10. l >= NumClients <=> l = NumClients
  BY <1>7, <1>9
<1> QED BY <1>8, <1>9, <1>10 DEF C

\* Taking an update, the aggregator adds a client that has not contributed yet,
\* and closes the round with the last one.
LEMMA AggregatorLoop ==
  ASSUME DataInv, RoundsInv, Aggregator
  PROVE  \E d \in Clients : LoopCollects(d)
<1> DEFINE n == coord.round
           m == Head(aggBox)
           R == [expected : 1..NumClients, round : 0..n, updates : Seq(UpdatesUpTo(n))]
<1>1. AllUp /\ WorkCounts /\ agg \in R /\ agg.updates \in Seq(UpdatesUpTo(n)) /\ agg.expected = NumClients
  BY WorkIsCounted, PartsOfInv DEF DataInv, DataOK, AggOK, AllUp
<1>2. aggBox # <<>> /\ UNCHANGED <<coord, doneCh, monBox>>
  BY DEF Aggregator, AggLocalUpdate, AggRemoveClient, AggTakes
<1>3. PICK d \in Clients : Takes(d)
  BY <1>2, AggregatorTakes
<1>4. /\ Open /\ m = LocalUpdate(d, n) /\ Queued(d, n) # 0 /\ Kept(n) = agg.updates /\ n \in Rounds
      /\ \A i \in DOMAIN agg.updates : \E c \in Clients : agg.updates[i] = Update(c, n)
      /\ \A c \in Clients : Work(c, n) = 1
  BY <1>3 DEF Takes, Open, Collected, WorkIs
<1>5. RoundOpen /\ coordBox = <<>>
  BY <1>4, OpenSeen DEF Open
<1>6. Update(d, n) \notin ToSet(agg.updates)
  <2>1. Held(d, n) = 0
    BY <1>1, <1>4, WorkParts
  <2> QED BY <1>1, <2>1, OccFacts DEF Held, ToSet
<1>7. d \notin Contributed
  <2>1. ASSUME NEW i \in DOMAIN agg.updates, agg.updates[i].client = d PROVE FALSE
    <3>1. agg.updates[i] = Update(d, n)
      <4>1. PICK c \in Clients : agg.updates[i] = Update(c, n)
        BY <1>4
      <4>2. c = d
        BY <2>1, <4>1 DEF Update
      <4> QED BY <4>1, <4>2
    <3> QED BY <1>6, <3>1 DEF ToSet
  <2> QED BY <2>1 DEF Contributed, ToSet
<1>8. NoRepeat(agg.updates)
  <2>1. ASSUME NEW i \in DOMAIN agg.updates PROVE Occ(agg.updates, agg.updates[i]) <= 1
    <3>1. PICK c \in Clients : agg.updates[i] = Update(c, n)
      BY <1>4
    <3>2. Held(c, n) = 0 \/ Held(c, n) = 1
      BY <1>1, <1>4, WorkParts
    <3> QED BY <3>1, <3>2 DEF Held
  <2> QED BY <1>1, <2>1, OccursOnce
<1>9. PICK us : us = Append(agg.updates, Update(d, n))
  OBVIOUS
<1>10. /\ us \in Seq(UpdatesUpTo(n)) /\ NoRepeat(us) /\ us # <<>>
       /\ \A i \in DOMAIN us : \E c \in Clients : us[i] = Update(c, n)
       /\ ToSet(us) = ToSet(agg.updates) \cup {Update(d, n)}
  <2>1. Update(d, n) \in UpdatesUpTo(n)
    BY <1>4 DEF Update, UpdatesUpTo, Rounds
  <2>2. us \in Seq(UpdatesUpTo(n)) /\ NoRepeat(us) /\ ToSet(us) = ToSet(agg.updates) \cup {Update(d, n)}
    BY <1>1, <1>6, <1>8, <1>9, <2>1, AppendNew, AppendProperties
  <2>3. \A x \in ToSet(us) : \E c \in Clients : x = Update(c, n)
    BY <1>4, <2>2 DEF ToSet
  <2>4. Update(d, n) \in ToSet(us)
    BY <2>2
  <2>5. \A i \in DOMAIN us : us[i] \in ToSet(us)
    BY DEF ToSet
  <2>6. us # <<>>
    BY <2>4 DEF ToSet
  <2> QED BY <2>2, <2>3, <2>5, <2>6
<1>11. {u.client : u \in ToSet(us)} = Contributed \cup {d}
  <2>1. Update(d, n).client = d
    BY DEF Update
  <2> QED BY <1>10, <2>1 DEF Contributed
<1>12. Len(us) >= NumClients <=> Contributed \cup {d} = Clients
  BY <1>10, <1>11, ContributorsCounted
<1> DEFINE a == [agg EXCEPT !.round = n, !.updates = us]
<1>13. Settle(a)
  <2>1. m.client = d /\ m.round = n /\ m.type = "LocalUpdate"
    BY <1>4 DEF LocalUpdate
  <2>2. AggLocalUpdate
    BY <2>1 DEF Aggregator, AggRemoveClient, AggTakes
  <2> QED BY <1>4, <1>9, <2>1, <2>2 DEF AggLocalUpdate
<1>14. a.updates = us /\ a.expected = NumClients /\ a.round = n
       /\ a \in [expected : 1..NumClients, round : {n}, updates : {us}]
  BY <1>1
<1> HIDE DEF a
<1>15. CASE Len(us) >= NumClients
  <2>1. agg' = [a EXCEPT !.updates = <<>>]
        /\ coordBox' = Post(coordBox, AggregationResult(a.round, FedAvg(a.updates)))
    BY <1>13, <1>14, <1>15 DEF Settle, Enough
  <2>2. agg'.updates = <<>> /\ agg'.round = n
    BY <1>14, <2>1
  <2>3. ~RoundOpen'
    BY <2>1, PostLeaves DEF RoundOpen
  <2> QED BY <1>2, <1>5, <1>7, <1>12, <1>15, <2>2, <2>3 DEF LoopCollects
<1>16. CASE ~(Len(us) >= NumClients)
  <2>1. agg' = a /\ coordBox' = coordBox
    BY <1>13, <1>14, <1>16 DEF Settle, Enough
  <2>2. agg'.updates = us /\ agg'.round = n
    BY <1>14, <2>1
  <2>3. RoundOpen'
    BY <1>2, <1>5, <2>1 DEF RoundOpen
  <2>4. Contributed' = Contributed \cup {d}
    BY <1>11, <2>2 DEF Contributed
  <2> QED BY <1>2, <1>5, <1>7, <1>10, <1>12, <1>16, <2>2, <2>3, <2>4 DEF LoopCollects
<1> QED BY <1>15, <1>16

\* Steps of the clients, the cluster manager and the network leave the loop alone.
LEMMA OthersRest ==
  ASSUME DataInv, JoinOnce, RoundsInv, faults' = {},
         \/ CMRegisterClient \/ MainSetPeers \/ Deliver
         \/ \E c \in Clients : Client(c) \/ SendJoin(c) \/ Hear(c)
         \/ UNCHANGED vars
  PROVE  LoopRests
<1>1. CASE UNCHANGED <<coord, doneCh, agg, coordBox, monBox>>
  BY <1>1 DEF LoopRests, RoundOpen
<1>2. CASE CMRegisterClient
  BY <1>1, <1>2 DEF CMRegisterClient
<1>3. CASE MainSetPeers
  <2>1. ~RoundOpen /\ Gathering
    BY <1>3, PartsOfInv DEF MainSetPeers, Stage, Joined, Gathering, RoundOpen
  <2>2. UNCHANGED <<coord, doneCh, agg>> /\ coord.round = 0
    BY <1>3, <2>1 DEF MainSetPeers, actorVars, Gathering
  <2> QED BY <2>1, <2>2 DEF LoopRests, RoundOpen
<1>4. ASSUME NEW c \in Clients, NEW k \in 1..MaxTries, DeliverJoin(c, k)
      PROVE  LoopRests
  <2>1. Gathering
    BY <1>4, JoinGathers DEF DeliverJoin, BagIn, BagToSet
  <2>2. UNCHANGED <<coord, doneCh, agg>> /\ coord.round = 0
    BY <1>4, <2>1 DEF DeliverJoin, actorVars, Gathering
  <2> QED BY <2>2 DEF LoopRests, RoundOpen
<1>5. ASSUME NEW e, DeliverUpdate(e) \/ DeliverToClient(e)
      PROVE  LoopRests
  BY <1>1, <1>5 DEF DeliverUpdate, DeliverToClient, actorVars
<1>6. CASE Deliver
  BY <1>4, <1>5, <1>6 DEF Deliver
<1>7. ASSUME NEW c \in Clients, Client(c) \/ SendJoin(c) \/ Hear(c)
      PROVE  LoopRests
  BY <1>1, <1>7 DEF Client, ClientStartRound, ClientClusterAssign, SendJoin, Hear,
       flVars, actorVars, boxVars
<1>8. CASE UNCHANGED vars
  BY <1>1, <1>8 DEF vars, flVars, actorVars, boxVars
<1> QED BY <1>2, <1>3, <1>6, <1>7, <1>8

\* Every step is one of the loop's or none, as long as it is no fault.
LEMMA LoopStep ==
  ASSUME DataInv, DataInv', OnceInv, FaultFreeInv, FaultFreeInv', LoopInv, [Next]_vars
  PROVE  LoopInv' /\ [faults' = {} => Loop!Next]_(Loop!loopVars)
<1>1. CASE faults' # {}
  BY <1>1 DEF LoopInv
<1>2. CASE faults' = {}
  <2>1. faults = {}
    BY <1>2, FaultsStay
  <2>2. RoundsInv /\ RoundsInv' /\ JoinOnce /\ AggRoundInv
    BY <1>2, <2>1 DEF FaultFreeInv, OnceInv, Calm, LoopInv
  <2>3. CASE LoopRests
    BY <2>2, <2>3, RestsStutter DEF LoopInv
  <2>4. CASE LoopAdvances
    BY <2>2, <2>4, AdvancesStep DEF LoopInv
  <2>5. ASSUME NEW d \in Clients, LoopCollects(d)
        PROVE  AggRoundInv' /\ Loop!Next
    BY <2>2, <2>5, CollectsStep
  <2>6. \A kind : ~Fault(kind)
    BY <1>2 DEF Fault
  <2>7. ~Lose /\ \A m \in Clients \cup {CoordinatorId} : ~ReportWrongly(m)
    BY <2>6 DEF Lose, ReportWrongly
  <2>8. ASSUME NEW c \in Clients
        PROVE  ~(JoinTimeout(c) \/ GiveUp(c) \/ ClientCrash(c) \/ ClientRestart(c) \/ ReportCrashed(c))
    <3>1. ~JoinTimeout(c) /\ ~ClientCrash(c) /\ ~ClientRestart(c)
      BY <2>6 DEF JoinTimeout, ClientCrash, ClientRestart
    <3>2. up[c] /\ (joining[c] = "idle" => tries[c] = 0) /\ MaxTries # 0
      BY <2>2, Sizes DEF RoundsInv, AllUp
    <3>3. ~GiveUp(c) /\ ~ReportCrashed(c)
      BY <3>2 DEF GiveUp, ReportCrashed
    <3> QED BY <3>1, <3>3
  <2>9. \/ Coordinator \/ Aggregator \/ Monitor
        \/ CMRegisterClient \/ MainSetPeers \/ Deliver
        \/ \E c \in Clients : Client(c) \/ SendJoin(c) \/ Hear(c)
        \/ UNCHANGED vars
    BY <2>7, <2>8 DEF Next, ActorStep, Actors
  <2>10. LoopRests \/ LoopAdvances \/ (\E d \in Clients : LoopCollects(d))
    BY <1>2, <2>2, <2>9, CoordinatorLoop, AggregatorLoop, MonitorLoop, OthersRest
  <2> QED BY <2>3, <2>4, <2>5, <2>10 DEF LoopInv
<1> QED BY <1>1, <1>2

\* In the beginning no round is open and nobody has contributed.
LEMMA LoopInit == Init => LoopInv /\ Loop!Init
<1> SUFFICES ASSUME Init PROVE AggRoundInv /\ Loop!Init
  BY DEF LoopInv
<1>1. coord.round = 0 /\ ~doneCh /\ agg.round = 0 /\ agg.updates = <<>> /\ faults = {}
  BY DEF Init
<1>2. AggRoundInv
  BY <1>1 DEF AggRoundInv, RoundOpen
<1>3. DataInv /\ RoundsInv
  BY <1>1, DataInit, RoundsInit DEF FaultFreeInv
<1>4. PhaseView /\ MappedView /\ ~RoundOpen
  BY <1>1, <1>2, <1>3, PhaseSeen, MappedSeen DEF RoundOpen
<1>5. Phase = "idle" /\ Mapped = {}
  BY <1>1, <1>4 DEF PhaseView, MappedView
<1> QED BY <1>1, <1>2, <1>5 DEF Loop!Init, Mapped

\* Until the first fault the distributed deployment of demo/main.go takes no step
\* that the abstract training loop does not take, for any number of clients and
\* of rounds and in whatever order the calls of RemoteActorRef.Tell arrive.
THEOREM FaultFreeTrainingIsTheLoop == Spec => FaultFreeTraining
<1>1. Init => LoopInv /\ Loop!Init
  BY LoopInit
<1>2. /\ DataInv /\ OnceInv /\ FaultFreeInv /\ (DataInv /\ OnceInv /\ FaultFreeInv)'
      /\ LoopInv /\ [Next]_vars
      => LoopInv' /\ [faults' = {} => Loop!Next]_(Loop!loopVars)
  BY LoopStep
<1> QED BY <1>1, <1>2, RoundsInvariance, PTL DEF Spec, FaultFreeTraining

=============================================================================
