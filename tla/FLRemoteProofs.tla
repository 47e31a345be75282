--------------------------- MODULE FLRemoteProofs ---------------------------
(***************************************************************************)
(* Proofs about FLRemote, for any number of clients and rounds: what the   *)
(* aggregator keeps to under every loss, reordering, crash, restart and    *)
(* wrong report; the types of the state and of what is on its way; that an *)
(* average is of one round; and that it counts no client twice as long as  *)
(* no join is repeated.                                                    *)
(***************************************************************************)
EXTENDS FLRemote, SequenceTheorems, FiniteSetTheorems, WellFoundedInduction, TLAPS

\* The aggregator's part of the invariant.  What the messages hold does not
\* matter: its list is a list of something.
AggregatorWaits ==
  /\ \E R, S : agg \in [expected : Nat \ {0}, round : R, updates : Seq(S)]
  /\ Len(agg.updates) < agg.expected

\* There is at least one client.
LEMMA ClientsCounted == NumClients \in Nat \ {0}
<1>1. IsFiniteSet(Clients) /\ Clients # {}
  BY ActorsAssumption
<1>2. Cardinality(Clients) \in Nat
  BY <1>1, FS_CardinalityType
<1>3. Cardinality(Clients) # 0
  BY <1>1, FS_EmptySet
<1> QED BY <1>2, <1>3 DEF NumClients

\* Whatever was put into the list, the check that ends a handler leaves fewer
\* updates in it than are expected.
LEMMA SettleWaits ==
  ASSUME NEW R, NEW S, NEW a \in [expected : Nat \ {0}, round : R, updates : Seq(S)],
         Settle(a)
  PROVE  AggregatorWaits'
<1>1. CASE Enough(a)
  <2>1. agg' = [a EXCEPT !.updates = <<>>]
    BY <1>1 DEF Settle
  <2>2. <<>> \in Seq(S) /\ Len(<<>>) = 0
    BY EmptySeq
  <2>3. agg' \in [expected : Nat \ {0}, round : R, updates : Seq(S)] /\ agg'.updates = <<>>
    BY <2>1, <2>2
  <2> QED BY <2>2, <2>3 DEF AggregatorWaits
<1>2. CASE ~Enough(a)
  <2>1. agg' = a /\ Len(a.updates) < a.expected
    BY <1>2, LenProperties DEF Settle, Enough
  <2> QED BY <2>1 DEF AggregatorWaits
<1> QED BY <1>1, <1>2

\* At first the aggregator waits for every client.
LEMMA WaitsInit == Init => AggregatorWaits
<1> SUFFICES ASSUME Init PROVE AggregatorWaits
  OBVIOUS
<1>1. agg = [expected |-> NumClients, round |-> 0, updates |-> <<>>]
  BY DEF Init
<1>2. <<>> \in Seq({}) /\ Len(<<>>) = 0
  BY EmptySeq
<1>3. agg \in [expected : Nat \ {0}, round : {0}, updates : Seq({})]
  BY <1>1, <1>2, ClientsCounted
<1> QED BY <1>1, <1>2, <1>3, ClientsCounted DEF AggregatorWaits

\* Only the aggregator's own handlers touch what it waits for; both end in Settle.
LEMMA WaitsStep == AggregatorWaits /\ [Next]_vars => AggregatorWaits'
<1> SUFFICES ASSUME AggregatorWaits, [Next]_vars PROVE AggregatorWaits'
  OBVIOUS
<1>1. PICK R, S : agg \in [expected : Nat \ {0}, round : R, updates : Seq(S)]
  BY DEF AggregatorWaits
<1>2. CASE AggLocalUpdate
  <2> DEFINE r == Head(aggBox).round
             u == Update(Head(aggBox).client, r)
             longer == Append(Kept(r), u)
             a == [agg EXCEPT !.round = r, !.updates = longer]
  <2>1. Settle(a)
    BY <1>2 DEF AggLocalUpdate
  <2>2. Kept(r) \in Seq(S \cup {u})
    BY <1>1, EmptySeq, SeqMonotonic DEF Kept
  <2>3. longer \in Seq(S \cup {u})
    BY <2>2, AppendProperties
  <2> HIDE DEF r, u, longer
  <2>4. a \in [expected : Nat \ {0}, round : R \cup {r}, updates : Seq(S \cup {u})]
    BY <1>1, <2>3
  <2> HIDE DEF a
  <2> QED BY <2>1, <2>4, SettleWaits
<1>3. CASE AggRemoveClient
  <2> DEFINE a == [agg EXCEPT !.expected = IF @ > 1 THEN @ - 1 ELSE @]
  <2>1. Settle(a)
    BY <1>3 DEF AggRemoveClient
  <2>2. a \in [expected : Nat \ {0}, round : R, updates : Seq(S)]
    BY <1>1
  <2> HIDE DEF a
  <2> QED BY <2>1, <2>2, SettleWaits
<1>4. CASE UNCHANGED agg
  BY <1>4 DEF AggregatorWaits
<1>5. AggLocalUpdate \/ AggRemoveClient \/ UNCHANGED agg
  <2>1. CASE Coordinator
    BY <2>1 DEF Coordinator, CoordStartFL, CoordAggregationResult, CoordMetricsReport,
         CoordSetPeers, CoordClientJoin, CoordClientDown
  <2>2. CASE Monitor \/ CMRegisterClient \/ \E c \in Clients : Client(c)
    BY <2>2 DEF Monitor, MonSetGlobalModel, MonRoundComplete, CMRegisterClient, Client,
         ClientStartRound, ClientClusterAssign, actorVars
  <2>3. CASE MainSetPeers \/ Deliver \/ Lose
    BY <2>3 DEF MainSetPeers, Deliver, DeliverJoin, DeliverUpdate, DeliverToClient, Lose,
         actorVars
  <2>4. ASSUME NEW c \in Clients,
               \/ SendJoin(c) \/ JoinTimeout(c) \/ GiveUp(c)
               \/ ClientCrash(c) \/ ClientRestart(c) \/ Hear(c) \/ ReportCrashed(c)
        PROVE  UNCHANGED agg
    BY <2>4 DEF SendJoin, JoinTimeout, GiveUp, ClientCrash, ClientRestart, Hear, ReportCrashed,
         Watch, actorVars, flVars
  <2>5. ASSUME NEW n \in Clients \cup {CoordinatorId}, ReportWrongly(n) PROVE UNCHANGED agg
    BY <2>5 DEF ReportWrongly, Watch, actorVars
  <2>6. CASE UNCHANGED vars
    BY <2>6 DEF vars, flVars, actorVars
  <2> QED BY <2>1, <2>2, <2>3, <2>4, <2>5, <2>6 DEF Next, ActorStep, Actors, Aggregator
<1> QED BY <1>2, <1>3, <1>4, <1>5

\* Under all faults the aggregator never sits on enough updates and never comes
\* to wait for none: FedAvg is not called with an empty list, and no round that
\* could be closed is left open between two messages.
THEOREM NoAggregationIsMissed == Spec => []NoMissedAggregation
<1>1. AggregatorWaits => NoMissedAggregation
  BY DEF AggregatorWaits, NoMissedAggregation
<1> QED BY <1>1, WaitsInit, WaitsStep, PTL DEF Spec

-----------------------------------------------------------------------------
(* The list of clients. *)

\* A set of numbers up to N that holds 0, and with every number the next, holds all.
LEMMA Induct ==
  ASSUME NEW N \in Nat, NEW T \in SUBSET (0..N), 0 \in T,
         \A k \in 0..(N-1) : k \in T => k + 1 \in T
  PROVE  T = 0..N
<1> SUFFICES ASSUME (0..N) \ T # {} PROVE FALSE
  OBVIOUS
<1> DEFINE S == (0..N) \ T
<1>1. PICK x \in S : \A y \in S : ~(<<y, x>> \in OpToRel(<, Nat))
  <2>1. S \subseteq Nat /\ S # {}
    OBVIOUS
  <2> QED BY <2>1, NatLessThanWellFounded, WFMin
<1>2. x - 1 \in 0..N /\ x # 0
  OBVIOUS
<1>3. x - 1 \notin S
  <2> DEFINE v == <<x-1, x>>
  <2>1. v \in Nat \X Nat /\ v[1] < v[2]
    BY <1>2
  <2> HIDE DEF v
  <2>2. v \in OpToRel(<, Nat)
    BY <2>1, Zenon DEF OpToRel
  <2> HIDE DEF S
  <2> QED BY <1>1, <2>2 DEF v
<1> QED BY <1>2, <1>3

\* f holds what the loop of Others has gathered after each of k steps
LoopOf(cs, n, k, f) ==
  f = [i \in 0..k |-> IF i = 0 THEN <<>>
        ELSE IF cs[i] = n THEN f[i - 1] ELSE Append(f[i - 1], cs[i])]

\* Others is what such a loop has gathered at its end.
LEMMA OthersExists ==
  ASSUME NEW S, NEW cs \in Seq(S), NEW n
  PROVE  \E f : LoopOf(cs, n, Len(cs), f) /\ Others(cs, n) = f[Len(cs)]
<1> DEFINE N == Len(cs)
           T == {k \in 0..N : \E f : LoopOf(cs, n, k, f)}
<1>1. N \in Nat
  BY LenProperties
<1>2. 0 \in T
  <2>1. LoopOf(cs, n, 0, [i \in 0..0 |-> <<>>])
    BY DEF LoopOf
  <2> QED BY <1>1, <2>1
<1>3. ASSUME NEW k \in 0..(N-1), k \in T PROVE k + 1 \in T
  <2>1. PICK f : LoopOf(cs, n, k, f)
    BY <1>3
  <2> DEFINE last == IF cs[k+1] = n THEN f[k] ELSE Append(f[k], cs[k+1])
             g == [i \in 0..(k+1) |-> IF i = k + 1 THEN last ELSE f[i]]
  <2> HIDE DEF last
  <2>2. \A i \in 0..k : f[i] = IF i = 0 THEN <<>>
        ELSE IF cs[i] = n THEN f[i - 1] ELSE Append(f[i - 1], cs[i])
    BY <2>1 DEF LoopOf
  <2>3. /\ DOMAIN g = 0..(k+1) /\ g[k+1] = last /\ \A i \in 0..k : g[i] = f[i]
        /\ g = [i \in 0..(k+1) |-> g[i]]
    BY <1>1
  <2> HIDE DEF g
  <2>4. ASSUME NEW i \in 0..(k+1) PROVE g[i] = IF i = 0 THEN <<>>
        ELSE IF cs[i] = n THEN g[i - 1] ELSE Append(g[i - 1], cs[i])
    <3>1. CASE i = k + 1
      <4>1. i # 0 /\ i - 1 = k /\ k \in 0..k
        BY <1>1, <3>1
      <4>2. g[i-1] = f[k]
        BY <2>3, <4>1
      <4> QED BY <2>3, <3>1, <4>1, <4>2 DEF last
    <3>2. CASE i # k + 1
      <4>1. i \in 0..k /\ (i # 0 => i - 1 \in 0..k)
        BY <1>1, <3>2
      <4> QED BY <2>2, <2>3, <4>1
    <3> QED BY <3>1, <3>2
  <2>5. LoopOf(cs, n, k+1, g)
    BY <2>3, <2>4, Zenon DEF LoopOf
  <2>6. k + 1 \in 0..N
    BY <1>1
  <2> HIDE DEF N
  <2> QED BY <2>5, <2>6
<1>4. N \in T
  <2> HIDE DEF T, N
  <2>1. T \in SUBSET (0..N)
    BY DEF T
  <2> QED BY <1>1, <1>2, <1>3, <2>1, Induct
<1> DEFINE kept == CHOOSE f : LoopOf(cs, n, N, f)
<1>5. LoopOf(cs, n, N, kept)
  BY <1>4
<1>6. Others(cs, n) = kept[N]
  BY DEF Others, LoopOf
<1> QED BY <1>5, <1>6

\* no two places of a list hold the same
NoRepeat(s) == \A i, j \in DOMAIN s : s[i] = s[j] => i = j

\* Taking a client out of a list adds nothing to it and repeats nothing.
LEMMA OthersFacts ==
  ASSUME NEW S, NEW cs \in Seq(S), NEW n
  PROVE  /\ Others(cs, n) \in Seq(S)
         /\ \A i \in DOMAIN Others(cs, n) : \E j \in DOMAIN cs : cs[j] = Others(cs, n)[i]
         /\ NoRepeat(cs) => NoRepeat(Others(cs, n))
<1> DEFINE N == Len(cs)
<1>1. N \in Nat /\ DOMAIN cs = 1..N /\ \A i \in 1..N : cs[i] \in S
  BY LenProperties, ElementOfSeq
<1>2. PICK f : LoopOf(cs, n, N, f) /\ Others(cs, n) = f[N]
  BY OthersExists
<1>3. \A i \in 0..N : f[i] = IF i = 0 THEN <<>>
        ELSE IF cs[i] = n THEN f[i - 1] ELSE Append(f[i - 1], cs[i])
  BY <1>2 DEF LoopOf
<1> HIDE DEF N
<1> DEFINE Part(k) == /\ f[k] \in Seq(S)
                      /\ \A i \in DOMAIN f[k] : \E j \in 1..k : cs[j] = f[k][i]
                      /\ NoRepeat(cs) => NoRepeat(f[k])
           T == {k \in 0..N : Part(k)}
<1>4. 0 \in T
  <2>1. f[0] = <<>> /\ <<>> \in Seq(S) /\ DOMAIN <<>> = {}
    BY <1>1, <1>3
  <2>2. Part(0)
    BY <2>1 DEF NoRepeat
  <2> QED BY <1>1, <2>2
<1>5. ASSUME NEW k \in 0..(N-1), k \in T PROVE k + 1 \in T
  <2> k + 1 \in 0..N /\ k \in 0..N /\ k + 1 \in 1..N
    BY <1>1
  <2>1. Part(k)
    BY <1>5
  <2>4. /\ cs[k + 1] = n => f[k + 1] = f[k]
        /\ cs[k + 1] # n => f[k + 1] = Append(f[k], cs[k + 1])
    <3>1. k + 1 # 0 /\ (k + 1) - 1 = k
      BY <1>1
    <3> QED BY <1>3, <3>1
  <2>2. CASE cs[k + 1] = n
    <3>1. f[k + 1] = f[k]
      BY <2>2, <2>4
    <3>2. \A j \in 1..k : j \in 1..(k+1)
      BY <1>1
    <3>3. Part(k + 1)
      BY <2>1, <3>1, <3>2
    <3> QED BY <3>3
  <2>3. CASE cs[k + 1] # n
    <3> DEFINE s == f[k]
               t == Append(s, cs[k+1])
    <3>1. f[k + 1] = t
      BY <2>3, <2>4
    <3>2. cs[k+1] \in S
      BY <1>1
    <3>3. /\ s \in Seq(S) /\ t \in Seq(S) /\ Len(s) \in Nat
          /\ DOMAIN s = 1..Len(s) /\ DOMAIN t = 1..(Len(s) + 1)
          /\ \A i \in 1..Len(s) : t[i] = s[i]
          /\ t[Len(s) + 1] = cs[k+1]
      BY <2>1, <3>2, AppendProperties, LenProperties
    <3>4. \A i \in DOMAIN s : \E j \in 1..k : cs[j] = s[i]
      BY <2>1
    <3>5. NoRepeat(cs) => NoRepeat(s)
      BY <2>1
    <3> HIDE DEF t, s, Part
    <3>6. ASSUME NEW i \in DOMAIN t PROVE \E j \in 1..(k + 1) : cs[j] = t[i]
      <4>1. CASE i = Len(s) + 1
        BY <3>3, <4>1, <1>1
      <4>2. CASE i # Len(s) + 1
        <5>1. i \in DOMAIN s /\ t[i] = s[i]
          BY <3>3, <4>2
        <5>2. PICK j \in 1..k : cs[j] = s[i]
          BY <3>4, <5>1
        <5>3. j \in 1..(k+1)
          BY <1>1
        <5> QED BY <5>1, <5>2, <5>3
      <4> QED BY <4>1, <4>2
    <3>7. ASSUME NoRepeat(cs) PROVE NoRepeat(t)
      <4>1. ASSUME NEW i \in 1..Len(s) PROVE t[i] # t[Len(s)+1]
        <5>1. PICK j \in 1..k : cs[j] = s[i]
          BY <3>3, <3>4
        <5>2. j \in DOMAIN cs /\ k + 1 \in DOMAIN cs /\ j # k + 1
          BY <1>1
        <5>3. cs[j] # cs[k+1]
          BY <5>2, <3>7 DEF NoRepeat
        <5> QED BY <5>1, <5>3, <3>3
      <4>2. ASSUME NEW i \in DOMAIN t, NEW j \in DOMAIN t, t[i] = t[j] PROVE i = j
        <5>1. CASE i = Len(s) + 1
          BY <3>3, <4>1, <4>2, <5>1
        <5>2. CASE j = Len(s) + 1
          BY <3>3, <4>1, <4>2, <5>2
        <5>3. CASE i # Len(s) + 1 /\ j # Len(s) + 1
          <6>1. i \in DOMAIN s /\ j \in DOMAIN s /\ s[i] = s[j]
            BY <3>3, <4>2, <5>3
          <6> QED BY <3>5, <3>7, <6>1 DEF NoRepeat
        <5> QED BY <5>1, <5>2, <5>3
      <4> QED BY <4>2 DEF NoRepeat
    <3>8. Part(k + 1)
      BY <3>1, <3>3, <3>6, <3>7 DEF Part
    <3> QED BY <3>8
  <2> QED BY <2>2, <2>3
<1>6. N \in T
  <2> HIDE DEF T
  <2>1. T \in SUBSET (0..N)
    BY DEF T
  <2> QED BY <1>1, <1>4, <1>5, <2>1, Induct
<1>7. Part(N)
  BY <1>6
<1> QED BY <1>1, <1>2, <1>7

-----------------------------------------------------------------------------
(* What may be where when the rounds up to n have begun. *)

\* the averages of updates of one round up to n
OneRound(n) ==
  {a \in Models : \E r \in 1..n :
     /\ \E c \in Clients : a[c, r] > 0
     /\ \A c \in Clients, s \in Rounds \ {r} : a[c, s] = 0}
\* what the coordinator and the monitor serve: such an average, or none yet
Served(n) == OneRound(n) \cup {NoModel}

\* the messages an actor may find in its mailbox then
CoordMsgs(n) ==
  [type : {"AggregationResult"}, round : 1..n, model : OneRound(n)]
    \cup [type : {"MetricsReport"}, round : 1..n, converged : BOOLEAN]
    \cup [type : {"SetPeers"}]
    \cup [type : {"ClientJoin"}, client : Clients]
    \cup [type : {"ClientDown"}, client : Clients \cup {CoordinatorId}]
AggMsgs(n) ==
  [type : {"LocalUpdate"}, client : Clients, round : 1..n]
    \cup [type : {"RemoveClient"}, client : Clients \cup {CoordinatorId}]
MonMsgs(n) ==
  [type : {"SetGlobalModel"}, model : OneRound(n)] \cup [type : {"RoundComplete"}, round : 1..n]
ClientMsgs(n) == [type : {"StartRound"}, round : 1..n] \cup [type : {"ClusterAssign"}]
\* the remote calls that may be on the wire then
JoinCalls == [to : {"coordinator"}, msg : [type : {"ClientJoin"}, client : Clients], try : 1..MaxTries]
UpdateCalls(n) == [to : {"aggregator"}, msg : [type : {"LocalUpdate"}, client : Clients, round : 1..n]]
ClientCalls(n) == [to : Clients, msg : ClientMsgs(n)]
CallsUpTo(n) == JoinCalls \cup UpdateCalls(n) \cup ClientCalls(n)

\* the updates the aggregator may hold then
UpdatesUpTo(n) == [client : Clients, round : 1..n]

CoordRecord == [up : BOOLEAN, round : 0..TotalRounds, clients : Seq(Clients),
                peers : BOOLEAN, model : Models, seeded : SUBSET Clients]

\* each part of the state, by whose it is
CoordOK == coord \in CoordRecord /\ doneCh \in BOOLEAN /\ coord.model \in Served(coord.round)
AggOK(n) ==
  /\ agg \in [expected : 1..NumClients, round : 0..n, updates : Seq(UpdatesUpTo(n))]
  /\ \A i \in DOMAIN agg.updates : agg.updates[i].round = agg.round
MonOK(n) ==
  mon \in [validation : BOOLEAN, model : Served(n), log : SUBSET [round : Rounds, of : Models]]
CoordBoxOK(n) == coordBox \in Seq(CoordMsgs(n))
AggBoxOK(n) == aggBox \in Seq(AggMsgs(n))
MonBoxOK(n) == monBox \in Seq(MonMsgs(n))
ClientBoxOK(n) == clientBox \in [Clients -> Seq(ClientMsgs(n))]
WireOK(n) == IsABag(wire) /\ DOMAIN wire \subseteq CallsUpTo(n)
RegisteringOK == registered \in Seq(Clients) /\ cmBox \in Seq(Clients)
EnvOK ==
  /\ up \in [Clients -> BOOLEAN]
  /\ joining \in [Clients -> {"idle", "waiting", "registered"}]
  /\ tries \in [Clients -> 0..MaxTries]
  /\ peersTold \in BOOLEAN
  /\ heard \subseteq Clients
  /\ faults \subseteq FaultKinds

BoxesOK(n) == CoordBoxOK(n) /\ AggBoxOK(n) /\ MonBoxOK(n) /\ ClientBoxOK(n)
DataOK(n) == AggOK(n) /\ MonOK(n) /\ BoxesOK(n) /\ WireOK(n)
\* the data invariant
DataInv == CoordOK /\ DataOK(coord.round) /\ RegisteringOK /\ EnvOK

-----------------------------------------------------------------------------
(* Mailboxes, calls and averages. *)

\* Posting, and taking the head, keep what a mailbox may hold.
LEMMA PostInSeq ==
  ASSUME NEW S, NEW box \in Seq(S), NEW m \in S
  PROVE  Post(box, m) \in Seq(S)
BY AppendProperties DEF Post

\* The head of a mailbox is one of its messages, and so is what stays.
LEMMA TakeFromSeq ==
  ASSUME NEW S, NEW box \in Seq(S), box # <<>>
  PROVE  Head(box) \in S /\ Tail(box) \in Seq(S)
BY HeadTailProperties

\* Adding to a bag and taking from it.
LEMMA BagAdd ==
  ASSUME NEW S, NEW B, IsABag(B), DOMAIN B \subseteq S,
         NEW A, IsABag(A), DOMAIN A \subseteq S
  PROVE  IsABag(B (+) A) /\ DOMAIN (B (+) A) \subseteq S
<1> DEFINE C == B (+) A
<1>1. /\ \A e \in DOMAIN B : B[e] \in Nat /\ B[e] > 0
      /\ \A e \in DOMAIN A : A[e] \in Nat /\ A[e] > 0
  BY DEF IsABag
<1>2. C = [e \in (DOMAIN B) \cup (DOMAIN A) |->
            (IF e \in DOMAIN B THEN B[e] ELSE 0) + (IF e \in DOMAIN A THEN A[e] ELSE 0)]
  BY DEF (+)
<1>3. DOMAIN C = (DOMAIN B) \cup (DOMAIN A)
  BY <1>2
<1>4. ASSUME NEW e \in DOMAIN C PROVE C[e] \in Nat /\ C[e] > 0
  <2>1. C[e] = (IF e \in DOMAIN B THEN B[e] ELSE 0) + (IF e \in DOMAIN A THEN A[e] ELSE 0)
    BY <1>2, <1>3
  <2> HIDE DEF C
  <2> QED BY <1>1, <1>3, <2>1
<1>5. C \in [DOMAIN C -> {n \in Nat : n > 0}]
  BY <1>2, <1>3, <1>4
<1> QED BY <1>3, <1>5 DEF IsABag

\* Calls taken off the wire leave calls that were on it.
LEMMA BagTake ==
  ASSUME NEW S, NEW B, IsABag(B), DOMAIN B \subseteq S, NEW A, IsABag(A)
  PROVE  IsABag(B (-) A) /\ DOMAIN (B (-) A) \subseteq S
<1> DEFINE M == [e \in DOMAIN B |-> IF e \in DOMAIN A THEN B[e] - A[e] ELSE B[e]]
           D == {d \in DOMAIN M : M[d] > 0}
           C == B (-) A
<1>1. /\ \A e \in DOMAIN B : B[e] \in Nat /\ B[e] > 0
      /\ \A e \in DOMAIN A : A[e] \in Nat /\ A[e] > 0
  BY DEF IsABag
<1>2. C = [e \in D |-> M[e]]
  BY DEF (-)
<1>3. DOMAIN M = DOMAIN B /\ \A e \in DOMAIN M : M[e] \in Int
  BY <1>1
<1> HIDE DEF M, C
<1>4. DOMAIN C = D /\ \A e \in D : C[e] = M[e] /\ M[e] \in Nat /\ M[e] > 0
  BY <1>2, <1>3
<1>5. D \subseteq DOMAIN B
  BY <1>3
<1> HIDE DEF D
<1>6. C \in [DOMAIN C -> {n \in Nat : n > 0}]
  BY <1>2, <1>4
<1>7. IsABag(C) /\ DOMAIN C \subseteq S
  BY <1>4, <1>5, <1>6 DEF IsABag
<1> QED BY <1>7 DEF C

\* The bag of one call holds that call.
LEMMA OneInBag ==
  ASSUME NEW e
  PROVE  IsABag(SetToBag({e})) /\ DOMAIN SetToBag({e}) = {e}
BY DEF SetToBag, IsABag

\* What goes to the clients of a list goes on the wire.
LEMMA SentToClients ==
  ASSUME NEW n, WireOK(n), NEW cs \in Seq(Clients), NEW m \in ClientMsgs(n), SendToClients(cs, m)
  PROVE  WireOK(n)' /\ UNCHANGED clientBox
<1> DEFINE Env(c) == [to |-> c, msg |-> m]
           Copies == [e \in {Env(c) : c \in ToSet(cs)} |->
                        Cardinality({i \in DOMAIN cs : Env(cs[i]) = e})]
<1>1. wire' = wire (+) Copies /\ UNCHANGED clientBox
  BY RemoteAssumption DEF SendToClients
<1>2. DOMAIN cs = 1..Len(cs) /\ Len(cs) \in Nat /\ \A i \in DOMAIN cs : cs[i] \in Clients
  BY LenProperties, ElementOfSeq
<1>3. ASSUME NEW e \in {Env(c) : c \in ToSet(cs)}
      PROVE  /\ Cardinality({i \in DOMAIN cs : Env(cs[i]) = e}) \in Nat \ {0}
             /\ e \in CallsUpTo(n)
  <2> DEFINE I == {i \in DOMAIN cs : Env(cs[i]) = e}
  <2>1. PICK i \in DOMAIN cs : e = Env(cs[i])
    BY DEF ToSet
  <2>2. IsFiniteSet(I)
    <3>1. IsFiniteSet(1..Len(cs))
      BY <1>2, FS_Interval
    <3> QED BY <1>2, <3>1, FS_Subset
  <2>3. i \in I
    BY <2>1
  <2>4. Cardinality(I) \in Nat \ {0}
    <3> HIDE DEF I
    <3> QED BY <2>2, <2>3, FS_CardinalityType, FS_EmptySet
  <2>5. e \in ClientCalls(n)
    BY <1>2, <2>1 DEF ClientCalls
  <2> QED BY <2>4, <2>5 DEF CallsUpTo
<1> HIDE DEF Env
<1>4. IsABag(Copies) /\ DOMAIN Copies \subseteq CallsUpTo(n)
  <2>1. \A e \in DOMAIN Copies : Copies[e] \in Nat \ {0} /\ e \in CallsUpTo(n)
    BY <1>3
  <2>2. Copies = [e \in DOMAIN Copies |-> Copies[e]]
    OBVIOUS
  <2> HIDE DEF Copies
  <2>3. Copies \in [DOMAIN Copies -> {k \in Nat : k > 0}]
    BY <2>1, <2>2
  <2> QED BY <2>1, <2>3 DEF IsABag
<1> HIDE DEF Copies
<1>5. IsABag(wire') /\ DOMAIN wire' \subseteq CallsUpTo(n)
  BY <1>1, <1>4, BagAdd DEF WireOK
<1> QED BY <1>1, <1>5 DEF WireOK

\* The average of a list of updates of round r.
LEMMA AverageOfOne ==
  ASSUME NEW n \in 0..TotalRounds, NEW us \in Seq(UpdatesUpTo(n)), NEW r, us # <<>>,
         \A i \in DOMAIN us : us[i].round = r
  PROVE  r \in 1..n /\ FedAvg(us) \in OneRound(n)
<1>1. /\ DOMAIN us = 1..Len(us) /\ Len(us) \in Nat /\ Len(us) # 0
      /\ \A i \in DOMAIN us : us[i] \in UpdatesUpTo(n)
  BY LenProperties, ElementOfSeq, EmptySeq
<1>2. 1 \in DOMAIN us /\ us[1].client \in Clients /\ us[1].round = r /\ r \in 1..n
  BY <1>1 DEF UpdatesUpTo
<1>3. r \in Rounds
  BY <1>2, ActorsAssumption DEF Rounds
<1> DEFINE I(c, s) == {i \in DOMAIN us : us[i] = Update(c, s)}
           a == FedAvg(us)
<1>4. ASSUME NEW c \in Clients, NEW s \in Rounds
      PROVE  /\ Cardinality(I(c, s)) \in Nat
             /\ s # r => Cardinality(I(c, s)) = 0
             /\ us[1] = Update(c, s) => Cardinality(I(c, s)) > 0
  <2>1. IsFiniteSet(I(c, s))
    <3>1. IsFiniteSet(1..Len(us))
      BY <1>1, FS_Interval
    <3> QED BY <1>1, <3>1, FS_Subset
  <2>2. s # r => I(c, s) = {}
    BY DEF Update
  <2>3. us[1] = Update(c, s) => 1 \in I(c, s)
    BY <1>2
  <2> HIDE DEF I
  <2> QED BY <2>1, <2>2, <2>3, FS_CardinalityType, FS_EmptySet
<1>5. ASSUME NEW c \in Clients, NEW s \in Rounds
      PROVE  a[c, s] = Cardinality(I(c, s))
  BY DEF FedAvg
<1>6. a \in Models
  <2>1. ASSUME NEW p \in Clients \X Rounds
        PROVE  Cardinality({i \in DOMAIN us : us[i] = Update(p[1], p[2])}) \in Nat
    <3>1. p[1] \in Clients /\ p[2] \in Rounds
      OBVIOUS
    <3> QED BY <1>4, <3>1
  <2> QED BY <2>1 DEF FedAvg, Models
<1>7. us[1] = Update(us[1].client, r)
  BY <1>1, <1>2 DEF UpdatesUpTo, Update
<1> HIDE DEF a, I
<1>8. a[us[1].client, r] > 0
  BY <1>2, <1>3, <1>4, <1>5, <1>7
<1>9. \A c \in Clients, s \in Rounds \ {r} : a[c, s] = 0
  BY <1>4, <1>5
<1>10. a \in OneRound(n)
  BY <1>2, <1>6, <1>8, <1>9 DEF OneRound
<1> QED BY <1>2, <1>10 DEF a

-----------------------------------------------------------------------------
(* The invariant of the data. *)

\* What may be where grows with the rounds.
LEMMA SetsGrow ==
  ASSUME NEW n \in Nat, NEW k \in Nat, n <= k
  PROVE  /\ OneRound(n) \subseteq OneRound(k)
         /\ CoordMsgs(n) \subseteq CoordMsgs(k) /\ AggMsgs(n) \subseteq AggMsgs(k)
         /\ MonMsgs(n) \subseteq MonMsgs(k) /\ ClientMsgs(n) \subseteq ClientMsgs(k)
         /\ CallsUpTo(n) \subseteq CallsUpTo(k) /\ UpdatesUpTo(n) \subseteq UpdatesUpTo(k)
<1>1. 1..n \subseteq 1..k
  OBVIOUS
<1>2. OneRound(n) \subseteq OneRound(k)
  BY <1>1, Zenon DEF OneRound
<1>3. CoordMsgs(n) \subseteq CoordMsgs(k)
  BY <1>1, <1>2 DEF CoordMsgs
<1>4. AggMsgs(n) \subseteq AggMsgs(k) /\ UpdatesUpTo(n) \subseteq UpdatesUpTo(k)
  BY <1>1 DEF AggMsgs, UpdatesUpTo
<1>5. MonMsgs(n) \subseteq MonMsgs(k) /\ ClientMsgs(n) \subseteq ClientMsgs(k)
  BY <1>1, <1>2 DEF MonMsgs, ClientMsgs
<1>6. CallsUpTo(n) \subseteq CallsUpTo(k)
  BY <1>1, <1>5 DEF CallsUpTo, UpdateCalls, ClientCalls
<1> QED BY <1>2, <1>3, <1>4, <1>5, <1>6

\* What was allowed when the rounds up to n had begun is allowed later.
LEMMA DataGrows ==
  ASSUME NEW n \in Nat, NEW k \in Nat, n <= k
  PROVE  /\ AggOK(n) => AggOK(k)
         /\ MonOK(n) => MonOK(k)
         /\ CoordBoxOK(n) => CoordBoxOK(k)
         /\ AggBoxOK(n) => AggBoxOK(k)
         /\ MonBoxOK(n) => MonBoxOK(k)
         /\ ClientBoxOK(n) => ClientBoxOK(k)
         /\ WireOK(n) => WireOK(k)
<1> USE SetsGrow
<1>1. AggOK(n) => AggOK(k)
  <2>1. Seq(UpdatesUpTo(n)) \subseteq Seq(UpdatesUpTo(k)) /\ 0..n \subseteq 0..k
    BY SeqMonotonic
  <2> QED BY <2>1 DEF AggOK
<1>2. MonOK(n) => MonOK(k)
  <2>1. Served(n) \subseteq Served(k)
    BY DEF Served
  <2> QED BY <2>1 DEF MonOK
<1>3. CoordBoxOK(n) => CoordBoxOK(k)
  BY SeqMonotonic DEF CoordBoxOK
<1>4. AggBoxOK(n) => AggBoxOK(k)
  BY SeqMonotonic DEF AggBoxOK
<1>5. MonBoxOK(n) => MonBoxOK(k)
  BY SeqMonotonic DEF MonBoxOK
<1>6. ClientBoxOK(n) => ClientBoxOK(k)
  <2>1. Seq(ClientMsgs(n)) \subseteq Seq(ClientMsgs(k))
    BY SeqMonotonic
  <2> QED BY <2>1 DEF ClientBoxOK
<1>7. WireOK(n) => WireOK(k)
  BY DEF WireOK
<1> QED BY <1>1, <1>2, <1>3, <1>4, <1>5, <1>6, <1>7

\* No model yet is a model as well: the average of no update.
LEMMA NoModelIsModel == NoModel \in Models
BY DEF NoModel, Models

\* Nothing has begun.
LEMMA DataInit == Init => DataInv
<1> SUFFICES ASSUME Init PROVE DataInv
  OBVIOUS
<1>1. TotalRounds \in Nat /\ NumClients \in Nat \ {0} /\ MaxTries \in Nat \ {0}
  BY ActorsAssumption, RemoteAssumption, ClientsCounted
<1>2. <<>> \in Seq(Clients)
  OBVIOUS
<1>3. CoordOK
  <2>1. coord = [up |-> TRUE, round |-> 0, clients |-> <<>>, peers |-> FALSE,
                 model |-> NoModel, seeded |-> {}] /\ doneCh = FALSE
    BY DEF Init
  <2>2. coord \in CoordRecord
    BY <1>1, <1>2, <2>1, NoModelIsModel DEF CoordRecord
  <2> QED BY <2>1, <2>2 DEF CoordOK, Served
<1>4. coord.round = 0
  BY DEF Init
<1>5. AggOK(0)
  <2>1. agg = [expected |-> NumClients, round |-> 0, updates |-> <<>>]
    BY DEF Init
  <2>2. <<>> \in Seq(UpdatesUpTo(0)) /\ DOMAIN <<>> = {}
    OBVIOUS
  <2> QED BY <1>1, <2>1, <2>2 DEF AggOK
<1>6. MonOK(0)
  BY DEF Init, MonOK, Served
<1>7. BoxesOK(0)
  BY DEF Init, BoxesOK, CoordBoxOK, AggBoxOK, MonBoxOK, ClientBoxOK
<1>8. WireOK(0)
  BY DEF Init, WireOK, EmptyBag, SetToBag, IsABag
<1>9. RegisteringOK
  BY <1>2 DEF Init, RegisteringOK
<1>10. EnvOK
  <2>1. /\ up = [c \in Clients |-> TRUE] /\ joining = [c \in Clients |-> "idle"]
        /\ tries = [c \in Clients |-> 0] /\ peersTold = FALSE /\ heard = {} /\ faults = {}
    BY DEF Init
  <2>2. 0 \in 0..MaxTries
    BY <1>1
  <2> QED BY <2>1, <2>2 DEF EnvOK
<1> QED BY <1>3, <1>4, <1>5, <1>6, <1>7, <1>8, <1>9, <1>10 DEF DataInv, DataOK

\* startRound: one more round has begun, if any, and nothing else is touched
\* than what its messages go through.
LEMMA BeginRoundData ==
  ASSUME DataInv, NEW c \in CoordRecord, c.round = coord.round, c.model \in Served(c.round),
         BeginRound(c)
  PROVE  CoordOK' /\ coord'.round >= coord.round /\ WireOK(coord.round)' /\ UNCHANGED clientBox
<1>1. /\ c.round \in 0..TotalRounds /\ TotalRounds \in Nat /\ c.clients \in Seq(Clients)
      /\ doneCh \in BOOLEAN
  BY ActorsAssumption DEF CoordRecord, DataInv, CoordOK
<1>2. WireOK(c.round)
  BY DEF DataInv, DataOK
<1>3. CASE RoundsLeft(c)
  <2> DEFINE n == c.round + 1
  <2>1. n \in 0..TotalRounds /\ n \in Nat /\ c.round \in Nat /\ c.round <= n /\ n \in 1..n
    BY <1>1, <1>3 DEF RoundsLeft
  <2>2. coord' = [c EXCEPT !.round = n] /\ SendToClients(c.clients, StartRound(n)) /\ UNCHANGED doneCh
    BY <1>3 DEF BeginRound
  <2>3. Served(c.round) \subseteq Served(n)
    BY <2>1, SetsGrow DEF Served
  <2>4. WireOK(n)
    BY <1>2, <2>1, DataGrows
  <2> HIDE DEF n
  <2>5. StartRound(n) \in ClientMsgs(n)
    BY <2>1 DEF StartRound, ClientMsgs
  <2>6. WireOK(n)' /\ UNCHANGED clientBox
    BY <1>1, <2>2, <2>4, <2>5, SentToClients
  <2>7. coord' \in CoordRecord /\ coord'.round = n /\ coord'.model = c.model
    BY <2>1, <2>2 DEF CoordRecord
  <2> QED BY <1>1, <2>1, <2>2, <2>3, <2>6, <2>7 DEF CoordOK, WireOK
<1>4. CASE ~RoundsLeft(c)
  <2>1. /\ doneCh' = TRUE /\ coord' = [c EXCEPT !.up = ~doneCh] /\ UNCHANGED <<clientBox, wire>>
    BY <1>4 DEF BeginRound, CloseDone, RoundsLeft
  <2>2. coord' \in CoordRecord /\ coord'.round = c.round /\ coord'.model = c.model
    BY <1>1, <2>1 DEF CoordRecord
  <2> QED BY <1>1, <1>2, <2>1, <2>2 DEF CoordOK, WireOK
<1> QED BY <1>3, <1>4

\* What a step of the coordinator leaves alone stays in order, though a round
\* may have begun.
LEMMA DataStays ==
  ASSUME DataInv, EnvOK', CoordOK', coord'.round \in Nat, coord'.round >= coord.round,
         WireOK(coord.round)', coordBox' \in Seq(CoordMsgs(coord.round)),
         cmBox' \in Seq(Clients) \/ UNCHANGED cmBox,
         UNCHANGED <<agg, mon, registered, aggBox, monBox, clientBox>>
  PROVE  DataInv'
<1> DEFINE n == coord.round
           k == coord'.round
<1>1. n \in Nat /\ k \in Nat /\ n <= k
  BY ActorsAssumption DEF DataInv, CoordOK, CoordRecord
<1>2. AggOK(n) /\ MonOK(n) /\ AggBoxOK(n) /\ MonBoxOK(n) /\ ClientBoxOK(n)
  BY DEF DataInv, DataOK, BoxesOK
<1>3. AggOK(k) /\ MonOK(k) /\ AggBoxOK(k) /\ MonBoxOK(k) /\ ClientBoxOK(k)
  BY <1>1, <1>2, DataGrows
<1>4. Seq(CoordMsgs(n)) \subseteq Seq(CoordMsgs(k))
  BY <1>1, SetsGrow, SeqMonotonic
<1>5. AggOK(coord.round)' /\ MonOK(coord.round)' /\ BoxesOK(coord.round)'
  BY <1>3, <1>4 DEF AggOK, MonOK, BoxesOK, CoordBoxOK, AggBoxOK, MonBoxOK, ClientBoxOK
<1>6. RegisteringOK'
  BY DEF DataInv, RegisteringOK
<1> QED BY <1>5, <1>6 DEF DataInv, DataOK

\* The steps of the coordinator.
LEMMA CoordinatorData == DataInv /\ Coordinator /\ UNCHANGED envVars => DataInv'
<1> SUFFICES ASSUME DataInv, Coordinator, UNCHANGED envVars PROVE DataInv'
  OBVIOUS
<1> DEFINE n == coord.round
           m == Head(coordBox)
<1>1. /\ coord \in CoordRecord /\ n \in 0..TotalRounds /\ n \in Nat /\ TotalRounds \in Nat
      /\ coord.clients \in Seq(Clients) /\ coord.model \in Served(n) /\ coord.model \in Models
  BY ActorsAssumption DEF DataInv, CoordOK, CoordRecord
<1>2. EnvOK'
  BY DEF EnvOK, DataInv, envVars
<1>3. /\ AggOK(n) /\ MonOK(n) /\ CoordBoxOK(n) /\ AggBoxOK(n) /\ MonBoxOK(n)
      /\ ClientBoxOK(n) /\ WireOK(n) /\ RegisteringOK
  BY DEF DataInv, DataOK, BoxesOK
<1>4. coordBox # <<>> => m \in CoordMsgs(n) /\ Tail(coordBox) \in Seq(CoordMsgs(n))
  BY <1>3, TakeFromSeq DEF CoordBoxOK
<1>5. CASE CoordStartFL
  <2>1. coordBox # <<>> /\ m.type = "StartFederatedLearning"
    BY <1>5 DEF CoordStartFL, CoordTakes
  <2> QED BY <1>4, <2>1 DEF CoordMsgs
<1>6. CASE CoordAggregationResult
  <2>1. /\ coordBox # <<>> /\ m.type = "AggregationResult" /\ coordBox' = Tail(coordBox)
        /\ coord' = [coord EXCEPT !.model = m.model, !.up = coord.peers]
        /\ monBox' = IF coord.peers THEN Report(m) ELSE monBox
        /\ UNCHANGED <<doneCh, agg, mon, registered, aggBox, cmBox, clientBox, wire>>
    BY <1>6 DEF CoordAggregationResult, CoordTakes
  <2>2. m.model \in OneRound(n) /\ m.round \in 1..n /\ m.model \in Models
    BY <1>4, <2>1 DEF CoordMsgs, OneRound
  <2>3. SetGlobalModel(m.model) \in MonMsgs(n) /\ RoundComplete(m.round) \in MonMsgs(n)
    BY <2>2 DEF SetGlobalModel, RoundComplete, MonMsgs
  <2>4. Report(m) \in Seq(MonMsgs(n))
    BY <1>3, <2>3, PostInSeq DEF Report, MonBoxOK
  <2>5. coord' \in CoordRecord /\ coord'.round = n /\ coord'.model = m.model
    BY <1>1, <2>1, <2>2 DEF CoordRecord
  <2>6. CoordOK'
    BY <2>1, <2>2, <2>5 DEF CoordOK, Served, DataInv
  <2>7. CoordBoxOK(coord.round)' /\ MonBoxOK(coord.round)'
    BY <1>3, <1>4, <2>1, <2>4, <2>5 DEF CoordBoxOK, MonBoxOK
  <2>8. /\ AggOK(coord.round)' /\ MonOK(coord.round)' /\ AggBoxOK(coord.round)'
        /\ ClientBoxOK(coord.round)' /\ WireOK(coord.round)' /\ RegisteringOK'
    BY <1>3, <2>1, <2>5 DEF AggOK, MonOK, AggBoxOK, ClientBoxOK, WireOK, RegisteringOK
  <2> QED BY <1>2, <2>6, <2>7, <2>8 DEF DataInv, DataOK, BoxesOK
<1>7. CASE CoordMetricsReport
  <2>1. /\ coordBox # <<>> /\ coordBox' = Tail(coordBox)
        /\ UNCHANGED <<agg, mon, registered, aggBox, monBox, cmBox>>
    BY <1>7 DEF CoordMetricsReport, CoordTakes
  <2>2. CoordOK' /\ coord'.round >= n /\ WireOK(coord.round)' /\ UNCHANGED clientBox
    <3>1. CASE CloseDone(coord) /\ UNCHANGED <<clientBox, wire>>
      <4>1. /\ doneCh' = TRUE /\ coord' = [coord EXCEPT !.up = ~doneCh]
        BY <3>1 DEF CloseDone
      <4>2. coord' \in CoordRecord /\ coord'.round = n /\ coord'.model = coord.model
        BY <1>1, <4>1 DEF CoordRecord, DataInv, CoordOK
      <4> QED BY <1>1, <1>3, <3>1, <4>1, <4>2 DEF CoordOK, WireOK
    <3>2. CASE BeginRound(coord)
      BY <1>1, <3>2, BeginRoundData
    <3> QED BY <1>7, <3>1, <3>2 DEF CoordMetricsReport
  <2>3. coord'.round \in Nat
    BY <2>2 DEF CoordOK, CoordRecord
  <2> QED BY <1>1, <1>2, <1>3, <1>4, <2>1, <2>2, <2>3, DataStays
<1>8. CASE CoordSetPeers
  <2>1. /\ coordBox # <<>> /\ coordBox' = Tail(coordBox) /\ coord' = [coord EXCEPT !.peers = TRUE]
        /\ UNCHANGED <<doneCh, agg, mon, registered, aggBox, monBox, cmBox, clientBox, wire>>
    BY <1>8 DEF CoordSetPeers, CoordTakes
  <2>2. coord' \in CoordRecord /\ coord'.round = n /\ coord'.model = coord.model
    BY <1>1, <2>1 DEF CoordRecord
  <2>3. CoordOK' /\ WireOK(coord.round)'
    BY <1>1, <1>3, <2>1, <2>2 DEF CoordOK, WireOK, DataInv
  <2> QED BY <1>1, <1>2, <1>3, <1>4, <2>1, <2>2, <2>3, DataStays
<1>9. CASE CoordClientJoin
  <2> DEFINE c == m.client
             joined == [coord EXCEPT !.clients = Append(@, c), !.seeded = @ \cup {c}]
  <2>1. /\ coordBox # <<>> /\ m.type = "ClientJoin" /\ coordBox' = Tail(coordBox)
        /\ cmBox' = IF coord.peers /\ Clustering THEN Post(cmBox, c) ELSE cmBox
        /\ UNCHANGED <<agg, mon, registered, aggBox, monBox>>
    BY <1>9 DEF CoordClientJoin, CoordTakes
  <2>2. c \in Clients
    BY <1>4, <2>1 DEF CoordMsgs
  <2> HIDE DEF c
  <2>3. joined \in CoordRecord /\ joined.round = n /\ joined.model = coord.model
    <3>1. Append(coord.clients, c) \in Seq(Clients)
      BY <1>1, <2>2, AppendProperties
    <3> QED BY <1>1, <2>2, <3>1 DEF CoordRecord
  <2>4. BeginRound(joined) \/ (coord' = joined /\ UNCHANGED <<doneCh, clientBox, wire>>)
    BY <1>9 DEF CoordClientJoin, c
  <2> HIDE DEF joined
  <2>5. CoordOK' /\ coord'.round >= n /\ WireOK(coord.round)' /\ UNCHANGED clientBox
    <3>1. CASE BeginRound(joined)
      BY <1>1, <2>3, <3>1, BeginRoundData
    <3>2. CASE coord' = joined /\ UNCHANGED <<doneCh, clientBox, wire>>
      BY <1>1, <1>3, <2>3, <3>2 DEF CoordOK, WireOK, DataInv
    <3> QED BY <2>4, <3>1, <3>2
  <2>6. coord'.round \in Nat
    BY <2>5 DEF CoordOK, CoordRecord
  <2>7. cmBox' \in Seq(Clients)
    BY <1>3, <2>1, <2>2, PostInSeq DEF RegisteringOK
  <2> QED BY <1>1, <1>2, <1>3, <1>4, <2>1, <2>5, <2>6, <2>7, DataStays
<1>10. CASE CoordClientDown
  <2>1. /\ coordBox # <<>> /\ m.type = "ClientDown" /\ coordBox' = Tail(coordBox)
        /\ coord' = [coord EXCEPT !.clients = Others(@, m.client)]
        /\ aggBox' = IF coord.peers THEN Post(aggBox, RemoveClient(m.client)) ELSE aggBox
        /\ UNCHANGED <<doneCh, agg, mon, registered, monBox, cmBox, clientBox, wire>>
    BY <1>10 DEF CoordClientDown, CoordTakes
  <2>2. RemoveClient(m.client) \in AggMsgs(n)
    BY <1>4, <2>1 DEF CoordMsgs, AggMsgs, RemoveClient
  <2>3. aggBox' \in Seq(AggMsgs(n))
    BY <1>3, <2>1, <2>2, PostInSeq DEF AggBoxOK
  <2>4. Others(coord.clients, m.client) \in Seq(Clients)
    BY <1>1, OthersFacts
  <2>5. coord' \in CoordRecord /\ coord'.round = n /\ coord'.model = coord.model
    BY <1>1, <2>1, <2>4 DEF CoordRecord
  <2>6. CoordOK'
    BY <1>1, <2>1, <2>5 DEF CoordOK, DataInv
  <2>7. /\ AggOK(coord.round)' /\ MonOK(coord.round)' /\ AggBoxOK(coord.round)'
        /\ CoordBoxOK(coord.round)' /\ MonBoxOK(coord.round)'
        /\ ClientBoxOK(coord.round)' /\ WireOK(coord.round)' /\ RegisteringOK'
    BY <1>3, <1>4, <2>1, <2>3, <2>5
    DEF AggOK, MonOK, AggBoxOK, CoordBoxOK, MonBoxOK, ClientBoxOK, WireOK, RegisteringOK
  <2> QED BY <1>2, <2>6, <2>7 DEF DataInv, DataOK, BoxesOK
<1> QED BY <1>5, <1>6, <1>7, <1>8, <1>9, <1>10 DEF Coordinator

\* Outside the coordinator no round begins: what each step touches is enough.
LEMMA DataSameRound ==
  ASSUME DataInv, EnvOK', UNCHANGED <<coord, doneCh>>,
         AggOK(coord.round)', MonOK(coord.round)', BoxesOK(coord.round)',
         WireOK(coord.round)', RegisteringOK'
  PROVE  DataInv'
<1>1. CoordOK'
  BY DEF DataInv, CoordOK
<1> QED BY <1>1 DEF DataInv, DataOK

\* The check that ends the aggregator's handlers.
LEMMA SettleData ==
  ASSUME NEW n \in 0..TotalRounds,
         NEW a \in [expected : 1..NumClients, round : 0..n, updates : Seq(UpdatesUpTo(n))],
         \A i \in DOMAIN a.updates : a.updates[i].round = a.round,
         CoordBoxOK(n), Settle(a)
  PROVE  /\ agg' \in [expected : 1..NumClients, round : 0..n, updates : Seq(UpdatesUpTo(n))]
         /\ \A i \in DOMAIN agg'.updates : agg'.updates[i].round = agg'.round
         /\ coordBox' \in Seq(CoordMsgs(n))
<1>1. CASE ~Enough(a)
  BY <1>1 DEF Settle, CoordBoxOK
<1>2. CASE Enough(a)
  <2> DEFINE m == AggregationResult(a.round, FedAvg(a.updates))
  <2>1. agg' = [a EXCEPT !.updates = <<>>] /\ coordBox' = Post(coordBox, m)
    BY <1>2 DEF Settle
  <2>2. <<>> \in Seq(UpdatesUpTo(n)) /\ DOMAIN <<>> = {} /\ Len(<<>>) = 0
    OBVIOUS
  <2>3. a.updates # <<>>
    BY <1>2, <2>2, ClientsCounted DEF Enough
  <2>4. a.round \in 1..n /\ FedAvg(a.updates) \in OneRound(n)
    BY <2>3, AverageOfOne
  <2>5. m \in CoordMsgs(n)
    BY <2>4 DEF AggregationResult, CoordMsgs
  <2> HIDE DEF m
  <2>6. coordBox' \in Seq(CoordMsgs(n))
    BY <2>1, <2>5, PostInSeq DEF CoordBoxOK
  <2>7. /\ agg' \in [expected : 1..NumClients, round : 0..n, updates : Seq(UpdatesUpTo(n))]
        /\ agg'.updates = <<>>
    BY <2>1, <2>2
  <2> QED BY <2>2, <2>6, <2>7
<1> QED BY <1>1, <1>2

\* The steps of the aggregator.
LEMMA AggregatorData == DataInv /\ Aggregator /\ UNCHANGED envVars => DataInv'
<1> SUFFICES ASSUME DataInv, Aggregator, UNCHANGED envVars PROVE DataInv'
  OBVIOUS
<1> DEFINE n == coord.round
           m == Head(aggBox)
           A == [expected : 1..NumClients, round : 0..n, updates : Seq(UpdatesUpTo(n))]
<1>1. n \in 0..TotalRounds /\ n \in Nat
  BY ActorsAssumption DEF DataInv, CoordOK, CoordRecord
<1>2. EnvOK'
  BY DEF EnvOK, DataInv, envVars
<1>3. /\ AggOK(n) /\ MonOK(n) /\ CoordBoxOK(n) /\ AggBoxOK(n) /\ MonBoxOK(n)
      /\ ClientBoxOK(n) /\ WireOK(n) /\ RegisteringOK
  BY DEF DataInv, DataOK, BoxesOK
<1>4. agg \in A /\ \A i \in DOMAIN agg.updates : agg.updates[i].round = agg.round
  BY <1>3 DEF AggOK
<1>5. /\ aggBox # <<>> /\ aggBox' = Tail(aggBox)
      /\ UNCHANGED <<coord, doneCh, mon, registered, monBox, cmBox, clientBox, wire>>
  BY DEF Aggregator, AggLocalUpdate, AggRemoveClient, AggTakes
<1>6. m \in AggMsgs(n) /\ aggBox' \in Seq(AggMsgs(n))
  BY <1>3, <1>5, TakeFromSeq DEF AggBoxOK
<1>7. PICK a \in A : /\ \A i \in DOMAIN a.updates : a.updates[i].round = a.round
                     /\ Settle(a)
  <2>1. CASE AggLocalUpdate
    <3> DEFINE r == m.round
               u == Update(m.client, m.round)
               longer == Append(Kept(r), u)
               a == [agg EXCEPT !.round = r, !.updates = longer]
    <3>1. m.type = "LocalUpdate" /\ Settle(a)
      BY <2>1 DEF AggLocalUpdate, AggTakes
    <3>2. r \in 1..n /\ u \in UpdatesUpTo(n) /\ u.round = r
      BY <1>6, <3>1 DEF AggMsgs, UpdatesUpTo, Update
    <3>3. /\ Kept(r) \in Seq(UpdatesUpTo(n)) /\ DOMAIN Kept(r) = 1..Len(Kept(r))
          /\ \A i \in DOMAIN Kept(r) : Kept(r)[i].round = r
      <4>1. CASE r = agg.round
        BY <1>4, <4>1, LenProperties DEF Kept
      <4>2. CASE r # agg.round
        <5>1. Kept(r) = <<>>
          BY <4>2 DEF Kept
        <5>2. <<>> \in Seq(UpdatesUpTo(n)) /\ Len(<<>>) = 0 /\ DOMAIN <<>> = {}
          BY EmptySeq
        <5>3. 1..0 = {}
          OBVIOUS
        <5> QED BY <5>1, <5>2, <5>3, Zenon
      <4> QED BY <4>1, <4>2
    <3> HIDE DEF r, u
    <3>4. /\ longer \in Seq(UpdatesUpTo(n)) /\ DOMAIN longer = 1..(Len(Kept(r)) + 1)
          /\ \A i \in 1..Len(Kept(r)) : longer[i] = Kept(r)[i]
          /\ longer[Len(Kept(r)) + 1] = u
          /\ Len(Kept(r)) \in Nat
      BY <3>2, <3>3, AppendProperties, LenProperties
    <3> HIDE DEF longer
    <3>5. \A i \in DOMAIN longer : longer[i].round = r
      BY <3>2, <3>3, <3>4
    <3>6. r \in 0..n
      BY <3>2
    <3>7. a \in A /\ a.updates = longer /\ a.round = r
      BY <1>4, <3>4, <3>6
    <3> HIDE DEF a, A
    <3> QED BY <3>1, <3>5, <3>7
  <2>2. CASE AggRemoveClient
    <3> DEFINE a == [agg EXCEPT !.expected = IF @ > 1 THEN @ - 1 ELSE @]
    <3>1. Settle(a)
      BY <2>2 DEF AggRemoveClient
    <3>2. a \in A /\ a.updates = agg.updates /\ a.round = agg.round
      BY <1>4, ClientsCounted
    <3> HIDE DEF a, A
    <3> QED BY <1>4, <3>1, <3>2
  <2> QED BY <2>1, <2>2 DEF Aggregator
<1>8. /\ agg' \in A /\ \A i \in DOMAIN agg'.updates : agg'.updates[i].round = agg'.round
      /\ coordBox' \in Seq(CoordMsgs(n))
  BY <1>1, <1>3, <1>7, SettleData
<1>9. /\ AggOK(coord.round)' /\ MonOK(coord.round)' /\ BoxesOK(coord.round)'
      /\ WireOK(coord.round)' /\ RegisteringOK'
  BY <1>3, <1>5, <1>6, <1>8 DEF AggOK, MonOK, BoxesOK, AggBoxOK, CoordBoxOK, MonBoxOK,
       ClientBoxOK, WireOK, RegisteringOK
<1> QED BY <1>2, <1>5, <1>9, DataSameRound

\* The steps of the monitor.
LEMMA MonitorData == DataInv /\ Monitor /\ UNCHANGED envVars => DataInv'
<1> SUFFICES ASSUME DataInv, Monitor, UNCHANGED envVars PROVE DataInv'
  OBVIOUS
<1> DEFINE n == coord.round
           m == Head(monBox)
           M == [validation : BOOLEAN, model : Served(n), log : SUBSET [round : Rounds, of : Models]]
<1>1. n \in 0..TotalRounds /\ n \in Nat /\ TotalRounds \in Nat
  BY ActorsAssumption DEF DataInv, CoordOK, CoordRecord
<1>2. EnvOK'
  BY DEF EnvOK, DataInv, envVars
<1>3. /\ AggOK(n) /\ MonOK(n) /\ CoordBoxOK(n) /\ AggBoxOK(n) /\ MonBoxOK(n)
      /\ ClientBoxOK(n) /\ WireOK(n) /\ RegisteringOK
  BY DEF DataInv, DataOK, BoxesOK
<1>4. /\ monBox # <<>> /\ monBox' = Tail(monBox)
      /\ UNCHANGED <<coord, doneCh, agg, registered, aggBox, cmBox, clientBox, wire>>
  BY DEF Monitor, MonSetGlobalModel, MonRoundComplete, MonTakes
<1>5. m \in MonMsgs(n) /\ monBox' \in Seq(MonMsgs(n)) /\ mon \in M
  BY <1>3, <1>4, TakeFromSeq DEF MonBoxOK, MonOK
<1>6. mon' \in M /\ coordBox' \in Seq(CoordMsgs(n))
  <2>1. CASE MonSetGlobalModel
    <3>1. m.type = "SetGlobalModel" /\ mon' = [mon EXCEPT !.model = m.model] /\ UNCHANGED coordBox
      BY <2>1 DEF MonSetGlobalModel, MonTakes
    <3>2. m.model \in Served(n)
      BY <1>5, <3>1 DEF MonMsgs, Served
    <3> QED BY <1>3, <1>5, <3>1, <3>2 DEF CoordBoxOK
  <2>2. CASE MonRoundComplete
    <3> DEFINE e == [round |-> m.round, of |-> mon.model]
    <3>1. m.type = "RoundComplete"
      BY <2>2 DEF MonRoundComplete, MonTakes
    <3>2. m.round \in 1..n /\ m.round \in Rounds
      BY <1>1, <1>5, <3>1 DEF MonMsgs, Rounds
    <3>3. mon.model \in Models
      BY <1>5, NoModelIsModel DEF Served, OneRound
    <3>4. e \in [round : Rounds, of : Models]
      BY <3>2, <3>3
    <3>5. \/ /\ mon' = [mon EXCEPT !.log = @ \cup {e}]
             /\ \E b \in BOOLEAN : coordBox' = Post(coordBox, MetricsReport(m.round, b))
          \/ UNCHANGED <<mon, coordBox>>
      BY <2>2 DEF MonRoundComplete
    <3> HIDE DEF e
    <3>6. CASE /\ mon' = [mon EXCEPT !.log = @ \cup {e}]
               /\ \E b \in BOOLEAN : coordBox' = Post(coordBox, MetricsReport(m.round, b))
      <4>1. PICK b \in BOOLEAN : coordBox' = Post(coordBox, MetricsReport(m.round, b))
        BY <3>6
      <4>2. MetricsReport(m.round, b) \in CoordMsgs(n)
        BY <3>2 DEF MetricsReport, CoordMsgs
      <4>3. coordBox' \in Seq(CoordMsgs(n))
        BY <1>3, <4>1, <4>2, PostInSeq DEF CoordBoxOK
      <4>4. mon' \in M
        BY <1>5, <3>4, <3>6
      <4> QED BY <4>3, <4>4
    <3>7. CASE UNCHANGED <<mon, coordBox>>
      BY <1>3, <1>5, <3>7 DEF CoordBoxOK
    <3> QED BY <3>5, <3>6, <3>7
  <2> QED BY <2>1, <2>2 DEF Monitor
<1>7. /\ AggOK(coord.round)' /\ MonOK(coord.round)' /\ BoxesOK(coord.round)'
      /\ WireOK(coord.round)' /\ RegisteringOK'
  BY <1>3, <1>4, <1>5, <1>6 DEF AggOK, MonOK, BoxesOK, AggBoxOK, CoordBoxOK, MonBoxOK,
       ClientBoxOK, WireOK, RegisteringOK
<1> QED BY <1>2, <1>4, <1>7, DataSameRound

\* The cluster manager's step and those of a client.
LEMMA ClusterManagerData == DataInv /\ CMRegisterClient /\ UNCHANGED envVars => DataInv'
<1> SUFFICES ASSUME DataInv, CMRegisterClient, UNCHANGED envVars PROVE DataInv'
  OBVIOUS
<1> DEFINE n == coord.round
           cs == Append(registered, Head(cmBox))
<1>1. EnvOK'
  BY DEF EnvOK, DataInv, envVars
<1>2. /\ AggOK(n) /\ MonOK(n) /\ CoordBoxOK(n) /\ AggBoxOK(n) /\ MonBoxOK(n)
      /\ ClientBoxOK(n) /\ WireOK(n) /\ RegisteringOK
  BY DEF DataInv, DataOK, BoxesOK
<1>3. /\ cmBox # <<>> /\ cmBox' = Tail(cmBox) /\ registered' = cs
      /\ SendToClients(cs, ClusterAssign) \/ UNCHANGED <<clientBox, wire>>
      /\ UNCHANGED <<coord, doneCh, agg, mon, coordBox, aggBox, monBox>>
  BY DEF CMRegisterClient
<1>4. cs \in Seq(Clients) /\ cmBox' \in Seq(Clients)
  BY <1>2, <1>3, TakeFromSeq, AppendProperties DEF RegisteringOK
<1> HIDE DEF cs
<1>5. WireOK(n)' /\ UNCHANGED clientBox
  <2>1. CASE SendToClients(cs, ClusterAssign)
    <3>1. ClusterAssign \in ClientMsgs(n)
      BY DEF ClusterAssign, ClientMsgs
    <3>2. \A k : k = n => (WireOK(k)' /\ UNCHANGED clientBox)
      BY <1>2, <1>4, <2>1, <3>1, SentToClients
    <3> QED BY <1>3, <3>2 DEF WireOK
  <2>2. CASE UNCHANGED <<clientBox, wire>>
    BY <1>2, <1>3, <2>2 DEF WireOK
  <2> QED BY <1>3, <2>1, <2>2
<1>6. /\ AggOK(coord.round)' /\ MonOK(coord.round)' /\ BoxesOK(coord.round)' /\ RegisteringOK'
  BY <1>2, <1>3, <1>4, <1>5 DEF AggOK, MonOK, BoxesOK, AggBoxOK, CoordBoxOK, MonBoxOK,
       ClientBoxOK, RegisteringOK
<1> QED BY <1>1, <1>3, <1>5, <1>6, DataSameRound

\* A client's step keeps the data invariant: it answers the round it was asked.
LEMMA ClientData ==
  ASSUME NEW c \in Clients
  PROVE  DataInv /\ Client(c) /\ UNCHANGED envVars => DataInv'
<1> SUFFICES ASSUME DataInv, Client(c), UNCHANGED envVars PROVE DataInv'
  OBVIOUS
<1> DEFINE n == coord.round
           m == Head(clientBox[c])
           e == [to |-> "aggregator", msg |-> LocalUpdate(c, m.round)]
<1>1. EnvOK'
  BY DEF EnvOK, DataInv, envVars
<1>2. /\ AggOK(n) /\ MonOK(n) /\ CoordBoxOK(n) /\ AggBoxOK(n) /\ MonBoxOK(n)
      /\ ClientBoxOK(n) /\ WireOK(n) /\ RegisteringOK
  BY DEF DataInv, DataOK, BoxesOK
<1>3. /\ clientBox[c] # <<>> /\ clientBox' = [clientBox EXCEPT ![c] = Tail(@)]
      /\ (m.type = "StartRound" /\ wire' = wire (+) SetToBag({e})) \/ UNCHANGED wire
      /\ UNCHANGED <<coord, doneCh, agg, mon, registered, coordBox, aggBox, monBox, cmBox>>
  BY RemoteAssumption DEF Client, ClientStartRound, ClientClusterAssign, ClientTakes, actorVars
<1>4. clientBox \in [Clients -> Seq(ClientMsgs(n))] /\ clientBox[c] \in Seq(ClientMsgs(n))
  BY <1>2 DEF ClientBoxOK
<1>5. m \in ClientMsgs(n) /\ Tail(clientBox[c]) \in Seq(ClientMsgs(n))
  BY <1>3, <1>4, TakeFromSeq
<1>6. clientBox' \in [Clients -> Seq(ClientMsgs(n))]
  BY <1>3, <1>4, <1>5
<1>7. IsABag(wire') /\ DOMAIN wire' \subseteq CallsUpTo(n)
  <2>1. CASE m.type = "StartRound" /\ wire' = wire (+) SetToBag({e})
    <3>1. m.round \in 1..n
      BY <1>5, <2>1 DEF ClientMsgs
    <3>2. e \in UpdateCalls(n)
      BY <3>1 DEF LocalUpdate, UpdateCalls
    <3> HIDE DEF e
    <3>3. e \in CallsUpTo(n)
      BY <3>2 DEF CallsUpTo
    <3>4. IsABag(SetToBag({e})) /\ DOMAIN SetToBag({e}) \subseteq CallsUpTo(n)
      <4>1. IsABag(SetToBag({e})) /\ DOMAIN SetToBag({e}) = {e}
        BY OneInBag
      <4> QED BY <3>3, <4>1, Zenon
    <3> QED BY <1>2, <2>1, <3>4, BagAdd DEF WireOK
  <2>2. CASE UNCHANGED wire
    BY <1>2, <2>2 DEF WireOK
  <2> QED BY <1>3, <2>1, <2>2
<1>8. /\ AggOK(coord.round)' /\ MonOK(coord.round)' /\ BoxesOK(coord.round)'
      /\ WireOK(coord.round)' /\ RegisteringOK'
  BY <1>2, <1>3, <1>6, <1>7 DEF AggOK, MonOK, BoxesOK, AggBoxOK, CoordBoxOK, MonBoxOK,
       ClientBoxOK, WireOK, RegisteringOK
<1> QED BY <1>1, <1>3, <1>8, DataSameRound

\* The delivery of a call, and its loss.
LEMMA DeliverData == DataInv /\ (Deliver \/ Lose) => DataInv'
<1> SUFFICES ASSUME DataInv, Deliver \/ Lose PROVE DataInv'
  OBVIOUS
<1> DEFINE n == coord.round
<1>1. /\ AggOK(n) /\ MonOK(n) /\ CoordBoxOK(n) /\ AggBoxOK(n) /\ MonBoxOK(n)
      /\ ClientBoxOK(n) /\ WireOK(n) /\ RegisteringOK /\ EnvOK
  BY DEF DataInv, DataOK, BoxesOK
<1>2. ASSUME NEW e, wire' = wire (-) SetToBag({e})
      PROVE  IsABag(wire') /\ DOMAIN wire' \subseteq CallsUpTo(n)
  BY <1>1, <1>2, OneInBag, BagTake DEF WireOK
<1>3. ASSUME NEW c \in Clients, NEW t \in 1..MaxTries, DeliverJoin(c, t) PROVE DataInv'
  <2>1. /\ wire' = wire (-) SetToBag({JoinCall(c, t)})
        /\ UNCHANGED faults \/ Fault("early")
        /\ coordBox' = IF coord.up THEN Post(coordBox, ClientJoin(c)) ELSE coordBox
        /\ UNCHANGED joining \/ \E j \in {"registered", "idle"} : joining' = [joining EXCEPT ![c] = j]
        /\ UNCHANGED <<actorVars, aggBox, monBox, cmBox, clientBox, up, tries, peersTold, heard>>
    BY <1>3 DEF DeliverJoin
  <2>2. EnvOK'
    BY <1>1, <2>1 DEF EnvOK, Fault, FaultKinds
  <2>3. coordBox' \in Seq(CoordMsgs(n))
    <3>1. ClientJoin(c) \in CoordMsgs(n)
      BY DEF ClientJoin, CoordMsgs
    <3> QED BY <1>1, <2>1, <3>1, PostInSeq DEF CoordBoxOK
  <2>4. UNCHANGED <<coord, doneCh, agg, mon, registered>>
    BY <2>1 DEF actorVars
  <2>5. /\ AggOK(coord.round)' /\ MonOK(coord.round)' /\ BoxesOK(coord.round)'
        /\ WireOK(coord.round)' /\ RegisteringOK'
    BY <1>1, <1>2, <2>1, <2>3, <2>4 DEF AggOK, MonOK, BoxesOK, AggBoxOK, CoordBoxOK, MonBoxOK,
         ClientBoxOK, WireOK, RegisteringOK
  <2> QED BY <2>2, <2>4, <2>5, DataSameRound
<1>4. ASSUME NEW e \in BagToSet(wire), DeliverUpdate(e) PROVE DataInv'
  <2>1. /\ e.to = "aggregator" /\ wire' = wire (-) SetToBag({e}) /\ aggBox' = Post(aggBox, e.msg)
        /\ UNCHANGED <<actorVars, coordBox, monBox, cmBox, clientBox, envVars>>
    BY <1>4 DEF DeliverUpdate
  <2>2. e \in UpdateCalls(n)
    <3>1. e \in CallsUpTo(n)
      BY <1>1 DEF WireOK, BagToSet
    <3> QED BY <2>1, <3>1, RemoteAssumption DEF CallsUpTo, JoinCalls, ClientCalls
  <2>3. e.msg \in AggMsgs(n)
    BY <2>2 DEF UpdateCalls, AggMsgs
  <2>4. aggBox' \in Seq(AggMsgs(n))
    BY <1>1, <2>1, <2>3, PostInSeq DEF AggBoxOK
  <2>5. UNCHANGED <<coord, doneCh, agg, mon, registered>>
    BY <2>1 DEF actorVars
  <2>6. EnvOK'
    BY <1>1, <2>1 DEF EnvOK, envVars
  <2>7. /\ AggOK(coord.round)' /\ MonOK(coord.round)' /\ BoxesOK(coord.round)'
        /\ WireOK(coord.round)' /\ RegisteringOK'
    BY <1>1, <1>2, <2>1, <2>4, <2>5 DEF AggOK, MonOK, BoxesOK, AggBoxOK, CoordBoxOK, MonBoxOK,
         ClientBoxOK, WireOK, RegisteringOK
  <2> QED BY <2>5, <2>6, <2>7, DataSameRound
<1>5. ASSUME NEW e \in BagToSet(wire), DeliverToClient(e) PROVE DataInv'
  <2>1. /\ e.to \in Clients /\ wire' = wire (-) SetToBag({e})
        /\ clientBox' = IF up[e.to] THEN [clientBox EXCEPT ![e.to] = Post(@, e.msg)]
                                    ELSE clientBox
        /\ UNCHANGED <<actorVars, coordBox, aggBox, monBox, cmBox, envVars>>
    BY <1>5 DEF DeliverToClient
  <2>2. e.msg \in ClientMsgs(n)
    <3>1. e \in CallsUpTo(n)
      BY <1>1 DEF WireOK, BagToSet
    <3>2. e \in ClientCalls(n)
      BY <2>1, <3>1, RemoteAssumption DEF CallsUpTo, JoinCalls, UpdateCalls
    <3> QED BY <3>2 DEF ClientCalls
  <2>3. clientBox' \in [Clients -> Seq(ClientMsgs(n))]
    <3>1. Post(clientBox[e.to], e.msg) \in Seq(ClientMsgs(n))
      BY <1>1, <2>1, <2>2, PostInSeq DEF ClientBoxOK
    <3> QED BY <1>1, <2>1, <3>1 DEF ClientBoxOK
  <2>4. UNCHANGED <<coord, doneCh, agg, mon, registered>>
    BY <2>1 DEF actorVars
  <2>5. EnvOK'
    BY <1>1, <2>1 DEF EnvOK, envVars
  <2>6. /\ AggOK(coord.round)' /\ MonOK(coord.round)' /\ BoxesOK(coord.round)'
        /\ WireOK(coord.round)' /\ RegisteringOK'
    BY <1>1, <1>2, <2>1, <2>3, <2>4 DEF AggOK, MonOK, BoxesOK, AggBoxOK, CoordBoxOK, MonBoxOK,
         ClientBoxOK, WireOK, RegisteringOK
  <2> QED BY <2>4, <2>5, <2>6, DataSameRound
<1>6. CASE Lose
  <2>1. /\ Fault("loss") /\ \E e \in BagToSet(wire) : wire' = wire (-) SetToBag({e})
        /\ UNCHANGED <<actorVars, coordBox, aggBox, monBox, cmBox, clientBox, up, joining, tries, peersTold,
                       heard>>
    BY <1>6 DEF Lose
  <2>2. UNCHANGED <<coord, doneCh, agg, mon, registered>>
    BY <2>1 DEF actorVars
  <2>3. EnvOK'
    BY <1>1, <2>1 DEF EnvOK, Fault, FaultKinds
  <2>4. /\ AggOK(coord.round)' /\ MonOK(coord.round)' /\ BoxesOK(coord.round)'
        /\ WireOK(coord.round)' /\ RegisteringOK'
    BY <1>1, <1>2, <2>1, <2>2 DEF AggOK, MonOK, BoxesOK, AggBoxOK, CoordBoxOK, MonBoxOK,
         ClientBoxOK, WireOK, RegisteringOK
  <2> QED BY <2>2, <2>3, <2>4, DataSameRound
<1> QED BY <1>3, <1>4, <1>5, <1>6 DEF Deliver

\* What the processes and the membership do.
LEMMA EnvironmentData ==
  ASSUME DataInv,
         \/ MainSetPeers
         \/ \E c \in Clients : SendJoin(c) \/ JoinTimeout(c) \/ GiveUp(c)
                                 \/ ClientCrash(c) \/ ClientRestart(c) \/ Hear(c) \/ ReportCrashed(c)
         \/ \E m \in Clients \cup {CoordinatorId} : ReportWrongly(m)
  PROVE  DataInv'
<1> DEFINE n == coord.round
<1>1. /\ AggOK(n) /\ MonOK(n) /\ CoordBoxOK(n) /\ AggBoxOK(n) /\ MonBoxOK(n)
      /\ ClientBoxOK(n) /\ WireOK(n) /\ RegisteringOK /\ EnvOK
  BY DEF DataInv, DataOK, BoxesOK
<1>2. ASSUME UNCHANGED <<coord, doneCh, agg, mon, registered, aggBox, monBox, cmBox>>,
             coordBox' \in Seq(CoordMsgs(n)) \/ UNCHANGED coordBox,
             clientBox' \in [Clients -> Seq(ClientMsgs(n))] \/ UNCHANGED clientBox,
             (IsABag(wire') /\ DOMAIN wire' \subseteq CallsUpTo(n)) \/ UNCHANGED wire,
             EnvOK'
      PROVE  DataInv'
  <2>1. /\ AggOK(coord.round)' /\ MonOK(coord.round)' /\ BoxesOK(coord.round)'
        /\ WireOK(coord.round)' /\ RegisteringOK'
    BY <1>1, <1>2 DEF AggOK, MonOK, BoxesOK, AggBoxOK, CoordBoxOK, MonBoxOK,
         ClientBoxOK, WireOK, RegisteringOK
  <2> QED BY <1>2, <2>1, DataSameRound
<1>3. CASE MainSetPeers
  <2>1. /\ peersTold' = TRUE /\ coordBox' = Post(coordBox, SetPeers)
        /\ UNCHANGED <<coord, doneCh, agg, mon, registered, aggBox, monBox, cmBox, clientBox, wire,
                       up, joining, tries, heard, faults>>
    BY <1>3 DEF MainSetPeers, actorVars
  <2>2. SetPeers \in CoordMsgs(n)
    BY DEF SetPeers, CoordMsgs
  <2>3. coordBox' \in Seq(CoordMsgs(n))
    BY <1>1, <2>1, <2>2, PostInSeq DEF CoordBoxOK
  <2>4. EnvOK'
    BY <1>1, <2>1 DEF EnvOK
  <2> QED BY <1>2, <2>1, <2>3, <2>4
<1>4. ASSUME NEW c \in Clients, SendJoin(c) PROVE DataInv'
  <2> DEFINE e == JoinCall(c, tries[c] + 1)
  <2>1. /\ tries[c] < MaxTries /\ joining' = [joining EXCEPT ![c] = "waiting"]
        /\ tries' = [tries EXCEPT ![c] = @ + 1] /\ wire' = wire (+) SetToBag({e})
        /\ UNCHANGED <<coord, doneCh, agg, mon, registered, coordBox, aggBox, monBox, cmBox, clientBox,
                       up, peersTold, heard, faults>>
    BY <1>4 DEF SendJoin, actorVars
  <2>2. tries[c] + 1 \in 1..MaxTries /\ tries[c] + 1 \in 0..MaxTries
    BY <1>1, <2>1, RemoteAssumption DEF EnvOK
  <2>3. e \in JoinCalls
    BY <2>2 DEF JoinCall, JoinCalls, ClientJoin
  <2> HIDE DEF e
  <2>4. e \in CallsUpTo(n)
    BY <2>3 DEF CallsUpTo
  <2>5. IsABag(SetToBag({e})) /\ DOMAIN SetToBag({e}) = {e}
    BY OneInBag
  <2>6. DOMAIN SetToBag({e}) \subseteq CallsUpTo(n)
    BY <2>4, <2>5, Zenon
  <2>7. IsABag(wire') /\ DOMAIN wire' \subseteq CallsUpTo(n)
    BY <1>1, <2>1, <2>5, <2>6, BagAdd DEF WireOK
  <2>8. EnvOK'
    BY <1>1, <2>1, <2>2 DEF EnvOK
  <2> QED BY <1>2, <2>1, <2>7, <2>8
<1>5. ASSUME NEW c \in Clients, JoinTimeout(c) \/ ClientRestart(c) PROVE DataInv'
  <2>1. /\ UNCHANGED <<coord, doneCh, agg, mon, registered, coordBox, aggBox, monBox, cmBox, clientBox, wire,
                       heard>>
        /\ faults' \subseteq FaultKinds
        /\ \/ joining' = [joining EXCEPT ![c] = "idle"] /\ UNCHANGED <<up, tries, peersTold>>
           \/ up' = [up EXCEPT ![c] = TRUE] /\ UNCHANGED <<joining, tries, peersTold>>
    BY <1>1, <1>5 DEF JoinTimeout, ClientRestart, Fault, FaultKinds, flVars, actorVars, boxVars, EnvOK
  <2>2. EnvOK'
    BY <1>1, <2>1 DEF EnvOK
  <2> QED BY <1>2, <2>1, <2>2
<1>6. ASSUME NEW c \in Clients, GiveUp(c) \/ ClientCrash(c) PROVE DataInv'
  <2>1. /\ UNCHANGED <<coord, doneCh, agg, mon, registered, coordBox, aggBox, monBox, cmBox, tries, peersTold,
                       heard>>
        /\ clientBox' = [clientBox EXCEPT ![c] = <<>>]
        /\ up' = [up EXCEPT ![c] = FALSE]
        /\ UNCHANGED joining \/ joining' = [joining EXCEPT ![c] = "idle"]
        /\ faults' \subseteq FaultKinds
    BY <1>1, <1>6 DEF GiveUp, ClientCrash, Fault, FaultKinds, actorVars, EnvOK
  <2>2. UNCHANGED wire \/ \E cut : wire' = [e \in DOMAIN wire \ cut |-> wire[e]]
    BY <1>6 DEF GiveUp, ClientCrash
  <2>3. IsABag(wire') /\ DOMAIN wire' \subseteq CallsUpTo(n)
    <3>1. ASSUME NEW cut, wire' = [e \in DOMAIN wire \ cut |-> wire[e]]
          PROVE  IsABag(wire') /\ DOMAIN wire' \subseteq CallsUpTo(n)
      BY <1>1, <3>1 DEF WireOK, IsABag
    <3> QED BY <1>1, <2>2, <3>1 DEF WireOK
  <2>4. clientBox' \in [Clients -> Seq(ClientMsgs(n))]
    BY <1>1, <2>1 DEF ClientBoxOK
  <2>5. EnvOK'
    BY <1>1, <2>1 DEF EnvOK
  <2> QED BY <1>2, <2>1, <2>3, <2>4, <2>5
<1>7. ASSUME NEW m \in Clients \cup {CoordinatorId}, Watch(m), faults' \subseteq FaultKinds PROVE DataInv'
  <2>1. /\ coordBox' = Post(coordBox, ClientDown(m))
        /\ UNCHANGED <<coord, doneCh, agg, mon, registered, aggBox, monBox, cmBox, clientBox, wire,
                       up, joining, tries, peersTold, heard>>
    BY <1>7 DEF Watch, actorVars
  <2>2. ClientDown(m) \in CoordMsgs(n)
    BY DEF ClientDown, CoordMsgs
  <2>3. coordBox' \in Seq(CoordMsgs(n))
    BY <1>1, <2>1, <2>2, PostInSeq DEF CoordBoxOK
  <2>4. EnvOK'
    BY <1>1, <1>7, <2>1 DEF EnvOK
  <2> QED BY <1>2, <2>1, <2>3, <2>4
<1>8. ASSUME NEW c \in Clients, ReportCrashed(c) PROVE DataInv'
  BY <1>1, <1>7, <1>8 DEF ReportCrashed, EnvOK
<1>9. ASSUME NEW m \in Clients \cup {CoordinatorId}, ReportWrongly(m) PROVE DataInv'
  <2>1. Watch(m) /\ faults' \subseteq FaultKinds
    BY <1>1, <1>9 DEF ReportWrongly, Fault, FaultKinds, EnvOK
  <2> QED BY <1>7, <2>1
<1>10. ASSUME NEW c \in Clients, Hear(c) PROVE DataInv'
  <2>1. /\ heard' = heard \cup {c}
        /\ UNCHANGED <<coord, doneCh, agg, mon, registered, coordBox, aggBox, monBox, cmBox, clientBox,
                       wire, up, joining, tries, peersTold, faults>>
    BY <1>10 DEF Hear, flVars, actorVars, boxVars
  <2>2. EnvOK'
    BY <1>1, <2>1 DEF EnvOK
  <2> QED BY <1>2, <2>1, <2>2
<1> QED BY <1>3, <1>4, <1>5, <1>6, <1>8, <1>9, <1>10

\* Every step keeps it.
LEMMA DataStep == DataInv /\ [Next]_vars => DataInv'
<1> SUFFICES ASSUME DataInv, [Next]_vars PROVE DataInv'
  OBVIOUS
<1>1. CASE ActorStep
  BY <1>1, CoordinatorData, AggregatorData, MonitorData, ClusterManagerData, ClientData
  DEF ActorStep, Actors
<1>2. CASE Deliver \/ Lose
  BY <1>2, DeliverData
<1>3. CASE \/ MainSetPeers
           \/ \E c \in Clients : SendJoin(c) \/ JoinTimeout(c) \/ GiveUp(c)
                                   \/ ClientCrash(c) \/ ClientRestart(c) \/ Hear(c) \/ ReportCrashed(c)
           \/ \E m \in Clients \cup {CoordinatorId} : ReportWrongly(m)
  BY <1>3, EnvironmentData
<1>4. CASE UNCHANGED vars
  <2>1. UNCHANGED <<coord, doneCh, agg, mon, registered, coordBox, aggBox, monBox, cmBox, clientBox,
                    wire, up, joining, tries, peersTold, heard, faults>>
    BY <1>4 DEF vars, flVars, actorVars, boxVars, envVars
  <2>2. EnvOK'
    BY <2>1 DEF EnvOK, DataInv
  <2>3. /\ AggOK(coord.round)' /\ MonOK(coord.round)' /\ BoxesOK(coord.round)'
        /\ WireOK(coord.round)' /\ RegisteringOK'
    BY <2>1 DEF DataInv, DataOK, AggOK, MonOK, BoxesOK, AggBoxOK, CoordBoxOK, MonBoxOK,
         ClientBoxOK, WireOK, RegisteringOK
  <2> QED BY <2>1, <2>2, <2>3, DataSameRound
<1> QED BY <1>1, <1>2, <1>3, <1>4 DEF Next

\* The data invariant holds from the start and every step keeps it.
LEMMA DataInvariance == Spec => []DataInv
BY DataInit, DataStep, PTL DEF Spec

-----------------------------------------------------------------------------

\* The distributed deployment is correctly typed under all faults; in
\* particular no message of a round that has not begun exists anywhere.
THEOREM RemoteTypeCorrect == Spec => []TypeOK
<1>1. DataInv => TypeOK
  <2> SUFFICES ASSUME DataInv PROVE TypeOK
    OBVIOUS
  <2> DEFINE n == coord.round
  <2>1. n \in 0..TotalRounds /\ n \in Nat /\ TotalRounds \in Nat /\ n <= TotalRounds
    BY ActorsAssumption DEF DataInv, CoordOK, CoordRecord
  <2>2. /\ AggOK(n) /\ MonOK(n) /\ CoordBoxOK(n) /\ AggBoxOK(n) /\ MonBoxOK(n)
        /\ ClientBoxOK(n) /\ WireOK(n) /\ RegisteringOK /\ EnvOK /\ CoordOK
    BY DEF DataInv, DataOK, BoxesOK
  <2> HIDE DEF n
  <2>3. /\ AggOK(TotalRounds) /\ MonOK(TotalRounds) /\ CoordBoxOK(TotalRounds)
        /\ AggBoxOK(TotalRounds) /\ MonBoxOK(TotalRounds) /\ ClientBoxOK(TotalRounds)
        /\ WireOK(TotalRounds)
    BY <2>1, <2>2, DataGrows
  <2>4. OneRound(TotalRounds) \subseteq Models
    BY DEF OneRound
  <2>5. /\ CoordMsgs(TotalRounds) \subseteq CoordMsg /\ AggMsgs(TotalRounds) \subseteq AggMsg
        /\ MonMsgs(TotalRounds) \subseteq MonMsg /\ ClientMsgs(TotalRounds) \subseteq ClientMsg
        /\ UpdatesUpTo(TotalRounds) = [client : Clients, round : Rounds]
    BY <2>4 DEF CoordMsgs, CoordMsg, AggMsgs, AggMsg, MonMsgs, MonMsg, ClientMsgs, ClientMsg,
         UpdatesUpTo, Rounds
  <2>6. /\ coordBox \in Seq(CoordMsg) /\ aggBox \in Seq(AggMsg) /\ monBox \in Seq(MonMsg)
    BY <2>3, <2>5, SeqMonotonic DEF CoordBoxOK, AggBoxOK, MonBoxOK
  <2>7. clientBox \in [Clients -> Seq(ClientMsg)]
    <3>1. Seq(ClientMsgs(TotalRounds)) \subseteq Seq(ClientMsg)
      BY <2>5, SeqMonotonic
    <3> QED BY <2>3, <3>1 DEF ClientBoxOK
  <2>8. coord \in CoordRecord /\ doneCh \in BOOLEAN
    BY <2>2 DEF CoordOK
  <2>9. agg \in [expected : 1..NumClients, round : 0..TotalRounds,
                 updates : Seq([client : Clients, round : Rounds])]
    BY <2>3, <2>5 DEF AggOK
  <2>10. mon \in [validation : BOOLEAN, model : Models, log : SUBSET [round : Rounds, of : Models]]
    <3>1. Served(TotalRounds) \subseteq Models
      BY <2>4, NoModelIsModel DEF Served
    <3> QED BY <2>3, <3>1 DEF MonOK
  <2>11. ActorsTypeOK
    BY <2>2, <2>6, <2>7, <2>8, <2>9, <2>10 DEF ActorsTypeOK, CoordRecord, RegisteringOK
  <2>12. IsABag(wire) /\ DOMAIN wire \subseteq Calls
    <3>1. JoinCalls \cup UpdateCalls(TotalRounds) \cup ClientCalls(TotalRounds) \subseteq Calls
      BY <2>5 DEF JoinCalls, UpdateCalls, ClientCalls, Calls, AggMsg, Rounds
    <3> QED BY <2>3, <3>1 DEF WireOK, CallsUpTo
  <2> QED BY <2>2, <2>11, <2>12 DEF TypeOK, EnvOK
<1> QED BY <1>1, DataInvariance, PTL

\* Whatever is lost, late, repeated or wrongly reported, an average is of
\* updates of a single round that had begun, and never of none.
THEOREM AveragesAreOfOneRound == Spec => []AveragesOfOneRound
<1>1. DataInv => AveragesOfOneRound
  <2> SUFFICES ASSUME DataInv, NEW a \in Averages PROVE a \in OneRound(coord.round)
    BY DEF AveragesOfOneRound, OneRound
  <2> DEFINE n == coord.round
  <2>1. /\ coord.model \in Served(n) /\ mon.model \in Served(n)
        /\ coordBox \in Seq(CoordMsgs(n)) /\ monBox \in Seq(MonMsgs(n))
    BY DEF DataInv, DataOK, BoxesOK, CoordOK, MonOK, CoordBoxOK, MonBoxOK
  <2>2. ASSUME NEW x \in ToSet(coordBox), x.type = "AggregationResult" PROVE x.model \in OneRound(n)
    <3>1. x \in CoordMsgs(n)
      BY <2>1, ElementOfSeq, LenProperties DEF ToSet
    <3> QED BY <2>2, <3>1 DEF CoordMsgs
  <2>3. ASSUME NEW x \in ToSet(monBox), x.type = "SetGlobalModel" PROVE x.model \in OneRound(n)
    <3>1. x \in MonMsgs(n)
      BY <2>1, ElementOfSeq, LenProperties DEF ToSet
    <3> QED BY <2>3, <3>1 DEF MonMsgs
  <2>4. \/ \E x \in ToSet(coordBox) : x.type = "AggregationResult" /\ a = x.model
        \/ \E x \in ToSet(monBox) : x.type = "SetGlobalModel" /\ a = x.model
        \/ a \in {coord.model, mon.model} \ {NoModel}
    BY DEF Averages
  <2> QED BY <2>1, <2>2, <2>3, <2>4 DEF Served
<1> QED BY <1>1, DataInvariance, PTL

-----------------------------------------------------------------------------
(* Counting messages and calls. *)

\* how often x is in the list s, and in the bag B
Occurrences(s, x) == {i \in DOMAIN s : s[i] = x}
Occ(s, x) == Cardinality(Occurrences(s, x))
Copies(B, x) == IF x \in DOMAIN B THEN B[x] ELSE 0

\* How often a list holds x is a number, and zero when no place holds it.
LEMMA OccFacts ==
  ASSUME NEW S, NEW s \in Seq(S), NEW x
  PROVE  /\ IsFiniteSet(Occurrences(s, x)) /\ Occ(s, x) \in Nat
         /\ Occ(s, x) = 0 <=> \A i \in DOMAIN s : s[i] # x
<1>1. DOMAIN s = 1..Len(s) /\ Len(s) \in Nat
  BY LenProperties
<1>2. IsFiniteSet(Occurrences(s, x))
  <2>1. IsFiniteSet(1..Len(s))
    BY <1>1, FS_Interval
  <2>2. Occurrences(s, x) \subseteq 1..Len(s)
    BY <1>1 DEF Occurrences
  <2> QED BY <2>1, <2>2, FS_Subset
<1>3. Occ(s, x) \in Nat /\ (Occ(s, x) = 0 <=> Occurrences(s, x) = {})
  BY <1>2, FS_CardinalityType, FS_EmptySet DEF Occ
<1> QED BY <1>2, <1>3 DEF Occurrences

\* The empty list holds nothing.
LEMMA OccEmpty == \A x : Occ(<<>>, x) = 0
<1> TAKE x
<1>1. Occurrences(<<>>, x) = {}
  BY DEF Occurrences
<1> QED BY <1>1, FS_EmptySet DEF Occ

\* A new last element is counted once more and nothing else is.
LEMMA OccAppend ==
  ASSUME NEW S, NEW s \in Seq(S), NEW y \in S, NEW x
  PROVE  Occ(Append(s, y), x) = Occ(s, x) + (IF x = y THEN 1 ELSE 0)
<1> DEFINE t == Append(s, y)
           k == Len(s) + 1
<1>1. /\ DOMAIN s = 1..Len(s) /\ Len(s) \in Nat /\ DOMAIN t = 1..k
      /\ \A i \in 1..Len(s) : t[i] = s[i]
      /\ t[k] = y
  BY AppendProperties, LenProperties
<1>2. IsFiniteSet(Occurrences(s, x)) /\ Occ(s, x) \in Nat
  BY OccFacts
<1> HIDE DEF t
<1>3. k \notin Occurrences(s, x)
  BY <1>1 DEF Occurrences
<1>4. CASE x = y
  <2>1. Occurrences(t, x) = Occurrences(s, x) \cup {k}
    BY <1>1, <1>4 DEF Occurrences
  <2>2. Cardinality(Occurrences(s, x) \cup {k}) = Cardinality(Occurrences(s, x)) + 1
    BY <1>2, <1>3, FS_AddElement
  <2> QED BY <1>4, <2>1, <2>2 DEF Occ, t
<1>5. CASE x # y
  <2>1. Occurrences(t, x) = Occurrences(s, x)
    BY <1>1, <1>5 DEF Occurrences
  <2> QED BY <1>2, <1>5, <2>1 DEF Occ, t
<1> QED BY <1>4, <1>5

\* A message posted is counted at most once more: a full mailbox drops it.
LEMMA OccPost ==
  ASSUME NEW S, NEW s \in Seq(S), NEW y \in S, NEW x
  PROVE  /\ Occ(Post(s, y), x) <= Occ(s, x) + (IF x = y THEN 1 ELSE 0)
         /\ x # y => Occ(Post(s, y), x) = Occ(s, x)
<1>1. Occ(s, x) \in Nat
  BY OccFacts
<1>2. Occ(Append(s, y), x) = Occ(s, x) + (IF x = y THEN 1 ELSE 0)
  BY OccAppend
<1> QED BY <1>1, <1>2 DEF Post

\* Taking the head of a mailbox takes one occurrence of it and nothing else.
LEMMA OccTail ==
  ASSUME NEW S, NEW s \in Seq(S), s # <<>>, NEW x
  PROVE  Occ(s, x) = Occ(Tail(s), x) + (IF x = Head(s) THEN 1 ELSE 0)
<1> DEFINE t == Tail(s)
           I == Occurrences(t, x)
           J == Occurrences(s, x) \ {1}
           f == [i \in I |-> i + 1]
<1>1. /\ DOMAIN s = 1..Len(s) /\ Len(s) \in Nat \ {0} /\ DOMAIN t = 1..(Len(s) - 1)
      /\ \A i \in 1..(Len(s) - 1) : t[i] = s[i + 1]
      /\ Head(s) = s[1] /\ t \in Seq(S)
  BY HeadTailProperties, LenProperties, EmptySeq
<1>2. IsFiniteSet(I) /\ Occ(t, x) \in Nat /\ IsFiniteSet(Occurrences(s, x)) /\ Occ(s, x) \in Nat
  BY <1>1, OccFacts
<1> HIDE DEF t
<1>3. \A i \in I : i \in Int /\ i + 1 \in J
  BY <1>1 DEF Occurrences
<1>4. \A j \in J : j \in Int /\ j - 1 \in I
  BY <1>1 DEF Occurrences
<1> HIDE DEF I, J
<1>5. f \in Bijection(I, J)
  <2>1. f \in [I -> J]
    BY <1>3
  <2>2. ASSUME NEW a \in I, NEW b \in I, f[a] = f[b] PROVE a = b
    BY <1>3, <2>2
  <2>3. ASSUME NEW j \in J PROVE \E i \in I : f[i] = j
    <3>1. j - 1 \in I /\ f[j - 1] = j
      BY <1>4
    <3> QED BY <3>1
  <2> HIDE DEF f
  <2> QED BY <2>1, <2>2, <2>3 DEF Bijection, Injection, Surjection, IsInjective
<1>6. Cardinality(J) = Cardinality(I)
  BY <1>2, <1>5, FS_Bijection DEF ExistsBijection
<1>7. IF x = Head(s) THEN Occ(s, x) = Cardinality(J) + 1 ELSE Occ(s, x) = Cardinality(J)
  <2>1. 1 \in Occurrences(s, x) <=> x = Head(s)
    BY <1>1 DEF Occurrences
  <2>2. CASE x = Head(s)
    <3>1. Cardinality(Occurrences(s, x) \ {1}) = Cardinality(Occurrences(s, x)) - 1
      BY <1>2, <2>1, <2>2, FS_RemoveElement
    <3> QED BY <1>2, <2>2, <3>1 DEF Occ, J
  <2>3. CASE x # Head(s)
    <3>1. J = Occurrences(s, x)
      BY <2>1, <2>3 DEF J
    <3> QED BY <2>3, <3>1 DEF Occ
  <2> QED BY <2>2, <2>3
<1> QED BY <1>2, <1>6, <1>7 DEF Occ, I, t

\* How often a bag holds x is a number, and zero when x is not in it.
LEMMA CopiesFacts ==
  ASSUME NEW B, IsABag(B), NEW x
  PROVE  Copies(B, x) \in Nat /\ (Copies(B, x) = 0 <=> x \notin DOMAIN B)
BY DEF Copies, IsABag

\* A call sent is on the wire once more.
LEMMA CopiesAdd ==
  ASSUME NEW B, IsABag(B), NEW e, NEW x
  PROVE  Copies(B (+) SetToBag({e}), x) = Copies(B, x) + (IF x = e THEN 1 ELSE 0)
<1> DEFINE A == SetToBag({e})
           C == B (+) A
<1>1. /\ DOMAIN A = {e} /\ \A d \in DOMAIN A : A[d] = 1
  BY DEF SetToBag
<1>2. C = [d \in (DOMAIN B) \cup (DOMAIN A) |->
             (IF d \in DOMAIN B THEN B[d] ELSE 0) + (IF d \in DOMAIN A THEN A[d] ELSE 0)]
  BY DEF (+)
<1>3. \A d \in DOMAIN B : B[d] \in Nat
  BY DEF IsABag
<1> HIDE DEF A
<1>4. /\ DOMAIN C = (DOMAIN B) \cup (DOMAIN A)
      /\ \A d \in DOMAIN C :
           C[d] = (IF d \in DOMAIN B THEN B[d] ELSE 0) + (IF d \in DOMAIN A THEN A[d] ELSE 0)
  BY <1>2
<1> HIDE DEF C
<1>5. Copies(C, x) = Copies(B, x) + (IF x = e THEN 1 ELSE 0)
  BY <1>1, <1>3, <1>4 DEF Copies
<1> QED BY <1>5 DEF C, A

\* A call taken off the wire is on it once less.
LEMMA CopiesTake ==
  ASSUME NEW B, IsABag(B), NEW e \in DOMAIN B, NEW x
  PROVE  Copies(B (-) SetToBag({e}), x) = Copies(B, x) - (IF x = e THEN 1 ELSE 0)
<1> DEFINE A == SetToBag({e})
           M == [d \in DOMAIN B |-> IF d \in DOMAIN A THEN B[d] - A[d] ELSE B[d]]
           C == B (-) A
<1>1. DOMAIN A = {e} /\ \A d \in DOMAIN A : A[d] = 1
  BY DEF SetToBag
<1>2. C = [d \in {q \in DOMAIN M : M[q] > 0} |-> M[d]]
  BY DEF (-)
<1>3. \A d \in DOMAIN B : B[d] \in Nat /\ B[d] > 0
  BY DEF IsABag
<1> HIDE DEF A
<1>4. /\ DOMAIN M = DOMAIN B
      /\ \A d \in DOMAIN B : M[d] = IF d = e THEN B[d] - 1 ELSE B[d]
  BY <1>1
<1> HIDE DEF M
<1>5. /\ DOMAIN C = {q \in DOMAIN B : M[q] > 0} /\ \A d \in DOMAIN C : C[d] = M[d]
  BY <1>2, <1>4
<1> HIDE DEF C
<1>6. Copies(C, x) = Copies(B, x) - (IF x = e THEN 1 ELSE 0)
  BY <1>3, <1>4, <1>5 DEF Copies
<1> QED BY <1>6 DEF C, A

\* Cutting the connections of a process that died duplicates no call.
LEMMA CopiesCut ==
  ASSUME NEW B, IsABag(B), NEW cut, NEW x
  PROVE  Copies([e \in DOMAIN B \ cut |-> B[e]], x) <= Copies(B, x)
BY DEF Copies, IsABag

\* A message to every client of a list that names none twice.
LEMMA CopiesSent ==
  ASSUME IsABag(wire), NEW cs \in Seq(Clients), NEW m, SendToClients(cs, m), NEW x
  PROVE  /\ (~\E c \in Clients : x = [to |-> c, msg |-> m]) => Copies(wire', x) = Copies(wire, x)
         /\ NoRepeat(cs) => (Copies(wire', x) \in Nat /\ Copies(wire', x) <= Copies(wire, x) + 1)
<1> DEFINE Env(c) == [to |-> c, msg |-> m]
           Sent(e) == {i \in DOMAIN cs : Env(cs[i]) = e}
           D == {Env(c) : c \in ToSet(cs)}
           A == [e \in D |-> Cardinality(Sent(e))]
           C == wire (+) A
<1>1. wire' = C
  BY RemoteAssumption DEF SendToClients
<1>2. \A i \in DOMAIN cs : cs[i] \in Clients
  BY LenProperties, ElementOfSeq
<1>3. \A e \in DOMAIN wire : wire[e] \in Nat
  BY DEF IsABag
<1>4. C = [d \in (DOMAIN wire) \cup (DOMAIN A) |->
             (IF d \in DOMAIN wire THEN wire[d] ELSE 0) + (IF d \in DOMAIN A THEN A[d] ELSE 0)]
  BY DEF (+)
<1>5. DOMAIN A = D /\ \A d \in D : A[d] = Cardinality(Sent(d))
  OBVIOUS
<1> HIDE DEF A
<1>6. /\ DOMAIN C = (DOMAIN wire) \cup D
      /\ \A d \in DOMAIN C :
           C[d] = (IF d \in DOMAIN wire THEN wire[d] ELSE 0) + (IF d \in D THEN A[d] ELSE 0)
  BY <1>4, <1>5
<1> HIDE DEF C
<1>7. (~\E c \in Clients : x = [to |-> c, msg |-> m]) => Copies(wire', x) = Copies(wire, x)
  <2>1. x \in D => \E c \in Clients : x = [to |-> c, msg |-> m]
    BY <1>2 DEF ToSet
  <2> HIDE DEF D
  <2> QED BY <1>1, <1>3, <1>6, <2>1 DEF Copies
<1>8. NoRepeat(cs) => (Copies(wire', x) \in Nat /\ Copies(wire', x) <= Copies(wire, x) + 1)
  <2> SUFFICES ASSUME NoRepeat(cs) PROVE Copies(wire', x) \in Nat /\ Copies(wire', x) <= Copies(wire, x) + 1
    OBVIOUS
  <2>1. ASSUME x \in D PROVE A[x] = 1
    <3>1. PICK i \in DOMAIN cs : x = Env(cs[i])
      BY <2>1 DEF ToSet
    <3>2. Sent(x) = {i}
      BY <3>1 DEF NoRepeat
    <3>3. Cardinality({i}) = 1
      BY FS_Singleton
    <3> QED BY <1>5, <2>1, <3>2, <3>3
  <2> HIDE DEF D
  <2> QED BY <1>1, <1>3, <1>6, <2>1 DEF Copies
<1> QED BY <1>7, <1>8

\* A list that repeats nothing goes on repeating nothing with a new element.
LEMMA AppendNew ==
  ASSUME NEW S, NEW s \in Seq(S), NEW y \in S, NoRepeat(s), y \notin ToSet(s)
  PROVE  NoRepeat(Append(s, y)) /\ ToSet(Append(s, y)) = ToSet(s) \cup {y}
<1> DEFINE t == Append(s, y)
<1>1. /\ DOMAIN s = 1..Len(s) /\ Len(s) \in Nat /\ DOMAIN t = 1..(Len(s) + 1)
      /\ \A i \in 1..Len(s) : t[i] = s[i]
      /\ t[Len(s) + 1] = y
  BY AppendProperties, LenProperties
<1>2. \A i \in DOMAIN s : s[i] # y
  BY DEF ToSet
<1> HIDE DEF t
<1>3. NoRepeat(t)
  BY <1>1, <1>2 DEF NoRepeat
<1>4. ToSet(t) = ToSet(s) \cup {y}
  <2>1. \A x \in ToSet(t) : x \in ToSet(s) \cup {y}
    BY <1>1 DEF ToSet
  <2>2. ToSet(s) \subseteq ToSet(t)
    BY <1>1 DEF ToSet
  <2>3. y \in ToSet(t)
    BY <1>1 DEF ToSet
  <2> QED BY <2>1, <2>2, <2>3
<1> QED BY <1>3, <1>4 DEF t

-----------------------------------------------------------------------------
(* Each client's work for a round exists once, as long as each client joins *)
(* once.                                                                   *)

Ask(c, r) == [to |-> c, msg |-> StartRound(r)]
Answer(c, r) == [to |-> "aggregator", msg |-> LocalUpdate(c, r)]

\* where client c's work for round r can be
Asked(c, r) == Copies(wire, Ask(c, r))
Waiting(c, r) == Occ(clientBox[c], StartRound(r))
Answered(c, r) == Copies(wire, Answer(c, r))
Queued(c, r) == Occ(aggBox, LocalUpdate(c, r))
Held(c, r) == Occ(agg.updates, Update(c, r))

\* all of a client's work in a round
Work(c, r) == Asked(c, r) + Waiting(c, r) + Answered(c, r) + Queued(c, r) + Held(c, r)
\* a client's work of a round exists once: as the request to train, on the wire
\* or in its mailbox, or as the answer, on the wire, in the aggregator's mailbox
\* or in its list
WorkOnce == \A c \in Clients, r \in Rounds : Work(c, r) <= 1

WorkCounts ==
  \A c \in Clients, r \in Rounds :
    /\ Asked(c, r) \in Nat /\ Waiting(c, r) \in Nat /\ Answered(c, r) \in Nat
    /\ Queued(c, r) \in Nat /\ Held(c, r) \in Nat

\* The five counts of a client's work in a round are numbers, ...
LEMMA WorkIsCounted == DataInv => WorkCounts
<1> SUFFICES ASSUME DataInv, NEW c \in Clients, NEW r \in Rounds
             PROVE  /\ Asked(c, r) \in Nat /\ Waiting(c, r) \in Nat /\ Answered(c, r) \in Nat
                    /\ Queued(c, r) \in Nat /\ Held(c, r) \in Nat
  BY DEF WorkCounts
<1> DEFINE n == coord.round
<1>1. /\ IsABag(wire) /\ clientBox[c] \in Seq(ClientMsgs(n)) /\ aggBox \in Seq(AggMsgs(n))
      /\ agg.updates \in Seq(UpdatesUpTo(n))
  BY DEF DataInv, DataOK, BoxesOK, WireOK, ClientBoxOK, AggBoxOK, AggOK
<1>2. Asked(c, r) \in Nat /\ Answered(c, r) \in Nat
  BY <1>1, CopiesFacts DEF Asked, Answered
<1>3. Waiting(c, r) \in Nat
  BY <1>1, OccFacts DEF Waiting
<1>4. Queued(c, r) \in Nat
  BY <1>1, OccFacts DEF Queued
<1>5. Held(c, r) \in Nat
  BY <1>1, OccFacts DEF Held
<1> QED BY <1>2, <1>3, <1>4, <1>5

\* ... in the next state too.
LEMMA WorkIsCountedNext == DataInv' => WorkCounts'
BY WorkIsCounted, PTL

\* There is no work for a round that has not begun.
LEMMA NoWorkYet ==
  ASSUME DataInv, NEW c \in Clients, NEW r \in Rounds, r > coord.round
  PROVE  Work(c, r) = 0 /\ Asked(c, r) = 0 /\ Answered(c, r) = 0
<1> DEFINE n == coord.round
<1>1. /\ IsABag(wire) /\ DOMAIN wire \subseteq CallsUpTo(n)
      /\ clientBox[c] \in Seq(ClientMsgs(n)) /\ aggBox \in Seq(AggMsgs(n))
      /\ agg.updates \in Seq(UpdatesUpTo(n))
  BY DEF DataInv, DataOK, BoxesOK, WireOK, ClientBoxOK, AggBoxOK, AggOK
<1>2. r \notin 1..n /\ n \in Nat
  BY ActorsAssumption DEF DataInv, CoordOK, CoordRecord
<1> HIDE DEF n
<1>3. StartRound(r) \notin ClientMsgs(n)
  BY <1>2 DEF StartRound, ClientMsgs
<1>4. Ask(c, r) \notin CallsUpTo(n)
  BY <1>3, RemoteAssumption DEF Ask, CallsUpTo, JoinCalls, UpdateCalls, ClientCalls
<1>5. Answer(c, r) \notin CallsUpTo(n)
  BY <1>2, RemoteAssumption DEF Answer, LocalUpdate, CallsUpTo, JoinCalls, UpdateCalls, ClientCalls
<1>6. Asked(c, r) = 0 /\ Answered(c, r) = 0
  BY <1>1, <1>4, <1>5 DEF Asked, Answered, Copies
<1>7. Waiting(c, r) = 0
  <2>1. \A i \in DOMAIN clientBox[c] : clientBox[c][i] # StartRound(r)
    BY <1>1, <1>3, ElementOfSeq, LenProperties
  <2> QED BY <1>1, <2>1, OccFacts DEF Waiting
<1>8. Queued(c, r) = 0
  <2>1. LocalUpdate(c, r) \notin AggMsgs(n)
    BY <1>2 DEF LocalUpdate, AggMsgs
  <2>2. \A i \in DOMAIN aggBox : aggBox[i] # LocalUpdate(c, r)
    BY <1>1, <2>1, ElementOfSeq, LenProperties
  <2> QED BY <1>1, <2>2, OccFacts DEF Queued
<1>9. Held(c, r) = 0
  <2>1. Update(c, r) \notin UpdatesUpTo(n)
    BY <1>2 DEF Update, UpdatesUpTo
  <2>2. \A i \in DOMAIN agg.updates : agg.updates[i] # Update(c, r)
    BY <1>1, <2>1, ElementOfSeq, LenProperties
  <2> QED BY <1>1, <2>2, OccFacts DEF Held
<1> QED BY <1>6, <1>7, <1>8, <1>9 DEF Work

\* Steps that touch the wire only, and add no work to it.
LEMMA WorkStays ==
  ASSUME WorkCounts, WorkCounts', WorkOnce,
         \A c \in Clients, r \in Rounds :
           /\ Copies(wire', Ask(c, r)) <= Copies(wire, Ask(c, r))
           /\ Copies(wire', Answer(c, r)) <= Copies(wire, Answer(c, r)),
         UNCHANGED <<clientBox, aggBox, agg>>
  PROVE  WorkOnce'
<1> SUFFICES ASSUME NEW c \in Clients, NEW r \in Rounds PROVE Work(c, r)' <= 1
  BY DEF WorkOnce
<1>1. /\ Waiting(c, r)' = Waiting(c, r) /\ Queued(c, r)' = Queued(c, r) /\ Held(c, r)' = Held(c, r)
      /\ Asked(c, r)' <= Asked(c, r) /\ Answered(c, r)' <= Answered(c, r)
  BY DEF Waiting, Queued, Held, Asked, Answered, Ask, Answer, StartRound, LocalUpdate, Update
<1>2. Work(c, r) <= 1
  BY DEF WorkOnce
<1> QED BY <1>1, <1>2 DEF Work, WorkCounts

\* A round begins: one more message for each client, of a round that is new.
LEMMA BeginRoundWork ==
  ASSUME DataInv, DataInv', WorkOnce, NEW c \in CoordRecord, c.round = coord.round,
         NoRepeat(c.clients), BeginRound(c), UNCHANGED <<aggBox, agg>>
  PROVE  WorkOnce'
<1> DEFINE k == c.round + 1
<1>1. /\ IsABag(wire) /\ c.clients \in Seq(Clients) /\ c.round \in 0..TotalRounds
      /\ WorkCounts /\ WorkCounts'
  BY WorkIsCounted, WorkIsCountedNext DEF DataInv, DataOK, WireOK, CoordRecord
<1>2. CASE ~RoundsLeft(c)
  <2>1. UNCHANGED <<clientBox, wire>>
    BY <1>2 DEF BeginRound
  <2>2. \A d \in Clients, r \in Rounds : Asked(d, r) \in Nat /\ Answered(d, r) \in Nat
    BY <1>1 DEF WorkCounts
  <2> QED BY <1>1, <2>1, <2>2, WorkStays DEF Asked, Answered
<1>3. CASE RoundsLeft(c)
  <2>1. SendToClients(c.clients, StartRound(k))
    BY <1>3 DEF BeginRound
  <2>2. UNCHANGED clientBox
    BY <2>1, RemoteAssumption DEF SendToClients
  <2>3. SUFFICES ASSUME NEW d \in Clients, NEW r \in Rounds PROVE Work(d, r)' <= 1
    BY DEF WorkOnce
  <2>4. Waiting(d, r)' = Waiting(d, r) /\ Queued(d, r)' = Queued(d, r) /\ Held(d, r)' = Held(d, r)
    BY <2>2 DEF Waiting, Queued, Held, StartRound, LocalUpdate, Update
  <2>5. Answered(d, r)' = Answered(d, r)
    <3>1. ~\E b \in Clients : Answer(d, r) = [to |-> b, msg |-> StartRound(k)]
      BY RemoteAssumption DEF Answer
    <3> QED BY <1>1, <2>1, <3>1, CopiesSent DEF Answered, Answer, LocalUpdate
  <2>6. CASE r # k
    <3>1. ~\E b \in Clients : Ask(d, r) = [to |-> b, msg |-> StartRound(k)]
      BY <2>6 DEF Ask, StartRound
    <3>2. Asked(d, r)' = Asked(d, r)
      BY <1>1, <2>1, <3>1, CopiesSent DEF Asked, Ask, StartRound
    <3> QED BY <2>4, <2>5, <3>2 DEF Work, WorkOnce
  <2>7. CASE r = k
    <3>1. r > coord.round
      BY <1>1, <2>7
    <3>2. Work(d, r) = 0 /\ Asked(d, r) = 0 /\ Answered(d, r) = 0
      BY <3>1, NoWorkYet
    <3>3. Asked(d, r)' <= Asked(d, r) + 1
      BY <1>1, <2>1, CopiesSent DEF Asked, Ask, StartRound
    <3>4. /\ Asked(d, r)' \in Nat /\ Waiting(d, r) \in Nat /\ Answered(d, r) \in Nat
          /\ Queued(d, r) \in Nat /\ Held(d, r) \in Nat
      BY <1>1 DEF WorkCounts
    <3> QED BY <2>4, <2>5, <3>2, <3>3, <3>4 DEF Work
  <2> QED BY <2>6, <2>7
<1> QED BY <1>2, <1>3

-----------------------------------------------------------------------------

\* client c's joins on their way
Joins(c) == Copies(wire, JoinCall(c, tries[c])) + Occ(coordBox, ClientJoin(c))

\* a client's join is on its way or done, and only once; one that has yet to
\* join has none
JoinedOnce(c) ==
  /\ Joins(c) <= 1
  /\ c \in ToSet(coord.clients) => (Joins(c) = 0)
  /\ \A k \in 1..MaxTries : k # tries[c] => (Copies(wire, JoinCall(c, k)) = 0)
  /\ (up[c] /\ joining[c] = "idle") => (Joins(c) = 0 /\ c \notin ToSet(coord.clients))
JoinOnce == NoRepeat(coord.clients) /\ \A c \in Clients : JoinedOnce(c)

\* A client whose join the coordinator takes is not in its list.
LEMMA HeadIsNew ==
  ASSUME DataInv, JoinOnce, NEW c \in Clients, coordBox # <<>>, Head(coordBox) = ClientJoin(c)
  PROVE  c \notin ToSet(coord.clients) /\ Occ(coordBox, ClientJoin(c)) = 1
<1>1. IsABag(wire) /\ coordBox \in Seq(CoordMsgs(coord.round)) /\ JoinedOnce(c)
  BY DEF DataInv, DataOK, BoxesOK, WireOK, CoordBoxOK, JoinOnce
<1>2. Copies(wire, JoinCall(c, tries[c])) \in Nat /\ Occ(coordBox, ClientJoin(c)) \in Nat
  BY <1>1, CopiesFacts, OccFacts
<1>3. Occ(coordBox, ClientJoin(c)) # 0
  <2>1. 1 \in DOMAIN coordBox /\ coordBox[1] = ClientJoin(c)
    BY <1>1, HeadTailProperties, LenProperties, EmptySeq
  <2> QED BY <1>1, <2>1, OccFacts
<1> QED BY <1>1, <1>2, <1>3 DEF JoinedOnce, Joins

\* The steps of the coordinator.
LEMMA CoordinatorWork ==
  ASSUME DataInv, DataInv', WorkOnce, JoinOnce, Coordinator
  PROVE  WorkOnce'
<1> DEFINE n == coord.round
           m == Head(coordBox)
<1>1. /\ IsABag(wire) /\ coord \in CoordRecord /\ coord.clients \in Seq(Clients)
      /\ coordBox \in Seq(CoordMsgs(n)) /\ aggBox \in Seq(AggMsgs(n))
      /\ WorkCounts /\ WorkCounts' /\ NoRepeat(coord.clients)
  BY WorkIsCounted, WorkIsCountedNext
  DEF DataInv, DataOK, BoxesOK, WireOK, CoordOK, CoordRecord, CoordBoxOK, AggBoxOK, JoinOnce
<1>2. coordBox # <<>> => m \in CoordMsgs(n)
  BY <1>1, TakeFromSeq
<1>3. ASSUME UNCHANGED <<wire, clientBox, aggBox, agg>> PROVE WorkOnce'
  <2>1. \A c \in Clients, r \in Rounds : Asked(c, r) \in Nat /\ Answered(c, r) \in Nat
    BY <1>1 DEF WorkCounts
  <2> QED BY <1>1, <1>3, <2>1, WorkStays DEF Asked, Answered
<1>4. CASE CoordStartFL
  BY <1>2, <1>4 DEF CoordStartFL, CoordTakes, CoordMsgs
<1>5. CASE CoordAggregationResult \/ CoordSetPeers
  BY <1>3, <1>5 DEF CoordAggregationResult, CoordSetPeers
<1>6. CASE CoordMetricsReport
  <2>1. CASE UNCHANGED <<clientBox, wire>>
    BY <1>3, <1>6, <2>1 DEF CoordMetricsReport
  <2>2. CASE BeginRound(coord)
    BY <1>1, <1>6, <2>2, BeginRoundWork DEF CoordMetricsReport
  <2> QED BY <1>6, <2>1, <2>2 DEF CoordMetricsReport
<1>7. CASE CoordClientJoin
  <2> DEFINE c == m.client
             joined == [coord EXCEPT !.clients = Append(@, c), !.seeded = @ \cup {c}]
  <2>1. /\ coordBox # <<>> /\ m.type = "ClientJoin" /\ UNCHANGED <<aggBox, agg>>
        /\ BeginRound(joined) \/ UNCHANGED <<clientBox, wire>>
    BY <1>7 DEF CoordClientJoin, CoordTakes
  <2>2. c \in Clients /\ m = ClientJoin(c)
    BY <1>2, <2>1 DEF CoordMsgs, ClientJoin
  <2>3. c \notin ToSet(coord.clients)
    BY <1>1, <2>1, <2>2, HeadIsNew
  <2> HIDE DEF c
  <2>4. /\ joined \in CoordRecord /\ joined.round = n
        /\ joined.clients = Append(coord.clients, c)
    <3>1. Append(coord.clients, c) \in Seq(Clients)
      BY <1>1, <2>2, AppendProperties
    <3> QED BY <1>1, <2>2, <3>1 DEF CoordRecord
  <2>5. NoRepeat(joined.clients)
    BY <1>1, <2>2, <2>3, <2>4, AppendNew
  <2> HIDE DEF joined
  <2>6. CASE BeginRound(joined)
    BY <1>1, <2>1, <2>4, <2>5, <2>6, BeginRoundWork
  <2>7. CASE UNCHANGED <<clientBox, wire>>
    BY <1>3, <2>1, <2>7
  <2> QED BY <2>1, <2>6, <2>7
<1>8. CASE CoordClientDown
  <2>1. /\ coordBox # <<>> /\ m.type = "ClientDown"
        /\ aggBox' = IF coord.peers THEN Post(aggBox, RemoveClient(m.client)) ELSE aggBox
        /\ UNCHANGED <<agg, clientBox, wire>>
    BY <1>8 DEF CoordClientDown, CoordTakes
  <2>2. RemoveClient(m.client) \in AggMsgs(n)
    BY <1>2, <2>1 DEF CoordMsgs, AggMsgs, RemoveClient
  <2> SUFFICES ASSUME NEW c \in Clients, NEW r \in Rounds PROVE Work(c, r)' <= 1
    BY DEF WorkOnce
  <2>3. Queued(c, r)' = Queued(c, r)
    <3>1. LocalUpdate(c, r) # RemoveClient(m.client)
      BY DEF LocalUpdate, RemoveClient
    <3>2. Occ(Post(aggBox, RemoveClient(m.client)), LocalUpdate(c, r)) = Occ(aggBox, LocalUpdate(c, r))
      BY <1>1, <2>2, <3>1, OccPost
    <3> QED BY <2>1, <3>2 DEF Queued, LocalUpdate
  <2>4. /\ Waiting(c, r)' = Waiting(c, r) /\ Held(c, r)' = Held(c, r)
        /\ Asked(c, r)' = Asked(c, r) /\ Answered(c, r)' = Answered(c, r)
    BY <2>1 DEF Waiting, Held, Asked, Answered, Ask, Answer, StartRound, LocalUpdate, Update
  <2> QED BY <2>3, <2>4 DEF Work, WorkOnce
<1> QED BY <1>4, <1>5, <1>6, <1>7, <1>8 DEF Coordinator

\* What the aggregator adds to its list it has taken from its mailbox.
LEMMA AggregatorList ==
  ASSUME DataInv, WorkCounts, Aggregator
  PROVE  \E a : /\ Settle(a) /\ a.updates \in Seq(UpdatesUpTo(coord.round))
                /\ \A c \in Clients, r \in Rounds :
                     /\ Occ(aggBox', LocalUpdate(c, r)) + Occ(a.updates, Update(c, r))
                          <= Queued(c, r) + Held(c, r)
                     /\ Occ(aggBox', LocalUpdate(c, r)) \in Nat
<1> DEFINE n == coord.round
           m == Head(aggBox)
<1>1. /\ aggBox \in Seq(AggMsgs(n)) /\ agg.updates \in Seq(UpdatesUpTo(n))
      /\ \E X, Y : agg \in [expected : X, round : Y, updates : Seq(UpdatesUpTo(n))]
  BY DEF DataInv, DataOK, BoxesOK, AggBoxOK, AggOK
<1>2. aggBox # <<>> /\ aggBox' = Tail(aggBox)
  BY DEF Aggregator, AggLocalUpdate, AggRemoveClient, AggTakes
<1>3. m \in AggMsgs(n) /\ aggBox' \in Seq(AggMsgs(n))
  BY <1>1, <1>2, TakeFromSeq
<1>4. ASSUME NEW c \in Clients, NEW r \in Rounds
      PROVE  /\ Queued(c, r) = Occ(aggBox', LocalUpdate(c, r)) + (IF LocalUpdate(c, r) = m THEN 1 ELSE 0)
             /\ Occ(aggBox', LocalUpdate(c, r)) \in Nat /\ Held(c, r) \in Nat
  BY <1>1, <1>2, <1>3, OccTail, OccFacts DEF Queued, Held
<1>5. CASE AggLocalUpdate
  <2> DEFINE s == m.round
             u == Update(m.client, m.round)
             longer == Append(Kept(s), u)
             a == [agg EXCEPT !.round = s, !.updates = longer]
  <2>1. m.type = "LocalUpdate" /\ Settle(a)
    BY <1>5 DEF AggLocalUpdate, AggTakes
  <2>2. u \in UpdatesUpTo(n) /\ m = LocalUpdate(m.client, m.round)
    BY <1>3, <2>1 DEF AggMsgs, UpdatesUpTo, Update, LocalUpdate
  <2>3. Kept(s) \in Seq(UpdatesUpTo(n)) /\ (Kept(s) = agg.updates \/ Kept(s) = <<>>)
    BY <1>1, EmptySeq DEF Kept
  <2>4. ASSUME NEW c \in Clients, NEW r \in Rounds
        PROVE  Occ(aggBox', LocalUpdate(c, r)) + Occ(longer, Update(c, r)) <= Queued(c, r) + Held(c, r)
    <3>1. Occ(longer, Update(c, r)) = Occ(Kept(s), Update(c, r)) + (IF Update(c, r) = u THEN 1 ELSE 0)
      <4> HIDE DEF u
      <4> QED BY <2>2, <2>3, OccAppend
    <3>2. Occ(Kept(s), Update(c, r)) \in Nat /\ Occ(Kept(s), Update(c, r)) <= Held(c, r)
      BY <1>4, <2>3, OccEmpty DEF Held
    <3>3. Update(c, r) = u <=> LocalUpdate(c, r) = m
      BY <2>2 DEF Update, LocalUpdate
    <3> HIDE DEF longer, u
    <3> QED BY <1>4, <3>1, <3>2, <3>3
  <2>5. longer \in Seq(UpdatesUpTo(n))
    BY <2>2, <2>3, AppendProperties
  <2> HIDE DEF longer
  <2>6. a.updates = longer
    BY <1>1
  <2> HIDE DEF a
  <2> QED BY <1>4, <2>1, <2>4, <2>5, <2>6
<1>6. CASE AggRemoveClient
  <2> DEFINE a == [agg EXCEPT !.expected = IF @ > 1 THEN @ - 1 ELSE @]
  <2>1. Settle(a) /\ a.updates = agg.updates
    BY <1>1, <1>6 DEF AggRemoveClient
  <2>2. ASSUME NEW c \in Clients, NEW r \in Rounds
        PROVE  Occ(aggBox', LocalUpdate(c, r)) + Occ(agg.updates, Update(c, r)) <= Queued(c, r) + Held(c, r)
    BY <1>4 DEF Held
  <2> HIDE DEF a
  <2> QED BY <1>1, <1>4, <2>1, <2>2
<1> QED BY <1>5, <1>6 DEF Aggregator

\* The steps of the other actors.
LEMMA OtherActorsWork ==
  ASSUME DataInv, DataInv', WorkOnce,
         Aggregator \/ Monitor \/ CMRegisterClient \/ \E c \in Clients : Client(c)
  PROVE  WorkOnce'
<1> DEFINE n == coord.round
<1>1. /\ IsABag(wire) /\ RegisteringOK /\ WorkCounts /\ WorkCounts'
      /\ clientBox \in [Clients -> Seq(ClientMsgs(n))]
      /\ \A c \in Clients, r \in Rounds : Asked(c, r) \in Nat /\ Answered(c, r) \in Nat
  BY WorkIsCounted, WorkIsCountedNext DEF DataInv, DataOK, BoxesOK, WireOK, ClientBoxOK, WorkCounts
<1>2. CASE Aggregator
  <2>1. UNCHANGED <<clientBox, wire>>
    BY <1>2 DEF Aggregator, AggLocalUpdate, AggRemoveClient
  <2>2. PICK a : /\ Settle(a) /\ a.updates \in Seq(UpdatesUpTo(n))
                 /\ \A c \in Clients, r \in Rounds :
                      /\ Occ(aggBox', LocalUpdate(c, r)) + Occ(a.updates, Update(c, r))
                           <= Queued(c, r) + Held(c, r)
                      /\ Occ(aggBox', LocalUpdate(c, r)) \in Nat
    BY <1>1, <1>2, AggregatorList
  <2> SUFFICES ASSUME NEW c \in Clients, NEW r \in Rounds PROVE Work(c, r)' <= 1
    BY DEF WorkOnce
  <2>3. /\ Waiting(c, r)' = Waiting(c, r)
        /\ Asked(c, r)' = Asked(c, r) /\ Answered(c, r)' = Answered(c, r)
        /\ Queued(c, r)' = Occ(aggBox', LocalUpdate(c, r))
    BY <2>1 DEF Waiting, Asked, Answered, Queued, Ask, Answer, StartRound, LocalUpdate
  <2>4. Held(c, r)' <= Occ(a.updates, Update(c, r))
    <3>1. Occ(a.updates, Update(c, r)) \in Nat
      BY <2>2, OccFacts
    <3>2. agg'.updates = a.updates \/ agg'.updates = <<>>
      <4>1. agg' = a \/ (agg' = [a EXCEPT !.updates = <<>>])
        BY <2>2 DEF Settle
      <4>2. \E X, Y, Z : agg' \in [expected : X, round : Y, updates : Z]
        BY DEF DataInv, DataOK, AggOK
      <4> QED BY <4>1, <4>2
    <3>3. Held(c, r)' = Occ(agg'.updates, Update(c, r))
      BY DEF Held, Update
    <3> QED BY <3>1, <3>2, <3>3, OccEmpty
  <2>5. Work(c, r) <= 1
    BY DEF WorkOnce
  <2>6. /\ Asked(c, r) \in Nat /\ Waiting(c, r) \in Nat /\ Answered(c, r) \in Nat
        /\ Queued(c, r) \in Nat /\ Held(c, r) \in Nat
        /\ Asked(c, r)' \in Nat /\ Waiting(c, r)' \in Nat /\ Answered(c, r)' \in Nat
        /\ Queued(c, r)' \in Nat /\ Held(c, r)' \in Nat
    BY <1>1 DEF WorkCounts
  <2>7. Queued(c, r)' + Held(c, r)' <= Queued(c, r) + Held(c, r)
    <3>1. Occ(a.updates, Update(c, r)) \in Nat /\ Occ(aggBox', LocalUpdate(c, r)) \in Nat
      BY <2>2, OccFacts
    <3>2. Occ(aggBox', LocalUpdate(c, r)) + Occ(a.updates, Update(c, r)) <= Queued(c, r) + Held(c, r)
      BY <2>2
    <3> QED BY <2>3, <2>4, <2>6, <3>1, <3>2
  <2> QED BY <2>3, <2>5, <2>6, <2>7 DEF Work
<1>3. CASE Monitor
  <2>1. UNCHANGED <<wire, clientBox, aggBox, agg>>
    BY <1>3 DEF Monitor, MonSetGlobalModel, MonRoundComplete
  <2> QED BY <1>1, <2>1, WorkStays DEF Asked, Answered
<1>4. CASE CMRegisterClient
  <2> DEFINE cs == Append(registered, Head(cmBox))
  <2>1. /\ cmBox # <<>> /\ UNCHANGED <<aggBox, agg>>
        /\ SendToClients(cs, ClusterAssign) \/ UNCHANGED <<clientBox, wire>>
    BY <1>4 DEF CMRegisterClient
  <2>2. cs \in Seq(Clients)
    BY <1>1, <2>1, TakeFromSeq, AppendProperties DEF RegisteringOK
  <2> HIDE DEF cs
  <2>3. CASE SendToClients(cs, ClusterAssign)
    <3>1. UNCHANGED clientBox
      BY <2>3, RemoteAssumption DEF SendToClients
    <3>2. ASSUME NEW c \in Clients, NEW r \in Rounds
          PROVE  /\ Copies(wire', Ask(c, r)) = Copies(wire, Ask(c, r))
                 /\ Copies(wire', Answer(c, r)) = Copies(wire, Answer(c, r))
      <4>1. /\ ~\E b \in Clients : Ask(c, r) = [to |-> b, msg |-> ClusterAssign]
            /\ ~\E b \in Clients : Answer(c, r) = [to |-> b, msg |-> ClusterAssign]
        BY DEF Ask, Answer, StartRound, LocalUpdate, ClusterAssign
      <4> QED BY <1>1, <2>2, <2>3, <4>1, CopiesSent
    <3>3. \A c \in Clients, r \in Rounds :
             /\ Copies(wire', Ask(c, r)) <= Copies(wire, Ask(c, r))
             /\ Copies(wire', Answer(c, r)) <= Copies(wire, Answer(c, r))
      BY <1>1, <3>2 DEF Asked, Answered
    <3> QED BY <1>1, <2>1, <3>1, <3>3, WorkStays
  <2>4. CASE UNCHANGED <<clientBox, wire>>
    BY <1>1, <2>1, <2>4, WorkStays DEF Asked, Answered
  <2> QED BY <2>1, <2>3, <2>4
<1>5. ASSUME NEW d \in Clients, Client(d) PROVE WorkOnce'
  <2> DEFINE m == Head(clientBox[d])
             e == Answer(d, m.round)
  <2>1. /\ clientBox[d] # <<>> /\ clientBox' = [clientBox EXCEPT ![d] = Tail(@)]
        /\ (m.type = "StartRound" /\ wire' = wire (+) SetToBag({e})) \/ UNCHANGED wire
        /\ UNCHANGED <<agg, aggBox>>
    BY <1>5, RemoteAssumption DEF Client, ClientStartRound, ClientClusterAssign, ClientTakes,
         actorVars, Answer
  <2>2. clientBox[d] \in Seq(ClientMsgs(n))
    BY <1>1
  <2>3. m \in ClientMsgs(n) /\ Tail(clientBox[d]) \in Seq(ClientMsgs(n))
    BY <2>1, <2>2, TakeFromSeq
  <2> SUFFICES ASSUME NEW c \in Clients, NEW r \in Rounds PROVE Work(c, r)' <= 1
    BY DEF WorkOnce
  <2>4. Queued(c, r)' = Queued(c, r) /\ Held(c, r)' = Held(c, r) /\ Asked(c, r)' = Copies(wire', Ask(c, r))
        /\ Answered(c, r)' = Copies(wire', Answer(c, r))
        /\ Waiting(c, r)' = Occ(clientBox'[c], StartRound(r))
    BY <2>1 DEF Queued, Held, Asked, Answered, Waiting, Ask, Answer, StartRound, LocalUpdate, Update
  <2>5. Waiting(c, r) = Waiting(c, r)' + (IF c = d /\ m = StartRound(r) THEN 1 ELSE 0)
    <3>1. CASE c = d
      <4>1. clientBox'[c] = Tail(clientBox[d])
        BY <1>1, <2>1, <3>1
      <4>2. Occ(clientBox[d], StartRound(r)) = Occ(Tail(clientBox[d]), StartRound(r))
              + (IF StartRound(r) = m THEN 1 ELSE 0)
        BY <2>1, <2>2, OccTail
      <4> QED BY <2>4, <3>1, <4>1, <4>2 DEF Waiting
    <3>2. CASE c # d
      <4>1. clientBox'[c] = clientBox[c]
        BY <1>1, <2>1, <3>2
      <4> QED BY <1>1, <2>4, <3>2, <4>1 DEF Waiting, WorkCounts
    <3> QED BY <3>1, <3>2
  <2>6. Work(c, r) <= 1
    BY DEF WorkOnce
  <2>9. /\ Asked(c, r) \in Nat /\ Waiting(c, r) \in Nat /\ Answered(c, r) \in Nat
        /\ Queued(c, r) \in Nat /\ Held(c, r) \in Nat
        /\ Asked(c, r)' \in Nat /\ Waiting(c, r)' \in Nat /\ Answered(c, r)' \in Nat
        /\ Queued(c, r)' \in Nat /\ Held(c, r)' \in Nat
    BY <1>1 DEF WorkCounts
  <2>7. CASE m.type = "StartRound" /\ wire' = wire (+) SetToBag({e})
    <3>1. Copies(wire', Ask(c, r)) = Copies(wire, Ask(c, r))
      <4>1. Ask(c, r) # e
        BY RemoteAssumption DEF Ask, Answer
      <4>2. Copies(wire', Ask(c, r)) = Copies(wire, Ask(c, r)) + (IF Ask(c, r) = e THEN 1 ELSE 0)
        BY <1>1, <2>7, CopiesAdd
      <4>3. Copies(wire, Ask(c, r)) \in Nat
        BY <2>9 DEF Asked
      <4> QED BY <4>1, <4>2, <4>3
    <3>2. Copies(wire', Answer(c, r)) = Copies(wire, Answer(c, r)) + (IF Answer(c, r) = e THEN 1 ELSE 0)
      BY <1>1, <2>7, CopiesAdd
    <3>3. Answer(c, r) = e <=> c = d /\ m = StartRound(r)
      BY <2>3, <2>7 DEF Answer, LocalUpdate, StartRound, ClientMsgs
    <3>4. Asked(c, r)' = Asked(c, r)
          /\ Answered(c, r)' = Answered(c, r) + (IF c = d /\ m = StartRound(r) THEN 1 ELSE 0)
      BY <2>4, <3>1, <3>2, <3>3 DEF Asked, Answered
    <3> QED BY <2>4, <2>5, <2>6, <2>9, <3>4 DEF Work
  <2>8. CASE UNCHANGED wire
    <3>1. Asked(c, r)' = Asked(c, r) /\ Answered(c, r)' = Answered(c, r)
      BY <2>4, <2>8 DEF Asked, Answered
    <3> QED BY <2>4, <2>5, <2>6, <2>9, <3>1 DEF Work
  <2> QED BY <2>1, <2>7, <2>8
<1> QED BY <1>2, <1>3, <1>4, <1>5

\* A call that is taken off the wire, or cut off with its process.
LEMMA WireShrinks ==
  ASSUME IsABag(wire),
         \/ \E e \in DOMAIN wire : wire' = wire (-) SetToBag({e})
         \/ \E cut : wire' = [e \in DOMAIN wire \ cut |-> wire[e]]
         \/ UNCHANGED wire,
         NEW x
  PROVE  Copies(wire', x) <= Copies(wire, x)
<1>1. Copies(wire, x) \in Nat
  BY CopiesFacts
<1>2. CASE \E e \in DOMAIN wire : wire' = wire (-) SetToBag({e})
  <2>1. PICK e \in DOMAIN wire : wire' = wire (-) SetToBag({e})
    BY <1>2
  <2>2. Copies(wire', x) = Copies(wire, x) - (IF x = e THEN 1 ELSE 0)
    BY <2>1, CopiesTake
  <2> QED BY <1>1, <2>2
<1>3. CASE \E cut : wire' = [e \in DOMAIN wire \ cut |-> wire[e]]
  BY <1>3, CopiesCut
<1>4. CASE UNCHANGED wire
  BY <1>1, <1>4 DEF Copies
<1> QED BY <1>2, <1>3, <1>4

\* The delivery of a call, and its loss.
LEMMA DeliverWork ==
  ASSUME DataInv, DataInv', WorkOnce, Deliver \/ Lose
  PROVE  WorkOnce'
<1> DEFINE n == coord.round
<1>1. /\ IsABag(wire) /\ DOMAIN wire \subseteq CallsUpTo(n) /\ WorkCounts /\ WorkCounts'
      /\ clientBox \in [Clients -> Seq(ClientMsgs(n))] /\ aggBox \in Seq(AggMsgs(n))
  BY WorkIsCounted, WorkIsCountedNext DEF DataInv, DataOK, BoxesOK, WireOK, ClientBoxOK, AggBoxOK
<1>2. CASE Lose \/ \E c \in Clients, k \in 1..MaxTries : DeliverJoin(c, k)
  <2>1. /\ \E e \in DOMAIN wire : wire' = wire (-) SetToBag({e})
        /\ UNCHANGED <<clientBox, aggBox, agg>>
    BY <1>2 DEF Lose, DeliverJoin, BagIn, BagToSet, actorVars
  <2>2. \A c \in Clients, r \in Rounds :
           /\ Copies(wire', Ask(c, r)) <= Copies(wire, Ask(c, r))
           /\ Copies(wire', Answer(c, r)) <= Copies(wire, Answer(c, r))
    BY <1>1, <2>1, WireShrinks
  <2> QED BY <1>1, <2>1, <2>2, WorkStays
<1>3. ASSUME NEW e \in BagToSet(wire), DeliverUpdate(e) \/ DeliverToClient(e) PROVE WorkOnce'
  <2>1. e \in DOMAIN wire /\ e \in CallsUpTo(n) /\ wire' = wire (-) SetToBag({e}) /\ UNCHANGED agg
    BY <1>1, <1>3 DEF BagToSet, DeliverUpdate, DeliverToClient, actorVars
  <2> SUFFICES ASSUME NEW c \in Clients, NEW r \in Rounds PROVE Work(c, r)' <= 1
    BY DEF WorkOnce
  <2>2. /\ Asked(c, r)' = Asked(c, r) - (IF Ask(c, r) = e THEN 1 ELSE 0)
        /\ Answered(c, r)' = Answered(c, r) - (IF Answer(c, r) = e THEN 1 ELSE 0)
    <3>1. /\ Copies(wire', Ask(c, r)) = Copies(wire, Ask(c, r)) - (IF Ask(c, r) = e THEN 1 ELSE 0)
          /\ Copies(wire', Answer(c, r)) = Copies(wire, Answer(c, r)) - (IF Answer(c, r) = e THEN 1 ELSE 0)
      BY <1>1, <2>1, CopiesTake
    <3>2. Asked(c, r)' = Copies(wire', Ask(c, r)) /\ Answered(c, r)' = Copies(wire', Answer(c, r))
      BY DEF Asked, Answered, Ask, Answer, StartRound, LocalUpdate
    <3> QED BY <3>1, <3>2 DEF Asked, Answered
  <2>3. /\ Held(c, r)' = Held(c, r)
        /\ Queued(c, r)' = Occ(aggBox', LocalUpdate(c, r))
        /\ Waiting(c, r)' = Occ(clientBox'[c], StartRound(r))
    BY <2>1 DEF Held, Queued, Waiting, Update, LocalUpdate, StartRound
  <2>4. /\ Asked(c, r) \in Nat /\ Waiting(c, r) \in Nat /\ Answered(c, r) \in Nat
        /\ Queued(c, r) \in Nat /\ Held(c, r) \in Nat
        /\ Asked(c, r)' \in Nat /\ Waiting(c, r)' \in Nat /\ Answered(c, r)' \in Nat
        /\ Queued(c, r)' \in Nat /\ Held(c, r)' \in Nat
    BY <1>1 DEF WorkCounts
  <2>5. Work(c, r) <= 1
    BY DEF WorkOnce
  <2>6. CASE DeliverUpdate(e)
    <3>1. e.to = "aggregator" /\ aggBox' = Post(aggBox, e.msg) /\ UNCHANGED clientBox
      BY <2>6 DEF DeliverUpdate
    <3>2. e \in UpdateCalls(n)
      BY <2>1, <3>1, RemoteAssumption DEF CallsUpTo, JoinCalls, ClientCalls
    <3>3. e.msg \in AggMsgs(n) /\ (LocalUpdate(c, r) = e.msg => Answer(c, r) = e)
      BY <3>2 DEF UpdateCalls, AggMsgs, Answer
    <3>4. Occ(aggBox', LocalUpdate(c, r)) <= Queued(c, r) + (IF LocalUpdate(c, r) = e.msg THEN 1 ELSE 0)
      BY <1>1, <3>1, <3>3, OccPost DEF Queued
    <3>5. Waiting(c, r)' = Waiting(c, r)
      BY <2>3, <3>1 DEF Waiting
    <3> QED BY <2>2, <2>3, <2>4, <2>5, <3>3, <3>4, <3>5 DEF Work
  <2>7. CASE DeliverToClient(e)
    <3>1. /\ e.to \in Clients /\ UNCHANGED aggBox
          /\ clientBox' = IF up[e.to] THEN [clientBox EXCEPT ![e.to] = Post(@, e.msg)]
                                      ELSE clientBox
      BY <2>7 DEF DeliverToClient
    <3>2. e \in ClientCalls(n)
      BY <2>1, <3>1, RemoteAssumption DEF CallsUpTo, JoinCalls, UpdateCalls
    <3>3. /\ e.msg \in ClientMsgs(n)
          /\ (c = e.to /\ StartRound(r) = e.msg) => (Ask(c, r) = e)
      BY <3>2 DEF ClientCalls, Ask
    <3>4. Waiting(c, r)' <= Waiting(c, r) + (IF c = e.to /\ StartRound(r) = e.msg THEN 1 ELSE 0)
      <4>1. CASE c = e.to /\ clientBox'[c] = Post(clientBox[c], e.msg)
        <5>1. clientBox[c] \in Seq(ClientMsgs(n))
          BY <1>1
        <5>2. Occ(Post(clientBox[c], e.msg), StartRound(r))
                <= Occ(clientBox[c], StartRound(r)) + (IF StartRound(r) = e.msg THEN 1 ELSE 0)
          BY <3>3, <5>1, OccPost
        <5> QED BY <2>3, <4>1, <5>2 DEF Waiting
      <4>2. CASE clientBox'[c] = clientBox[c]
        BY <2>3, <2>4, <4>2 DEF Waiting
      <4>3. (c = e.to /\ clientBox'[c] = Post(clientBox[c], e.msg)) \/ clientBox'[c] = clientBox[c]
        BY <1>1, <3>1
      <4> QED BY <4>1, <4>2, <4>3
    <3>5. Queued(c, r)' = Queued(c, r)
      BY <2>3, <3>1 DEF Queued
    <3> QED BY <2>2, <2>3, <2>4, <2>5, <3>3, <3>4, <3>5 DEF Work
  <2> QED BY <1>3, <2>6, <2>7
<1> QED BY <1>2, <1>3 DEF Deliver

\* What the processes and the membership do.
LEMMA EnvironmentWork ==
  ASSUME DataInv, DataInv', WorkOnce,
         \/ MainSetPeers
         \/ \E c \in Clients : SendJoin(c) \/ JoinTimeout(c) \/ GiveUp(c)
                                 \/ ClientCrash(c) \/ ClientRestart(c) \/ Hear(c) \/ ReportCrashed(c)
         \/ \E m \in Clients \cup {CoordinatorId} : ReportWrongly(m)
  PROVE  WorkOnce'
<1> DEFINE n == coord.round
<1>1. /\ IsABag(wire) /\ WorkCounts /\ WorkCounts'
      /\ clientBox \in [Clients -> Seq(ClientMsgs(n))]
      /\ \A c \in Clients, r \in Rounds : Asked(c, r) \in Nat /\ Answered(c, r) \in Nat
  BY WorkIsCounted, WorkIsCountedNext DEF DataInv, DataOK, BoxesOK, WireOK, ClientBoxOK, WorkCounts
<1>2. ASSUME UNCHANGED <<wire, clientBox, aggBox, agg>> PROVE WorkOnce'
  BY <1>1, <1>2, WorkStays DEF Asked, Answered
<1>3. CASE MainSetPeers \/ \E m \in Clients \cup {CoordinatorId} : ReportWrongly(m)
  BY <1>2, <1>3 DEF MainSetPeers, ReportWrongly, Watch, actorVars
<1>4. ASSUME NEW c \in Clients, JoinTimeout(c) \/ ClientRestart(c) \/ Hear(c) \/ ReportCrashed(c)
      PROVE  WorkOnce'
  BY <1>2, <1>4 DEF JoinTimeout, ClientRestart, Hear, ReportCrashed, Watch, flVars, actorVars, boxVars
<1>5. ASSUME NEW c \in Clients, SendJoin(c) PROVE WorkOnce'
  <2> DEFINE e == JoinCall(c, tries[c] + 1)
  <2>1. wire' = wire (+) SetToBag({e}) /\ UNCHANGED <<clientBox, aggBox, agg>>
    BY <1>5 DEF SendJoin, actorVars
  <2>2. ASSUME NEW d \in Clients, NEW r \in Rounds
        PROVE  /\ Copies(wire', Ask(d, r)) <= Copies(wire, Ask(d, r))
               /\ Copies(wire', Answer(d, r)) <= Copies(wire, Answer(d, r))
    <3>1. Ask(d, r) # e /\ Answer(d, r) # e
      BY RemoteAssumption DEF Ask, Answer, JoinCall
    <3>2. /\ Copies(wire', Ask(d, r)) = Copies(wire, Ask(d, r)) + (IF Ask(d, r) = e THEN 1 ELSE 0)
          /\ Copies(wire', Answer(d, r)) = Copies(wire, Answer(d, r)) + (IF Answer(d, r) = e THEN 1 ELSE 0)
      BY <1>1, <2>1, CopiesAdd
    <3>3. Copies(wire, Ask(d, r)) \in Nat /\ Copies(wire, Answer(d, r)) \in Nat
      BY <1>1 DEF Asked, Answered
    <3> QED BY <3>1, <3>2, <3>3
  <2> QED BY <1>1, <2>1, <2>2, WorkStays
<1>6. ASSUME NEW c \in Clients, GiveUp(c) \/ ClientCrash(c) PROVE WorkOnce'
  <2>1. /\ clientBox' = [clientBox EXCEPT ![c] = <<>>] /\ UNCHANGED <<aggBox, agg>>
        /\ UNCHANGED wire \/ \E cut : wire' = [e \in DOMAIN wire \ cut |-> wire[e]]
    BY <1>6 DEF GiveUp, ClientCrash, actorVars
  <2> SUFFICES ASSUME NEW d \in Clients, NEW r \in Rounds PROVE Work(d, r)' <= 1
    BY DEF WorkOnce
  <2>2. Asked(d, r)' <= Asked(d, r) /\ Answered(d, r)' <= Answered(d, r)
    <3>1. /\ Copies(wire', Ask(d, r)) <= Copies(wire, Ask(d, r))
          /\ Copies(wire', Answer(d, r)) <= Copies(wire, Answer(d, r))
      BY <1>1, <2>1, WireShrinks
    <3> QED BY <3>1 DEF Asked, Answered, Ask, Answer, StartRound, LocalUpdate
  <2>3. Queued(d, r)' = Queued(d, r) /\ Held(d, r)' = Held(d, r)
    BY <2>1 DEF Queued, Held, LocalUpdate, Update
  <2>4. /\ Asked(d, r) \in Nat /\ Waiting(d, r) \in Nat /\ Answered(d, r) \in Nat
        /\ Queued(d, r) \in Nat /\ Held(d, r) \in Nat
        /\ Asked(d, r)' \in Nat /\ Waiting(d, r)' \in Nat /\ Answered(d, r)' \in Nat
    BY <1>1 DEF WorkCounts
  <2>5. Waiting(d, r)' <= Waiting(d, r)
    <3>1. clientBox'[d] = <<>> \/ clientBox'[d] = clientBox[d]
      BY <1>1, <2>1
    <3>2. Waiting(d, r)' = Occ(clientBox'[d], StartRound(r))
      BY DEF Waiting, StartRound
    <3> QED BY <2>4, <3>1, <3>2, OccEmpty DEF Waiting
  <2>6. Work(d, r) <= 1
    BY DEF WorkOnce
  <2> QED BY <2>2, <2>3, <2>4, <2>5, <2>6 DEF Work
<1> QED BY <1>3, <1>4, <1>5, <1>6

-----------------------------------------------------------------------------
(* Each client joins once, as long as no join is repeated.                 *)

JoinCounts ==
  \A c \in Clients : /\ Occ(coordBox, ClientJoin(c)) \in Nat
                     /\ \A k \in 0..MaxTries : Copies(wire, JoinCall(c, k)) \in Nat

\* The counts of a client's joins are numbers, ...
LEMMA JoinIsCounted == DataInv => JoinCounts
<1> SUFFICES ASSUME DataInv, NEW c \in Clients
             PROVE  /\ Occ(coordBox, ClientJoin(c)) \in Nat
                    /\ \A k \in 0..MaxTries : Copies(wire, JoinCall(c, k)) \in Nat
  BY DEF JoinCounts
<1>1. coordBox \in Seq(CoordMsgs(coord.round)) /\ IsABag(wire)
  BY DEF DataInv, DataOK, BoxesOK, CoordBoxOK, WireOK
<1>2. Occ(coordBox, ClientJoin(c)) \in Nat
  BY <1>1, OccFacts
<1> QED BY <1>1, <1>2, CopiesFacts

\* ... in the next state too.
LEMMA JoinIsCountedNext == DataInv' => JoinCounts'
BY JoinIsCounted, PTL

\* Steps that add no join and admit no client.
LEMMA JoinStays ==
  ASSUME DataInv, DataInv', JoinOnce, UNCHANGED tries,
         NoRepeat(coord'.clients), ToSet(coord'.clients) \subseteq ToSet(coord.clients),
         \A c \in Clients, k \in 0..MaxTries :
           Copies(wire', JoinCall(c, k)) <= Copies(wire, JoinCall(c, k)),
         \A c \in Clients : Occ(coordBox', ClientJoin(c)) <= Occ(coordBox, ClientJoin(c)),
         \A c \in Clients : (up'[c] /\ joining'[c] = "idle") => (up[c] /\ joining[c] = "idle")
  PROVE  JoinOnce'
<1>1. JoinCounts /\ JoinCounts' /\ tries \in [Clients -> 0..MaxTries] /\ MaxTries \in Nat
  BY JoinIsCounted, JoinIsCountedNext, RemoteAssumption DEF DataInv, EnvOK
<1> SUFFICES ASSUME NEW c \in Clients PROVE JoinedOnce(c)'
  BY DEF JoinOnce
<1>2. JoinedOnce(c)
  BY DEF JoinOnce
<1>3. ASSUME NEW k \in 0..MaxTries
      PROVE  /\ Copies(wire', JoinCall(c, k)) \in Nat
             /\ Copies(wire, JoinCall(c, k)) \in Nat
             /\ Copies(wire', JoinCall(c, k)) <= Copies(wire, JoinCall(c, k))
  BY <1>1 DEF JoinCounts, JoinCall, ClientJoin
<1>4. /\ Occ(coordBox', ClientJoin(c)) \in Nat /\ Occ(coordBox, ClientJoin(c)) \in Nat
      /\ Occ(coordBox', ClientJoin(c)) <= Occ(coordBox, ClientJoin(c))
  BY <1>1 DEF JoinCounts, ClientJoin
<1>5. Joins(c)' = Copies(wire', JoinCall(c, tries[c])) + Occ(coordBox', ClientJoin(c))
  BY DEF Joins, JoinCall, ClientJoin
<1>6. tries[c] \in 0..MaxTries
  BY <1>1
<1>7. Joins(c)' \in Nat /\ Joins(c) \in Nat /\ Joins(c)' <= Joins(c)
  BY <1>3, <1>4, <1>5, <1>6 DEF Joins
<1>8. ASSUME NEW k \in 1..MaxTries, k # tries[c] PROVE Copies(wire', JoinCall(c, k)) = 0
  <2>1. Copies(wire, JoinCall(c, k)) = 0 /\ k \in 0..MaxTries
    BY <1>1, <1>2, <1>8 DEF JoinedOnce
  <2> QED BY <1>3, <2>1
<1>9. \A k \in 1..MaxTries : k # tries'[c] => Copies(wire, JoinCall(c, k))' = 0
  BY <1>8 DEF JoinCall, ClientJoin
<1> QED BY <1>2, <1>7, <1>9 DEF JoinedOnce

\* What is sent to clients is no join.
LEMMA SentIsNoJoin ==
  ASSUME IsABag(wire), NEW cs \in Seq(Clients), NEW m, SendToClients(cs, m), NEW c, NEW k
  PROVE  Copies(wire', JoinCall(c, k)) = Copies(wire, JoinCall(c, k))
<1>1. ~\E d \in Clients : JoinCall(c, k) = [to |-> d, msg |-> m]
  BY RemoteAssumption DEF JoinCall
<1> QED BY <1>1, CopiesSent

\* The steps of the coordinator.
LEMMA CoordinatorJoin ==
  ASSUME DataInv, DataInv', JoinOnce, Coordinator, UNCHANGED envVars
  PROVE  JoinOnce'
<1> DEFINE n == coord.round
           m == Head(coordBox)
<1>1. /\ IsABag(wire) /\ coord \in CoordRecord /\ coord.clients \in Seq(Clients)
      /\ coordBox \in Seq(CoordMsgs(n)) /\ NoRepeat(coord.clients)
      /\ JoinCounts /\ JoinCounts'
  BY JoinIsCounted, JoinIsCountedNext
  DEF DataInv, DataOK, BoxesOK, WireOK, CoordOK, CoordRecord, CoordBoxOK, JoinOnce
<1>2. coordBox # <<>> /\ coordBox' = Tail(coordBox) /\ m \in CoordMsgs(n)
  <2>1. coordBox # <<>> /\ coordBox' = Tail(coordBox)
    BY DEF Coordinator, CoordStartFL, CoordAggregationResult, CoordMetricsReport, CoordSetPeers,
         CoordClientJoin, CoordClientDown, CoordTakes
  <2> QED BY <1>1, <2>1, TakeFromSeq
<1>3. \A c \in Clients : Occ(coordBox, ClientJoin(c))
          = Occ(coordBox', ClientJoin(c)) + (IF ClientJoin(c) = m THEN 1 ELSE 0)
  BY <1>1, <1>2, OccTail
<1>4. /\ \A c \in Clients : Occ(coordBox', ClientJoin(c)) \in Nat
      /\ \A c \in Clients, k \in 0..MaxTries : Copies(wire, JoinCall(c, k)) \in Nat
  BY <1>1 DEF JoinCounts, ClientJoin
<1>5. UNCHANGED <<up, joining, tries>>
  BY DEF envVars
<1>6. ASSUME NoRepeat(coord'.clients), ToSet(coord'.clients) \subseteq ToSet(coord.clients),
             \A c \in Clients, k \in 0..MaxTries :
               Copies(wire', JoinCall(c, k)) = Copies(wire, JoinCall(c, k))
      PROVE  JoinOnce'
  <2>1. \A c \in Clients : Occ(coordBox', ClientJoin(c)) <= Occ(coordBox, ClientJoin(c))
    BY <1>3, <1>4
  <2>2. \A c \in Clients, k \in 0..MaxTries :
          Copies(wire', JoinCall(c, k)) <= Copies(wire, JoinCall(c, k))
    BY <1>4, <1>6
  <2> QED BY <1>5, <1>6, <2>1, <2>2, JoinStays
<1>7. ASSUME NEW c \in CoordRecord, BeginRound(c)
      PROVE  /\ coord'.clients = c.clients
             /\ \A d \in Clients, k \in 0..MaxTries :
                  Copies(wire', JoinCall(d, k)) = Copies(wire, JoinCall(d, k))
  <2>1. coord'.clients = c.clients
    BY <1>7 DEF BeginRound, CloseDone, CoordRecord
  <2>2. c.clients \in Seq(Clients)
    BY DEF CoordRecord
  <2>3. CASE RoundsLeft(c)
    <3>1. SendToClients(c.clients, StartRound(c.round + 1))
      BY <1>7, <2>3 DEF BeginRound
    <3> QED BY <1>1, <2>1, <2>2, <3>1, SentIsNoJoin
  <2>4. CASE ~RoundsLeft(c)
    BY <1>7, <2>1, <2>4 DEF BeginRound, Copies
  <2> QED BY <2>3, <2>4
<1>8. CASE CoordStartFL
  BY <1>2, <1>8 DEF CoordStartFL, CoordTakes, CoordMsgs
<1>9. CASE CoordAggregationResult \/ CoordSetPeers
  <2>1. coord'.clients = coord.clients /\ UNCHANGED wire
    BY <1>1, <1>9 DEF CoordAggregationResult, CoordSetPeers, CoordRecord
  <2> QED BY <1>1, <1>6, <2>1
<1>10. CASE CoordMetricsReport
  <2>1. CASE CloseDone(coord) /\ UNCHANGED <<clientBox, wire>>
    <3>1. coord'.clients = coord.clients
      BY <1>1, <2>1 DEF CloseDone, CoordRecord
    <3> QED BY <1>1, <1>6, <2>1, <3>1
  <2>2. CASE BeginRound(coord)
    BY <1>1, <1>6, <1>7, <2>2
  <2> QED BY <1>10, <2>1, <2>2 DEF CoordMetricsReport
<1>11. CASE CoordClientDown
  <2>1. coord' = [coord EXCEPT !.clients = Others(@, m.client)] /\ UNCHANGED wire
    BY <1>11 DEF CoordClientDown
  <2>2. coord'.clients = Others(coord.clients, m.client)
    BY <1>1, <2>1 DEF CoordRecord
  <2> DEFINE o == Others(coord.clients, m.client)
  <2>3. /\ \A i \in DOMAIN o : \E j \in DOMAIN coord.clients : coord.clients[j] = o[i]
        /\ NoRepeat(o)
    BY <1>1, OthersFacts
  <2> HIDE DEF o
  <2>4. ToSet(o) \subseteq ToSet(coord.clients)
    BY <2>3 DEF ToSet
  <2> QED BY <1>6, <2>1, <2>2, <2>3, <2>4 DEF o
<1>12. CASE CoordClientJoin
  <2> DEFINE c == m.client
             joined == [coord EXCEPT !.clients = Append(@, c), !.seeded = @ \cup {c}]
  <2>1. m.type = "ClientJoin" /\ (BeginRound(joined) \/ (coord' = joined /\ UNCHANGED wire))
    BY <1>12 DEF CoordClientJoin, CoordTakes
  <2>2. c \in Clients /\ m = ClientJoin(c)
    BY <1>2, <2>1 DEF CoordMsgs, ClientJoin
  <2>3. c \notin ToSet(coord.clients) /\ Occ(coordBox, ClientJoin(c)) = 1
    BY <1>2, <2>2, HeadIsNew
  <2> HIDE DEF c
  <2>4. joined \in CoordRecord /\ joined.clients = Append(coord.clients, c)
    <3>1. Append(coord.clients, c) \in Seq(Clients)
      BY <1>1, <2>2, AppendProperties
    <3> QED BY <1>1, <2>2, <3>1 DEF CoordRecord
  <2> HIDE DEF joined
  <2>5. /\ coord'.clients = Append(coord.clients, c)
        /\ \A d \in Clients, k \in 0..MaxTries :
             Copies(wire', JoinCall(d, k)) = Copies(wire, JoinCall(d, k))
    <3>1. CASE BeginRound(joined)
      BY <1>7, <2>4, <3>1
    <3>2. CASE coord' = joined /\ UNCHANGED wire
      BY <2>4, <3>2
    <3> QED BY <2>1, <3>1, <3>2
  <2>6. NoRepeat(coord'.clients) /\ ToSet(coord'.clients) = ToSet(coord.clients) \cup {c}
    BY <1>1, <2>2, <2>3, <2>5, AppendNew
  <2>7. tries \in [Clients -> 0..MaxTries] /\ MaxTries \in Nat
    BY RemoteAssumption DEF DataInv, EnvOK
  <2>8. ASSUME NEW d \in Clients PROVE JoinedOnce(d)'
    <3>1. /\ JoinedOnce(d) /\ tries[d] \in 0..MaxTries
          /\ Occ(coordBox', ClientJoin(d)) \in Nat /\ Occ(coordBox, ClientJoin(d)) \in Nat
          /\ Copies(wire, JoinCall(d, tries[d])) \in Nat
      BY <1>1, <1>4, <2>7 DEF JoinOnce, JoinCounts
    <3>2. Joins(d)' = Copies(wire', JoinCall(d, tries[d])) + Occ(coordBox', ClientJoin(d))
      BY <1>5 DEF Joins, JoinCall, ClientJoin
    <3>3. Copies(wire', JoinCall(d, tries[d])) = Copies(wire, JoinCall(d, tries[d]))
      BY <2>5, <3>1
    <3>4. Joins(d) = Copies(wire, JoinCall(d, tries[d])) + Occ(coordBox, ClientJoin(d))
      BY DEF Joins
    <3>5. \A k \in 1..MaxTries : k # tries'[d] => Copies(wire, JoinCall(d, k))' = 0
      <4>1. ASSUME NEW k \in 1..MaxTries, k # tries[d] PROVE Copies(wire', JoinCall(d, k)) = 0
        BY <2>5, <2>7, <3>1, <4>1 DEF JoinedOnce
      <4> QED BY <1>5, <4>1 DEF JoinCall, ClientJoin
    <3>6. Occ(coordBox, ClientJoin(d)) = Occ(coordBox', ClientJoin(d)) + (IF ClientJoin(d) = m THEN 1 ELSE 0)
      BY <1>3
    <3>7. CASE d = c
      <4>1. Occ(coordBox', ClientJoin(d)) = 0 /\ Occ(coordBox, ClientJoin(d)) = 1
        BY <2>2, <2>3, <3>1, <3>6, <3>7
      <4>2. Joins(d) <= 1
        BY <3>1 DEF JoinedOnce
      <4>3. Joins(d)' = 0 /\ Joins(d) # 0
        BY <3>1, <3>2, <3>3, <3>4, <4>1, <4>2
      <4>4. ~(up[d] /\ joining[d] = "idle")
        BY <3>1, <4>3 DEF JoinedOnce
      <4> QED BY <1>5, <3>5, <4>3, <4>4 DEF JoinedOnce
    <3>8. CASE d # c
      <4>1. Joins(d)' = Joins(d)
        <5>1. ClientJoin(d) # m
          BY <2>2, <3>8 DEF ClientJoin
        <5> QED BY <3>1, <3>2, <3>3, <3>4, <3>6, <5>1
      <4>2. d \in ToSet(coord'.clients) <=> d \in ToSet(coord.clients)
        BY <2>6, <3>8
      <4> QED BY <1>5, <3>1, <3>5, <4>1, <4>2 DEF JoinedOnce
    <3> QED BY <3>7, <3>8
  <2> QED BY <2>6, <2>8 DEF JoinOnce
<1> QED BY <1>8, <1>9, <1>10, <1>11, <1>12 DEF Coordinator

\* The steps of the other actors.
LEMMA OtherActorsJoin ==
  ASSUME DataInv, DataInv', JoinOnce, UNCHANGED envVars,
         Aggregator \/ Monitor \/ CMRegisterClient \/ \E c \in Clients : Client(c)
  PROVE  JoinOnce'
<1> DEFINE n == coord.round
<1>1. /\ IsABag(wire) /\ RegisteringOK /\ coordBox \in Seq(CoordMsgs(n)) /\ NoRepeat(coord.clients)
      /\ JoinCounts
  BY JoinIsCounted DEF DataInv, DataOK, BoxesOK, WireOK, CoordBoxOK, JoinOnce
<1>2. UNCHANGED <<coord, up, joining, tries>>
  BY DEF envVars, Aggregator, AggLocalUpdate, AggRemoveClient, Monitor, MonSetGlobalModel,
     MonRoundComplete, CMRegisterClient, Client, ClientStartRound, ClientClusterAssign, actorVars
<1>3. ASSUME \A c \in Clients, k \in 0..MaxTries :
               Copies(wire', JoinCall(c, k)) = Copies(wire, JoinCall(c, k)),
             \/ UNCHANGED coordBox
             \/ \E m : coordBox' = Post(coordBox, m) /\ m.type # "ClientJoin"
      PROVE  JoinOnce'
  <2>1. ASSUME NEW c \in Clients
        PROVE  Occ(coordBox', ClientJoin(c)) <= Occ(coordBox, ClientJoin(c))
    <3>1. Occ(coordBox, ClientJoin(c)) \in Nat
      BY <1>1 DEF JoinCounts
    <3>2. CASE UNCHANGED coordBox
      BY <3>1, <3>2
    <3>3. ASSUME NEW m, coordBox' = Post(coordBox, m), m.type # "ClientJoin" PROVE Occ(coordBox', ClientJoin(c)) <= Occ(coordBox, ClientJoin(c))
      <4>1. ClientJoin(c) # m
        BY <3>3 DEF ClientJoin
      <4>2. coordBox \in Seq(CoordMsgs(n) \cup {m})
        BY <1>1, SeqMonotonic
      <4>3. Occ(Post(coordBox, m), ClientJoin(c)) = Occ(coordBox, ClientJoin(c))
        BY <4>1, <4>2, OccPost
      <4> QED BY <3>1, <3>3, <4>3
    <3> QED BY <1>3, <3>2, <3>3
  <2>2. \A c \in Clients, k \in 0..MaxTries :
          Copies(wire', JoinCall(c, k)) <= Copies(wire, JoinCall(c, k))
    BY <1>1, <1>3 DEF JoinCounts
  <2> QED BY <1>1, <1>2, <2>1, <2>2, JoinStays
<1>4. CASE Aggregator
  <2>1. UNCHANGED wire
    BY <1>4 DEF Aggregator, AggLocalUpdate, AggRemoveClient
  <2>2. UNCHANGED coordBox \/ \E r, a : coordBox' = Post(coordBox, AggregationResult(r, a))
    BY <1>4 DEF Aggregator, AggLocalUpdate, AggRemoveClient, Settle
  <2>3. \A r, a : AggregationResult(r, a).type # "ClientJoin"
    BY DEF AggregationResult
  <2> QED BY <1>3, <2>1, <2>2, <2>3
<1>5. CASE Monitor
  <2>1. UNCHANGED wire
    BY <1>5 DEF Monitor, MonSetGlobalModel, MonRoundComplete
  <2>2. UNCHANGED coordBox \/ \E r, b : coordBox' = Post(coordBox, MetricsReport(r, b))
    BY <1>5 DEF Monitor, MonSetGlobalModel, MonRoundComplete
  <2>3. \A r, b : MetricsReport(r, b).type # "ClientJoin"
    BY DEF MetricsReport
  <2> QED BY <1>3, <2>1, <2>2, <2>3
<1>6. CASE CMRegisterClient
  <2> DEFINE cs == Append(registered, Head(cmBox))
  <2>1. /\ cmBox # <<>> /\ UNCHANGED coordBox
        /\ SendToClients(cs, ClusterAssign) \/ UNCHANGED wire
    BY <1>6 DEF CMRegisterClient
  <2>2. cs \in Seq(Clients)
    BY <1>1, <2>1, TakeFromSeq, AppendProperties DEF RegisteringOK
  <2> HIDE DEF cs
  <2>3. \A c \in Clients, k \in 0..MaxTries :
          Copies(wire', JoinCall(c, k)) = Copies(wire, JoinCall(c, k))
    BY <1>1, <2>1, <2>2, SentIsNoJoin
  <2> QED BY <1>3, <2>1, <2>3
<1>7. ASSUME NEW d \in Clients, Client(d) PROVE JoinOnce'
  <2>1. /\ UNCHANGED coordBox
        /\ UNCHANGED wire \/ \E r : wire' = wire (+) SetToBag({Answer(d, r)})
    BY <1>7, RemoteAssumption DEF Client, ClientStartRound, ClientClusterAssign, Answer
  <2>2. ASSUME NEW c \in Clients, NEW k \in 0..MaxTries
        PROVE  Copies(wire', JoinCall(c, k)) = Copies(wire, JoinCall(c, k))
    <3>1. \A r : JoinCall(c, k) # Answer(d, r)
      BY DEF JoinCall, Answer
    <3>2. Copies(wire, JoinCall(c, k)) \in Nat
      BY <1>1 DEF JoinCounts
    <3>3. CASE UNCHANGED wire
      BY <3>3
    <3>4. ASSUME NEW r, wire' = wire (+) SetToBag({Answer(d, r)})
          PROVE  Copies(wire', JoinCall(c, k)) = Copies(wire, JoinCall(c, k))
      <4>1. Copies(wire', JoinCall(c, k)) = Copies(wire, JoinCall(c, k))
              + (IF JoinCall(c, k) = Answer(d, r) THEN 1 ELSE 0)
        BY <1>1, <3>4, CopiesAdd
      <4> QED BY <3>1, <3>2, <4>1
    <3> QED BY <2>1, <3>3, <3>4
  <2> QED BY <1>3, <2>1, <2>2
<1> QED BY <1>4, <1>5, <1>6, <1>7

\* no join has been repeated, by a timeout or by a restart
Calm == faults \cap {"timeout", "restart"} = {}

\* The processes, the membership and the network, when no join is repeated.
LEMMA EnvironmentJoin ==
  ASSUME DataInv, DataInv', JoinOnce, Calm',
         \/ MainSetPeers \/ Deliver \/ Lose
         \/ \E c \in Clients : SendJoin(c) \/ JoinTimeout(c) \/ GiveUp(c)
                                 \/ ClientCrash(c) \/ ClientRestart(c) \/ Hear(c) \/ ReportCrashed(c)
         \/ \E m \in Clients \cup {CoordinatorId} : ReportWrongly(m)
  PROVE  JoinOnce'
<1> DEFINE n == coord.round
<1>1. /\ IsABag(wire) /\ coordBox \in Seq(CoordMsgs(n)) /\ NoRepeat(coord.clients)
      /\ JoinCounts /\ JoinCounts' /\ MaxTries \in Nat
      /\ tries \in [Clients -> 0..MaxTries] /\ up \in [Clients -> BOOLEAN]
      /\ joining \in [Clients -> {"idle", "waiting", "registered"}]
  BY JoinIsCounted, JoinIsCountedNext, RemoteAssumption
  DEF DataInv, DataOK, BoxesOK, WireOK, CoordBoxOK, EnvOK, JoinOnce
<1>2. /\ \A c \in Clients : /\ Occ(coordBox, ClientJoin(c)) \in Nat
                            /\ Occ(coordBox', ClientJoin(c)) \in Nat
      /\ \A c \in Clients, k \in 0..MaxTries : /\ Copies(wire, JoinCall(c, k)) \in Nat
                                               /\ Copies(wire', JoinCall(c, k)) \in Nat
  BY <1>1 DEF JoinCounts, JoinCall, ClientJoin
<1>3. ASSUME UNCHANGED <<coord, tries>>,
             \/ \E e \in DOMAIN wire : wire' = wire (-) SetToBag({e})
             \/ \E cut : wire' = [e \in DOMAIN wire \ cut |-> wire[e]]
             \/ UNCHANGED wire,
             \A c \in Clients : Occ(coordBox', ClientJoin(c)) <= Occ(coordBox, ClientJoin(c)),
             \A c \in Clients : (up'[c] /\ joining'[c] = "idle") => (up[c] /\ joining[c] = "idle")
      PROVE  JoinOnce'
  <2>1. \A c \in Clients, k \in 0..MaxTries :
          Copies(wire', JoinCall(c, k)) <= Copies(wire, JoinCall(c, k))
    BY <1>1, <1>3, WireShrinks
  <2> QED BY <1>1, <1>3, <2>1, JoinStays
<1>4. ASSUME NEW m, coordBox' = Post(coordBox, m), m.type # "ClientJoin", NEW c \in Clients
      PROVE  Occ(coordBox', ClientJoin(c)) <= Occ(coordBox, ClientJoin(c))
  <2>1. ClientJoin(c) # m
    BY <1>4 DEF ClientJoin
  <2>2. coordBox \in Seq(CoordMsgs(n) \cup {m})
    BY <1>1, SeqMonotonic
  <2>3. Occ(Post(coordBox, m), ClientJoin(c)) = Occ(coordBox, ClientJoin(c))
    BY <2>1, <2>2, OccPost
  <2> QED BY <1>2, <1>4, <2>3
<1>5. ASSUME UNCHANGED coordBox, NEW c \in Clients
      PROVE  Occ(coordBox', ClientJoin(c)) <= Occ(coordBox, ClientJoin(c))
  BY <1>2, <1>5
<1>6. CASE MainSetPeers
  <2>1. coordBox' = Post(coordBox, SetPeers) /\ UNCHANGED <<coord, wire, up, joining, tries>>
    BY <1>6 DEF MainSetPeers, actorVars
  <2>2. SetPeers.type # "ClientJoin"
    BY DEF SetPeers
  <2> QED BY <1>3, <1>4, <2>1, <2>2
<1>7. ASSUME NEW m, Watch(m) PROVE JoinOnce'
  <2>1. coordBox' = Post(coordBox, ClientDown(m)) /\ UNCHANGED <<coord, wire, up, joining, tries>>
    BY <1>7 DEF Watch, actorVars
  <2>2. ClientDown(m).type # "ClientJoin"
    BY DEF ClientDown
  <2> QED BY <1>3, <1>4, <2>1, <2>2
<1>8. CASE Lose
  <2>1. /\ \E e \in DOMAIN wire : wire' = wire (-) SetToBag({e})
        /\ UNCHANGED <<coord, coordBox, up, joining, tries>>
    BY <1>8 DEF Lose, BagToSet, actorVars
  <2> QED BY <1>3, <1>5, <2>1
<1>9. ASSUME NEW e \in BagToSet(wire), DeliverUpdate(e) \/ DeliverToClient(e) PROVE JoinOnce'
  <2>1. /\ e \in DOMAIN wire /\ wire' = wire (-) SetToBag({e})
        /\ UNCHANGED <<coord, coordBox, up, joining, tries>>
    BY <1>9 DEF DeliverUpdate, DeliverToClient, BagToSet, actorVars, envVars
  <2> QED BY <1>3, <1>5, <2>1
<1>10. ASSUME NEW c \in Clients, JoinTimeout(c) \/ ClientRestart(c) PROVE FALSE
  BY <1>10 DEF JoinTimeout, ClientRestart, Fault, Calm
<1>11. ASSUME NEW c \in Clients, GiveUp(c) \/ ClientCrash(c) PROVE JoinOnce'
  <2>1. /\ UNCHANGED wire \/ \E cut : wire' = [e \in DOMAIN wire \ cut |-> wire[e]]
        /\ UNCHANGED <<coord, coordBox, tries>> /\ up' = [up EXCEPT ![c] = FALSE]
        /\ UNCHANGED joining \/ joining' = [joining EXCEPT ![c] = "idle"]
    BY <1>11 DEF GiveUp, ClientCrash, actorVars
  <2>2. \A d \in Clients : (up'[d] /\ joining'[d] = "idle") => (up[d] /\ joining[d] = "idle")
    BY <1>1, <2>1
  <2> QED BY <1>3, <1>5, <2>1, <2>2
<1>12. ASSUME NEW c \in Clients, SendJoin(c) PROVE JoinOnce'
  <2> DEFINE t == tries[c] + 1
             e == JoinCall(c, t)
  <2>1. /\ up[c] /\ joining[c] = "idle" /\ tries[c] < MaxTries
        /\ joining' = [joining EXCEPT ![c] = "waiting"]
        /\ tries' = [tries EXCEPT ![c] = t]
        /\ wire' = wire (+) SetToBag({e})
        /\ UNCHANGED <<coord, coordBox, up>>
    BY <1>12 DEF SendJoin, actorVars
  <2>2. t \in 1..MaxTries /\ t \in 0..MaxTries /\ t # tries[c] /\ tries[c] \in 0..MaxTries
    BY <1>1, <2>1
  <2> HIDE DEF t
  <2>3. ASSUME NEW d \in Clients, NEW k \in 0..MaxTries
        PROVE  Copies(wire', JoinCall(d, k)) = Copies(wire, JoinCall(d, k)) + (IF d = c /\ k = t THEN 1 ELSE 0)
    <3>1. JoinCall(d, k) = e <=> d = c /\ k = t
      BY DEF JoinCall, ClientJoin
    <3>2. Copies(wire', JoinCall(d, k)) = Copies(wire, JoinCall(d, k)) + (IF JoinCall(d, k) = e THEN 1 ELSE 0)
      BY <1>1, <2>1, CopiesAdd
    <3> QED BY <3>1, <3>2
  <2>4. ASSUME NEW d \in Clients PROVE JoinedOnce(d)'
    <3>1. JoinedOnce(d) /\ tries[d] \in 0..MaxTries
      BY <1>1 DEF JoinOnce
    <3>2. Joins(d)' = Copies(wire', JoinCall(d, tries'[d])) + Occ(coordBox, ClientJoin(d))
      BY <2>1 DEF Joins, JoinCall, ClientJoin
    <3>3. Joins(d) = Copies(wire, JoinCall(d, tries[d])) + Occ(coordBox, ClientJoin(d))
      BY DEF Joins
    <3>4. Occ(coordBox, ClientJoin(d)) \in Nat /\ Copies(wire, JoinCall(d, tries[d])) \in Nat
      BY <1>2, <3>1
    <3>5. CASE d = c
      <4>1. Joins(d) = 0 /\ d \notin ToSet(coord.clients)
        BY <2>1, <3>1, <3>5 DEF JoinedOnce
      <4>2. Occ(coordBox, ClientJoin(d)) = 0 /\ Copies(wire, JoinCall(d, tries[d])) = 0
        BY <3>3, <3>4, <4>1
      <4>3. tries'[d] = t
        BY <1>1, <2>1, <3>5
      <4>4. Copies(wire, JoinCall(d, t)) = 0
        BY <2>2, <3>1, <3>5 DEF JoinedOnce
      <4>5. Copies(wire', JoinCall(d, t)) = 1
        BY <2>2, <2>3, <3>5, <4>4
      <4>6. Joins(d)' = 1
        BY <3>2, <4>2, <4>3, <4>5
      <4>7. ASSUME NEW k \in 1..MaxTries, k # t PROVE Copies(wire', JoinCall(d, k)) = 0
        <5>1. k \in 0..MaxTries
          BY <1>1
        <5>2. Copies(wire, JoinCall(d, k)) = 0
          BY <3>1, <4>2, <5>1 DEF JoinedOnce
        <5> QED BY <2>3, <4>7, <5>1, <5>2
      <4>8. \A k \in 1..MaxTries : k # tries'[d] => Copies(wire, JoinCall(d, k))' = 0
        BY <4>3, <4>7 DEF JoinCall, ClientJoin
      <4>9. joining'[d] # "idle"
        BY <1>1, <2>1, <3>5
      <4>10. /\ Joins(d)' <= 1 /\ d \notin ToSet(coord'.clients)
             /\ ~(up'[d] /\ joining'[d] = "idle")
        BY <2>1, <4>1, <4>6, <4>9
      <4> HIDE DEF e
      <4> QED BY <4>8, <4>10 DEF JoinedOnce
    <3>6. CASE d # c
      <4>1. tries'[d] = tries[d] /\ joining'[d] = joining[d]
        BY <1>1, <2>1, <3>6
      <4>2. \A k \in 0..MaxTries : Copies(wire', JoinCall(d, k)) = Copies(wire, JoinCall(d, k))
        BY <1>2, <2>3, <3>6
      <4>3. Joins(d)' = Joins(d)
        BY <3>1, <3>2, <3>3, <4>1, <4>2
      <4>4. ASSUME NEW k \in 1..MaxTries, k # tries[d] PROVE Copies(wire', JoinCall(d, k)) = 0
        <5>1. k \in 0..MaxTries
          BY <1>1
        <5> QED BY <3>1, <4>2, <4>4, <5>1 DEF JoinedOnce
      <4>5. \A k \in 1..MaxTries : k # tries'[d] => Copies(wire, JoinCall(d, k))' = 0
        BY <4>1, <4>4 DEF JoinCall, ClientJoin
      <4> QED BY <2>1, <3>1, <4>1, <4>3, <4>5 DEF JoinedOnce
    <3> QED BY <3>5, <3>6
  <2> QED BY <1>1, <2>1, <2>4 DEF JoinOnce
<1>13. ASSUME NEW c \in Clients, NEW t \in 1..MaxTries, DeliverJoin(c, t) PROVE JoinOnce'
  <2> DEFINE e == JoinCall(c, t)
  <2>1. /\ e \in DOMAIN wire /\ wire' = wire (-) SetToBag({e})
        /\ coordBox' = IF coord.up THEN Post(coordBox, ClientJoin(c)) ELSE coordBox
        /\ \/ joining' = joining
           \/ coord.up /\ joining' = [joining EXCEPT ![c] = "registered"]
           \/ ~coord.up /\ joining' = [joining EXCEPT ![c] = "idle"]
        /\ UNCHANGED <<coord, up, tries>>
    BY <1>13 DEF DeliverJoin, BagIn, BagToSet, actorVars
  <2>2. t \in 0..MaxTries
    BY <1>1
  <2>3. ASSUME NEW d \in Clients, NEW k \in 0..MaxTries
        PROVE  Copies(wire', JoinCall(d, k)) = Copies(wire, JoinCall(d, k)) - (IF d = c /\ k = t THEN 1 ELSE 0)
    <3>1. JoinCall(d, k) = e <=> d = c /\ k = t
      BY DEF JoinCall, ClientJoin
    <3>2. Copies(wire', JoinCall(d, k)) = Copies(wire, JoinCall(d, k)) - (IF JoinCall(d, k) = e THEN 1 ELSE 0)
      BY <1>1, <2>1, CopiesTake
    <3> QED BY <3>1, <3>2
  <2>4. ASSUME NEW d \in Clients PROVE JoinedOnce(d)'
    <3>1. JoinedOnce(d) /\ tries[d] \in 0..MaxTries
      BY <1>1 DEF JoinOnce
    <3>2. Joins(d)' = Copies(wire', JoinCall(d, tries[d])) + Occ(coordBox', ClientJoin(d))
      BY <2>1 DEF Joins, JoinCall, ClientJoin
    <3>3. Joins(d) = Copies(wire, JoinCall(d, tries[d])) + Occ(coordBox, ClientJoin(d))
      BY DEF Joins
    <3>4. /\ Occ(coordBox, ClientJoin(d)) \in Nat /\ Copies(wire, JoinCall(d, tries[d])) \in Nat
          /\ Occ(coordBox', ClientJoin(d)) \in Nat /\ Copies(wire', JoinCall(d, tries[d])) \in Nat
      BY <1>2, <3>1
    <3>5. /\ Occ(coordBox', ClientJoin(d)) <= Occ(coordBox, ClientJoin(d)) + (IF d = c THEN 1 ELSE 0)
          /\ ~coord.up => coordBox' = coordBox
      <4>1. CASE coord.up
        <5>1. ClientJoin(c) \in CoordMsgs(n) /\ (ClientJoin(d) = ClientJoin(c) <=> d = c)
          BY DEF ClientJoin, CoordMsgs
        <5>2. Occ(Post(coordBox, ClientJoin(c)), ClientJoin(d))
                <= Occ(coordBox, ClientJoin(d)) + (IF ClientJoin(d) = ClientJoin(c) THEN 1 ELSE 0)
          BY <1>1, <5>1, OccPost
        <5> QED BY <2>1, <4>1, <5>1, <5>2
      <4>2. CASE ~coord.up
        BY <2>1, <3>4, <4>2
      <4> QED BY <4>1, <4>2
    <3>6. ASSUME NEW k \in 1..MaxTries, k # tries[d] PROVE Copies(wire', JoinCall(d, k)) = 0
      <4>1. k \in 0..MaxTries /\ Copies(wire, JoinCall(d, k)) = 0
        BY <1>1, <3>1, <3>6 DEF JoinedOnce
      <4>2. Copies(wire', JoinCall(d, k)) \in Nat
        BY <1>2, <4>1
      <4> QED BY <2>3, <4>1, <4>2
    <3>7. \A k \in 1..MaxTries : k # tries'[d] => Copies(wire, JoinCall(d, k))' = 0
      BY <2>1, <3>6 DEF JoinCall, ClientJoin
    <3>8. CASE d = c
      <4>1. Copies(wire, JoinCall(c, t)) # 0
        BY <1>1, <2>1, CopiesFacts
      <4>2. t = tries[c]
        BY <3>1, <3>8, <4>1 DEF JoinedOnce
      <4>3. Joins(d) # 0 /\ Joins(d) <= 1
        BY <3>1, <3>3, <3>4, <3>8, <4>1, <4>2 DEF JoinedOnce
      <4>4. Copies(wire, JoinCall(d, tries[d])) = 1 /\ Occ(coordBox, ClientJoin(d)) = 0
        BY <3>3, <3>4, <3>8, <4>1, <4>2, <4>3
      <4>5. Copies(wire', JoinCall(d, tries[d])) = 0
        BY <2>2, <2>3, <3>8, <4>2, <4>4
      <4>6. d \notin ToSet(coord.clients) /\ ~(up[d] /\ joining[d] = "idle")
        BY <3>1, <4>3 DEF JoinedOnce
      <4>7. Joins(d)' <= 1 /\ (~coord.up => Joins(d)' = 0)
        BY <3>2, <3>4, <3>5, <3>8, <4>4, <4>5
      <4>8. (up[d] /\ joining'[d] = "idle") => ~coord.up
        BY <1>1, <2>1, <3>8, <4>6
      <4> QED BY <2>1, <3>7, <4>6, <4>7, <4>8 DEF JoinedOnce
    <3>9. CASE d # c
      <4>1. Joins(d)' <= Joins(d) /\ Joins(d)' \in Nat /\ Joins(d) \in Nat
        BY <2>3, <3>1, <3>2, <3>3, <3>4, <3>5, <3>9
      <4>2. joining'[d] = joining[d]
        BY <1>1, <2>1, <3>9
      <4> QED BY <2>1, <3>1, <3>7, <4>1, <4>2 DEF JoinedOnce
    <3> QED BY <3>8, <3>9
  <2> QED BY <1>1, <2>1, <2>4 DEF JoinOnce
<1>14. ASSUME NEW c \in Clients, Hear(c) PROVE JoinOnce'
  BY <1>3, <1>5, <1>14 DEF Hear, flVars, actorVars, boxVars
<1> QED BY <1>6, <1>7, <1>8, <1>9, <1>10, <1>11, <1>12, <1>13, <1>14
        DEF Deliver, ReportCrashed, ReportWrongly

-----------------------------------------------------------------------------
(* No average counts a client's update twice.                              *)

\* the averages that count no client twice in any round
Singles == {a \in Models : \A c \in Clients, r \in Rounds : a[c, r] <= 1}

\* the models that messages of one type carry
BoxOnce(box, type) == \A i \in DOMAIN box : box[i].type = type => box[i].model \in Singles

AveragesOnce ==
  /\ BoxOnce(coordBox, "AggregationResult") /\ BoxOnce(monBox, "SetGlobalModel")
  /\ coord.model \in Singles /\ mon.model \in Singles

\* A mailbox whose averages count nobody twice, and one more such message.
LEMMA BoxOncePost ==
  ASSUME NEW S, NEW box \in Seq(S), NEW m \in S, NEW type, BoxOnce(box, type),
         m.type = type => m.model \in Singles
  PROVE  BoxOnce(Post(box, m), type)
<1> DEFINE t == Append(box, m)
<1>1. /\ DOMAIN box = 1..Len(box) /\ Len(box) \in Nat /\ DOMAIN t = 1..(Len(box) + 1)
      /\ \A i \in 1..Len(box) : t[i] = box[i]
      /\ t[Len(box) + 1] = m
  BY AppendProperties, LenProperties
<1> HIDE DEF t
<1>2. BoxOnce(t, type)
  BY <1>1 DEF BoxOnce
<1> QED BY <1>2 DEF Post, t

\* What is taken out of such a mailbox counts nobody twice.
LEMMA BoxOnceTake ==
  ASSUME NEW S, NEW box \in Seq(S), box # <<>>, NEW type, BoxOnce(box, type)
  PROVE  /\ BoxOnce(Tail(box), type)
         /\ Head(box).type = type => Head(box).model \in Singles
<1> DEFINE t == Tail(box)
<1>1. /\ DOMAIN box = 1..Len(box) /\ Len(box) \in Nat \ {0} /\ DOMAIN t = 1..(Len(box) - 1)
      /\ \A i \in 1..(Len(box) - 1) : t[i] = box[i + 1]
      /\ Head(box) = box[1]
  BY HeadTailProperties, LenProperties, EmptySeq
<1> HIDE DEF t
<1>2. BoxOnce(t, type)
  BY <1>1 DEF BoxOnce
<1>3. Head(box).type = type => Head(box).model \in Singles
  BY <1>1 DEF BoxOnce
<1> QED BY <1>2, <1>3 DEF t

\* The average of a list that repeats no update counts nobody twice.
LEMMA AverageOnce ==
  ASSUME NEW n, NEW us \in Seq(UpdatesUpTo(n)),
         \A c \in Clients, r \in Rounds : Occ(us, Update(c, r)) <= 1
  PROVE  FedAvg(us) \in Singles
<1>1. \A c \in Clients, r \in Rounds : Occ(us, Update(c, r)) \in Nat
  BY OccFacts
<1>2. FedAvg(us) = [p \in Clients \X Rounds |-> Occ(us, Update(p[1], p[2]))]
  BY DEF FedAvg, Occ, Occurrences
<1>3. \A p \in Clients \X Rounds : p[1] \in Clients /\ p[2] \in Rounds
  OBVIOUS
<1>4. FedAvg(us) \in Models
  BY <1>1, <1>2, <1>3 DEF Models
<1>5. \A c \in Clients, r \in Rounds : FedAvg(us)[c, r] = Occ(us, Update(c, r))
  BY <1>2
<1> QED BY <1>4, <1>5 DEF Singles

\* Every step, when each client's work exists once.
LEMMA AverageStep ==
  ASSUME DataInv, WorkOnce, AveragesOnce, [Next]_vars
  PROVE  AveragesOnce'
<1> DEFINE n == coord.round
<1>1. /\ coordBox \in Seq(CoordMsgs(n)) /\ monBox \in Seq(MonMsgs(n)) /\ WorkCounts
      /\ coord \in CoordRecord
      /\ mon \in [validation : BOOLEAN, model : Served(n), log : SUBSET [round : Rounds, of : Models]]
  BY WorkIsCounted DEF DataInv, DataOK, BoxesOK, CoordBoxOK, MonBoxOK, MonOK, CoordOK
<1>2. /\ BoxOnce(coordBox, "AggregationResult") /\ BoxOnce(monBox, "SetGlobalModel")
      /\ coord.model \in Singles /\ mon.model \in Singles
  BY DEF AveragesOnce
<1>3. coordBox # <<>> =>
        /\ BoxOnce(Tail(coordBox), "AggregationResult")
        /\ Head(coordBox).type = "AggregationResult" => Head(coordBox).model \in Singles
  BY <1>1, <1>2, BoxOnceTake
<1>4. monBox # <<>> =>
        /\ BoxOnce(Tail(monBox), "SetGlobalModel")
        /\ Head(monBox).type = "SetGlobalModel" => Head(monBox).model \in Singles
  BY <1>1, <1>2, BoxOnceTake
<1>5. ASSUME NEW m, m.type = "AggregationResult" => m.model \in Singles
      PROVE  BoxOnce(Post(coordBox, m), "AggregationResult")
  <2>1. coordBox \in Seq(CoordMsgs(n) \cup {m})
    BY <1>1, SeqMonotonic
  <2> QED BY <1>2, <1>5, <2>1, BoxOncePost
<1>6. CASE Coordinator
  <2> DEFINE m == Head(coordBox)
  <2>1. coordBox # <<>> /\ coordBox' = Tail(coordBox) /\ UNCHANGED mon
    BY <1>6 DEF Coordinator, CoordStartFL, CoordAggregationResult, CoordMetricsReport, CoordSetPeers,
         CoordClientJoin, CoordClientDown, CoordTakes
  <2>2. coord'.model \in Singles /\ BoxOnce(monBox', "SetGlobalModel")
    <3>1. CASE CoordAggregationResult
      <4>1. /\ m.type = "AggregationResult" /\ coord' = [coord EXCEPT !.model = m.model, !.up = coord.peers]
            /\ monBox' = IF coord.peers THEN Report(m) ELSE monBox
        BY <3>1 DEF CoordAggregationResult, CoordTakes
      <4>2. m.model \in Singles /\ coord'.model = m.model
        BY <1>1, <1>3, <2>1, <4>1 DEF CoordRecord
      <4> DEFINE a == SetGlobalModel(m.model)
                 b == RoundComplete(m.round)
      <4>3. monBox \in Seq(MonMsgs(n) \cup {a, b})
        BY <1>1, SeqMonotonic
      <4>4. /\ a.type = "SetGlobalModel" => a.model \in Singles
            /\ b.type # "SetGlobalModel"
        BY <4>2 DEF SetGlobalModel, RoundComplete
      <4> HIDE DEF a, b
      <4>5. Post(monBox, a) \in Seq(MonMsgs(n) \cup {a, b}) /\ BoxOnce(Post(monBox, a), "SetGlobalModel")
        BY <1>2, <4>3, <4>4, PostInSeq, BoxOncePost
      <4>6. BoxOnce(Post(Post(monBox, a), b), "SetGlobalModel")
        BY <4>4, <4>5, BoxOncePost
      <4> QED BY <1>2, <4>1, <4>2, <4>6 DEF Report, a, b
    <3>2. CASE ~CoordAggregationResult
      <4>1. UNCHANGED monBox
        BY <1>6, <3>2 DEF Coordinator, CoordStartFL, CoordMetricsReport, CoordSetPeers,
             CoordClientJoin, CoordClientDown
      <4>2. ASSUME NEW c, c \in CoordRecord, c.model = coord.model, BeginRound(c) \/ CloseDone(c) \/ coord' = c
            PROVE  coord'.model = coord.model
        BY <4>2 DEF BeginRound, CloseDone, CoordRecord
      <4>3. coord'.model = coord.model
        <5>1. CASE CoordStartFL
          BY <1>1, <2>1, <5>1, TakeFromSeq DEF CoordStartFL, CoordTakes, CoordMsgs
        <5>2. CASE CoordMetricsReport
          BY <1>1, <4>2, <5>2 DEF CoordMetricsReport
        <5>3. CASE CoordSetPeers \/ CoordClientDown
          BY <1>1, <5>3 DEF CoordSetPeers, CoordClientDown, CoordRecord
        <5>4. CASE CoordClientJoin
          <6> DEFINE c == m.client
                     joined == [coord EXCEPT !.clients = Append(@, c), !.seeded = @ \cup {c}]
          <6>1. m.type = "ClientJoin" /\ (BeginRound(joined) \/ coord' = joined)
            BY <5>4 DEF CoordClientJoin, CoordTakes
          <6>2. c \in Clients
            BY <1>1, <2>1, <6>1, TakeFromSeq DEF CoordMsgs
          <6> HIDE DEF c
          <6>3. joined \in CoordRecord /\ joined.model = coord.model
            <7>1. Append(coord.clients, c) \in Seq(Clients)
              BY <1>1, <6>2, AppendProperties DEF CoordRecord
            <7> QED BY <1>1, <6>2, <7>1 DEF CoordRecord
          <6> HIDE DEF joined
          <6> QED BY <4>2, <6>1, <6>3
        <5> QED BY <1>6, <3>2, <5>1, <5>2, <5>3, <5>4 DEF Coordinator
      <4> QED BY <1>2, <4>1, <4>3
    <3> QED BY <3>1, <3>2
  <2> QED BY <1>2, <1>3, <2>1, <2>2 DEF AveragesOnce
<1>7. CASE Aggregator
  <2>1. UNCHANGED <<coord, mon, monBox>>
    BY <1>7 DEF Aggregator, AggLocalUpdate, AggRemoveClient
  <2>2. PICK a : /\ Settle(a) /\ a.updates \in Seq(UpdatesUpTo(n))
                 /\ \A c \in Clients, r \in Rounds :
                      /\ Occ(aggBox', LocalUpdate(c, r)) + Occ(a.updates, Update(c, r))
                           <= Queued(c, r) + Held(c, r)
                      /\ Occ(aggBox', LocalUpdate(c, r)) \in Nat
    BY <1>1, <1>7, AggregatorList
  <2>3. ASSUME NEW c \in Clients, NEW r \in Rounds PROVE Occ(a.updates, Update(c, r)) <= 1
    <3>1. /\ Asked(c, r) \in Nat /\ Waiting(c, r) \in Nat /\ Answered(c, r) \in Nat
          /\ Queued(c, r) \in Nat /\ Held(c, r) \in Nat
      BY <1>1 DEF WorkCounts
    <3>2. Work(c, r) <= 1
      BY DEF WorkOnce
    <3>3. Occ(a.updates, Update(c, r)) \in Nat
      BY <2>2, OccFacts
    <3>4. /\ Occ(aggBox', LocalUpdate(c, r)) + Occ(a.updates, Update(c, r)) <= Queued(c, r) + Held(c, r)
          /\ Occ(aggBox', LocalUpdate(c, r)) \in Nat
      BY <2>2
    <3> QED BY <3>1, <3>2, <3>3, <3>4 DEF Work
  <2>4. FedAvg(a.updates) \in Singles
    BY <2>2, <2>3, AverageOnce
  <2>5. BoxOnce(coordBox', "AggregationResult")
    <3> DEFINE m == AggregationResult(a.round, FedAvg(a.updates))
    <3>1. m.type = "AggregationResult" => m.model \in Singles
      BY <2>4 DEF AggregationResult
    <3>2. coordBox' = Post(coordBox, m) \/ UNCHANGED coordBox
      BY <2>2 DEF Settle
    <3> HIDE DEF m
    <3> QED BY <1>2, <1>5, <3>1, <3>2
  <2> QED BY <1>2, <2>1, <2>5 DEF AveragesOnce
<1>8. CASE Monitor
  <2>1. monBox # <<>> /\ monBox' = Tail(monBox) /\ UNCHANGED coord
    BY <1>8 DEF Monitor, MonSetGlobalModel, MonRoundComplete, MonTakes
  <2>2. mon'.model \in Singles
    <3>1. CASE MonSetGlobalModel
      <4>1. Head(monBox).type = "SetGlobalModel" /\ mon' = [mon EXCEPT !.model = Head(monBox).model]
        BY <3>1 DEF MonSetGlobalModel, MonTakes
      <4> QED BY <1>1, <1>4, <2>1, <4>1
    <3>2. CASE MonRoundComplete
      <4>1. mon'.model = mon.model
        BY <1>1, <3>2 DEF MonRoundComplete
      <4> QED BY <1>2, <4>1
    <3> QED BY <1>8, <3>1, <3>2 DEF Monitor
  <2>3. UNCHANGED coordBox \/ \E r, b : coordBox' = Post(coordBox, MetricsReport(r, b))
    BY <1>8 DEF Monitor, MonSetGlobalModel, MonRoundComplete
  <2>4. \A r, b : MetricsReport(r, b).type # "AggregationResult"
    BY DEF MetricsReport
  <2>5. BoxOnce(coordBox', "AggregationResult")
    BY <1>2, <1>5, <2>3, <2>4
  <2> QED BY <1>2, <1>4, <2>1, <2>2, <2>5 DEF AveragesOnce
<1>9. ASSUME UNCHANGED <<coord, mon, monBox>>,
             UNCHANGED coordBox \/ \E m : coordBox' = Post(coordBox, m) /\ m.type # "AggregationResult"
      PROVE  AveragesOnce'
  <2>1. BoxOnce(coordBox', "AggregationResult")
    BY <1>2, <1>5, <1>9
  <2> QED BY <1>2, <1>9, <2>1 DEF AveragesOnce
<1>10. CASE CMRegisterClient \/ \E c \in Clients : Client(c)
  BY <1>9, <1>10 DEF CMRegisterClient, Client, ClientStartRound, ClientClusterAssign, actorVars
<1>11. CASE Lose \/ \E e \in BagToSet(wire) : DeliverUpdate(e) \/ DeliverToClient(e)
  BY <1>9, <1>11 DEF Lose, DeliverUpdate, DeliverToClient, actorVars
<1>12. ASSUME NEW c, NEW t, DeliverJoin(c, t) PROVE AveragesOnce'
  <2>1. ClientJoin(c).type # "AggregationResult"
    BY DEF ClientJoin
  <2> QED BY <1>9, <1>12, <2>1 DEF DeliverJoin, actorVars
<1>13. CASE MainSetPeers
  <2>1. SetPeers.type # "AggregationResult"
    BY DEF SetPeers
  <2> QED BY <1>9, <1>13, <2>1 DEF MainSetPeers, actorVars
<1>14. ASSUME NEW m, Watch(m) PROVE AveragesOnce'
  <2>1. ClientDown(m).type # "AggregationResult"
    BY DEF ClientDown
  <2> QED BY <1>9, <1>14, <2>1 DEF Watch, actorVars
<1>15. ASSUME NEW c \in Clients,
              \/ SendJoin(c) \/ JoinTimeout(c) \/ GiveUp(c)
              \/ ClientCrash(c) \/ ClientRestart(c) \/ Hear(c)
       PROVE  AveragesOnce'
  BY <1>9, <1>15 DEF SendJoin, JoinTimeout, GiveUp, ClientCrash, ClientRestart, Hear, flVars, actorVars, boxVars
<1>16. CASE UNCHANGED vars
  BY <1>9, <1>16 DEF vars, flVars, actorVars, boxVars
<1> QED BY <1>6, <1>7, <1>8, <1>10, <1>11, <1>12, <1>13, <1>14, <1>15, <1>16
        DEF Next, ActorStep, Actors, Deliver, ReportCrashed, ReportWrongly

\* the invariant of the joins, the work and the averages
OnceInv == Calm => (WorkOnce /\ JoinOnce /\ AveragesOnce)

\* Nothing is counted twice before anything has happened.
LEMMA OnceInit == Init => OnceInv
<1> SUFFICES ASSUME Init PROVE WorkOnce /\ JoinOnce /\ AveragesOnce
  BY DEF OnceInv
<1>1. DataInv
  BY DataInit
<1>2. wire = EmptyBag /\ coordBox = <<>> /\ monBox = <<>> /\ coord.clients = <<>>
      /\ coord.round = 0 /\ coord.model = NoModel /\ mon.model = NoModel
  BY DEF Init
<1>3. \A x : Copies(wire, x) = 0
  BY <1>2 DEF Copies, EmptyBag, SetToBag
<1>4. WorkOnce
  <2> SUFFICES ASSUME NEW c \in Clients, NEW r \in Rounds PROVE Work(c, r) <= 1
    BY DEF WorkOnce
  <2>1. r > coord.round
    BY <1>2 DEF Rounds
  <2> QED BY <1>1, <2>1, NoWorkYet
<1>5. JoinOnce
  <2>1. \A c \in Clients : Joins(c) = 0
    BY <1>2, <1>3, OccEmpty DEF Joins
  <2>2. ToSet(coord.clients) = {} /\ NoRepeat(coord.clients)
    BY <1>2 DEF ToSet, NoRepeat
  <2> QED BY <1>3, <2>1, <2>2 DEF JoinOnce, JoinedOnce
<1>6. AveragesOnce
  <2>1. NoModel \in Singles
    <3>1. \A c \in Clients, r \in Rounds : NoModel[c, r] = 0
      BY Zenon DEF NoModel
    <3>2. \A k : k = 0 => (k <= 1)
      BY SMT
    <3>3. \A c \in Clients, r \in Rounds : NoModel[c, r] <= 1
      BY <3>1, <3>2, Zenon
    <3> QED BY <3>3, NoModelIsModel, Zenon DEF Singles
  <2> QED BY <1>2, <2>1 DEF AveragesOnce, BoxOnce
<1> QED BY <1>4, <1>5, <1>6

\* What has happened stays so.
LEMMA FaultsStay == [Next]_vars => faults \subseteq faults'
<1> SUFFICES ASSUME [Next]_vars PROVE faults \subseteq faults'
  OBVIOUS
<1>1. CASE ActorStep \/ MainSetPeers \/ UNCHANGED vars
  BY <1>1 DEF ActorStep, MainSetPeers, vars, envVars
<1>2. CASE Deliver \/ Lose
  BY <1>2 DEF Deliver, DeliverJoin, DeliverUpdate, DeliverToClient, Lose, Fault, envVars
<1>3. ASSUME NEW c \in Clients,
             \/ SendJoin(c) \/ JoinTimeout(c) \/ GiveUp(c)
             \/ ClientCrash(c) \/ ClientRestart(c) \/ Hear(c) \/ ReportCrashed(c)
      PROVE  faults \subseteq faults'
  BY <1>3 DEF SendJoin, JoinTimeout, GiveUp, ClientCrash, ClientRestart, Hear, ReportCrashed, Fault
<1>4. ASSUME NEW m, ReportWrongly(m) PROVE faults \subseteq faults'
  BY <1>4 DEF ReportWrongly, Fault
<1> QED BY <1>1, <1>2, <1>3, <1>4 DEF Next

\* No step counts anything twice while no join has been repeated.
LEMMA OnceStep == DataInv /\ DataInv' /\ OnceInv /\ [Next]_vars => OnceInv'
<1> SUFFICES ASSUME DataInv, DataInv', OnceInv, [Next]_vars, Calm'
             PROVE  WorkOnce' /\ JoinOnce' /\ AveragesOnce'
  BY DEF OnceInv
<1>1. Calm
  BY FaultsStay DEF Calm
<1>2. WorkOnce /\ JoinOnce /\ AveragesOnce
  BY <1>1 DEF OnceInv
<1>3. AveragesOnce'
  BY <1>2, AverageStep
<1>4. WorkOnce' /\ JoinOnce'
  <2>1. CASE ActorStep
    <3>1. CASE Coordinator
      BY <1>2, <2>1, <3>1, CoordinatorWork, CoordinatorJoin DEF ActorStep
    <3>2. CASE Aggregator \/ Monitor \/ CMRegisterClient \/ \E c \in Clients : Client(c)
      BY <1>2, <2>1, <3>2, OtherActorsWork, OtherActorsJoin DEF ActorStep
    <3> QED BY <2>1, <3>1, <3>2 DEF ActorStep, Actors
  <2>2. CASE Deliver \/ Lose
    BY <1>2, <2>2, DeliverWork, EnvironmentJoin
  <2>3. CASE \/ MainSetPeers
             \/ \E c \in Clients : SendJoin(c) \/ JoinTimeout(c) \/ GiveUp(c)
                                     \/ ClientCrash(c) \/ ClientRestart(c) \/ Hear(c) \/ ReportCrashed(c)
             \/ \E m \in Clients \cup {CoordinatorId} : ReportWrongly(m)
    BY <1>2, <2>3, EnvironmentWork, EnvironmentJoin
  <2>4. CASE UNCHANGED vars
    <3>1. UNCHANGED <<coord, agg, coordBox, aggBox, clientBox, wire, up, joining, tries>>
      BY <2>4 DEF vars, flVars, actorVars, boxVars, envVars
    <3>2. WorkOnce'
      BY <1>2, <3>1 DEF WorkOnce, Work, Asked, Waiting, Answered, Queued, Held,
           Ask, Answer, StartRound, LocalUpdate, Update
    <3>3. JoinOnce'
      BY <1>2, <3>1 DEF JoinOnce, JoinedOnce, Joins, JoinCall, ClientJoin
    <3> QED BY <3>2, <3>3
  <2> QED BY <2>1, <2>2, <2>3, <2>4 DEF Next
<1> QED BY <1>3, <1>4

\* As long as no join is repeated, by a timeout or a restart, no average counts
\* a client's update twice, whatever else is lost, late, crashed or wrongly
\* reported.
THEOREM NoUpdateIsCountedTwice == Spec => []NoClientCountedTwice
<1>1. DataInv /\ OnceInv => NoClientCountedTwice
  <2> SUFFICES ASSUME DataInv, OnceInv, Calm, NEW a \in Averages PROVE a \in Singles
    BY DEF NoClientCountedTwice, Calm, Singles
  <2>1. AveragesOnce
    BY DEF OnceInv
  <2>2. \/ \E x \in ToSet(coordBox) : x.type = "AggregationResult" /\ a = x.model
        \/ \E x \in ToSet(monBox) : x.type = "SetGlobalModel" /\ a = x.model
        \/ a \in {coord.model, mon.model}
    BY DEF Averages
  <2> QED BY <2>1, <2>2 DEF AveragesOnce, BoxOnce, ToSet
<1>2. Spec => []OnceInv
  BY OnceInit, OnceStep, DataInvariance, PTL DEF Spec
<1> QED BY <1>1, <1>2, DataInvariance, PTL
=============================================================================
