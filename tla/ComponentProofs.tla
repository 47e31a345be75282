--------------------------- MODULE ComponentProofs ---------------------------
(***************************************************************************)
(* Proofs about the small components, each by itself: HashRing, for every  *)
(* hash function; Mailbox, that what Enqueue accepts is read once, in      *)
(* order, or for the priority mailbox with a bound on how often an urgent  *)
(* message is overtaken; Supervision, that the tracker decides as the      *)
(* whole history would; Shards, that no sample is left out or given twice; *)
(* KMeans, that what kMeans settles on is nearest to its means;            *)
(* RemoteCalls, that questions are kept apart, for any number of them.  The *)
(* last section carries the results over to Components.                    *)
(***************************************************************************)
EXTENDS Components, Sums, SequenceTheorems, TLAPS

-----------------------------------------------------------------------------
(* The ring. *)

\* A set of hashes that is not empty has a smallest.
LEMMA Smallest ==
  ASSUME NEW S \in SUBSET Nat, S # {}
  PROVE  Min(S) \in S /\ \A g \in S : Min(S) <= g
BY HasSmallest DEF Min

\* where the search for a position ends among the hashes of S
IsFirst(S, p, h) ==
  /\ h \in S
  /\ \A g \in S : (g >= p) => (h >= p /\ h <= g)
  /\ (\A g \in S : g < p) => \A g \in S : h <= g

\* The search ends at one place,
LEMMA FirstIsUnique ==
  ASSUME NEW S \in SUBSET Nat, NEW p \in Nat, NEW h, NEW g, IsFirst(S, p, h), IsFirst(S, p, g)
  PROVE  h = g
BY DEF IsFirst

\* and does not notice hashes that come or go elsewhere.
LEMMA FirstStays ==
  ASSUME NEW S \in SUBSET Nat, NEW T \in SUBSET S, NEW p \in Nat, NEW h \in T, IsFirst(S, p, h)
  PROVE  IsFirst(T, p, h)
BY DEF IsFirst

-----------------------------------------------------------------------------

\* The ring holds what sortedHashes says, and only points of members; if no
\* hashes collide it holds all of theirs.
RingInv ==
  /\ RingTypeOK
  /\ \A h \in Hashes : (ring[h] # NoNode) <=> (h \in sortedHashes)
  /\ \A h \in Hashes : (ring[h] # NoNode) => (ring[h] \in members /\ h \in PointsOf(ring[h]))
  /\ Distinct => \A n \in members : \A h \in PointsOf(n) : ring[h] = n

\* Where the virtual nodes are.
LEMMA Points ==
  ASSUME RingTypeOK, NEW n \in Nodes
  PROVE  /\ PointsOf(n) \subseteq Hashes /\ point[n, 0] \in PointsOf(n)
         /\ Distinct => \A m \in Nodes \ {n} : PointsOf(n) \cap PointsOf(m) = {}
<1>0. Replicas \in Nat \ {0} /\ 0 \in 0..(Replicas - 1) /\ point \in [Virtual -> Hashes]
  BY RingAssumption DEF RingTypeOK
<1>1. PointsOf(n) \subseteq Hashes /\ point[n, 0] \in PointsOf(n)
  BY <1>0 DEF PointsOf, Virtual
<1>2. ASSUME Distinct, NEW m \in Nodes \ {n}, NEW h \in PointsOf(n) \cap PointsOf(m) PROVE FALSE
  <2>1. PICK i \in 0..(Replicas - 1) : h = point[n, i]
    BY <1>2 DEF PointsOf
  <2>2. PICK j \in 0..(Replicas - 1) : h = point[m, j]
    BY <1>2 DEF PointsOf
  <2>3. <<n, i>> \in Virtual /\ <<m, j>> \in Virtual /\ point[<<n, i>>] = point[<<m, j>>]
    BY <2>1, <2>2 DEF Virtual
  <2>4. <<n, i>> = <<m, j>>
    BY <1>2, <2>3 DEF Distinct
  <2> QED
    BY <2>4
<1> QED
  BY <1>1, <1>2

\* What is searched, in the end, is the smallest of the hashes that are left.
Found(S, p) ==
  LET after == {h \in S : h >= p} IN Min(IF after = {} THEN S ELSE after)

\* The search finds where it ends.
LEMMA FoundIsFirst ==
  ASSUME NEW S \in SUBSET Nat, S # {}, NEW p \in Nat
  PROVE  IsFirst(S, p, Found(S, p))
<1> DEFINE after == {h \in S : h >= p}
           T == IF after = {} THEN S ELSE after
<1>1. T \in SUBSET Nat /\ T # {} /\ T \subseteq S
  OBVIOUS
<1>2. Min(T) \in T /\ (\A g \in T : Min(T) <= g) /\ Min(T) \in Nat /\ Min(T) \in S
  BY <1>1, Smallest
<1>3. CASE after = {}
  <2>1. T = S /\ \A g \in S : ~(g >= p)
    BY <1>3
  <2>2. Found(S, p) = Min(S)
    BY <1>3 DEF Found
  <2> QED
    BY <1>2, <2>1, <2>2 DEF IsFirst
<1>4. CASE after # {}
  <2>1. T = after /\ Found(S, p) = Min(after)
    BY <1>4 DEF Found
  <2>2. Min(after) \in after /\ \A g \in after : Min(after) <= g
    BY <1>2, <2>1
  <2> QED
    BY <1>2, <2>1, <2>2 DEF IsFirst
<1> QED
  BY <1>3, <1>4

\* What Get looks up.
LEMMA GetIs ==
  ASSUME RingTypeOK, NEW k \in Keys
  PROVE  /\ (sortedHashes = {}) => Get(k) = NoNode
         /\ (sortedHashes # {}) => \E h \in sortedHashes : /\ IsFirst(sortedHashes, position[k], h)
                                                          /\ Get(k) = ring[h]
<1>1. sortedHashes \in SUBSET Nat /\ position[k] \in Nat
  BY RingAssumption DEF RingTypeOK
<1>2. /\ (sortedHashes = {}) => Get(k) = NoNode
      /\ (sortedHashes # {}) => Get(k) = ring[Found(sortedHashes, position[k])]
  BY Zenon DEF Get, Found
<1> QED
  BY <1>1, <1>2, FoundIsFirst DEF IsFirst

\* The same of the next state.
LEMMA NextGetIs ==
  ASSUME RingTypeOK', NEW k \in Keys
  PROVE  /\ (sortedHashes' = {}) => Get(k)' = NoNode
         /\ (sortedHashes' # {}) =>
              \E h \in sortedHashes' : IsFirst(sortedHashes', position'[k], h) /\ Get(k)' = ring'[h]
<1>1. sortedHashes' \in SUBSET Nat /\ position'[k] \in Nat
  BY RingAssumption DEF RingTypeOK
<1>2. /\ (sortedHashes' = {}) => Get(k)' = NoNode
      /\ (sortedHashes' # {}) => Get(k)' = ring'[Found(sortedHashes', position'[k])]
  BY Zenon DEF Get, Found
<1> QED
  BY <1>1, <1>2, FoundIsFirst DEF IsFirst

\* The invariant holds at first.
LEMMA RingAtFirst == RingInit => RingInv
BY RingAssumption DEF RingInit, RingInv, RingTypeOK

\* An added node that was not there gets its points, the others keep theirs.
LEMMA AddKeeps ==
  ASSUME RingInv, NEW n \in Nodes, Add(n) PROVE RingInv'
<1>0. RingTypeOK /\ NoNode \notin Nodes
  BY RingAssumption DEF RingInv
<1>1. UNCHANGED <<point, position>> /\ members' = members \cup {n}
  BY DEF Add
<1>2. \A m : PointsOf(m)' = PointsOf(m)
  BY <1>1 DEF PointsOf
<1>3. Distinct' <=> Distinct
  BY <1>1 DEF Distinct
<1>4. CASE Present(n) /\ UNCHANGED <<ring, sortedHashes>>
  <2>1. Distinct => \A h \in PointsOf(n) : ring[h] = n
    <3>1. PICK m \in members : ring[point[n, 0]] = m /\ point[n, 0] \in PointsOf(m)
      <4>1. point[n, 0] \in Hashes /\ ring[point[n, 0]] # NoNode
        BY <1>0, <1>4, Points DEF Present
      <4> DEFINE h == point[n, 0]
      <4> HIDE DEF h
      <4>2. ring[h] \in members /\ h \in PointsOf(ring[h])
        BY <4>1 DEF h, RingInv
      <4> QED
        BY <4>2 DEF h
    <3>2. m \in Nodes
      BY <1>0, <3>1 DEF RingTypeOK
    <3>3. Distinct => m = n
      BY <1>0, <3>1, <3>2, Points
    <3> QED
      BY <3>1, <3>3 DEF RingInv
  <2> QED
    BY <1>0, <1>1, <1>2, <1>3, <1>4, <2>1 DEF RingInv, RingTypeOK
<1>5. CASE /\ ~Present(n) /\ sortedHashes' = sortedHashes \cup PointsOf(n)
           /\ ring' = [h \in Hashes |-> IF h \in PointsOf(n) THEN n ELSE ring[h]]
  <2>1. RingTypeOK'
    BY <1>0, <1>1, <1>5, Points DEF RingTypeOK
  <2>2. \A h \in Hashes : /\ (ring'[h] # NoNode) <=> (h \in sortedHashes')
                          /\ (ring'[h] # NoNode) => (ring'[h] \in members' /\ h \in PointsOf(ring'[h]))
    BY <1>0, <1>1, <1>5 DEF RingInv
  <2>3. ASSUME Distinct, NEW m \in members', NEW h \in PointsOf(m) PROVE ring'[h] = m
    <3>1. m \in Nodes /\ h \in Hashes
      BY <1>0, <1>1, <2>3, Points DEF RingTypeOK
    <3>2. CASE m = n
      BY <1>5, <2>3, <3>1, <3>2
    <3>3. CASE m # n
      BY <1>0, <1>1, <1>5, <2>3, <3>1, <3>3, Points DEF RingInv
    <3> QED
      BY <3>2, <3>3
  <2> QED
    BY <1>2, <1>3, <2>1, <2>2, <2>3 DEF RingInv
<1> QED
  BY <1>4, <1>5 DEF Add

\* A removed node loses its points.
LEMMA RemoveKeeps ==
  ASSUME RingInv, NEW n \in Nodes, Remove(n) PROVE RingInv'
<1>0. RingTypeOK /\ NoNode \notin Nodes /\ sortedHashes \subseteq Hashes
  BY RingAssumption DEF RingInv, RingTypeOK
<1>1. /\ UNCHANGED <<point, position>> /\ members' = members \ {n}
      /\ ring' = [h \in Hashes |-> IF h \in PointsOf(n) THEN NoNode ELSE ring[h]]
      /\ sortedHashes' = {h \in sortedHashes : ring'[h] # NoNode}
  BY DEF Remove
<1>2. \A m : PointsOf(m)' = PointsOf(m)
  BY <1>1 DEF PointsOf
<1>3. Distinct' <=> Distinct
  BY <1>1 DEF Distinct
<1>4. RingTypeOK'
  BY <1>0, <1>1 DEF RingTypeOK
<1>5. \A h \in Hashes : /\ (ring'[h] # NoNode) <=> (h \in sortedHashes')
                        /\ (ring'[h] # NoNode) => (ring'[h] \in members' /\ h \in PointsOf(ring'[h]))
  BY <1>0, <1>1 DEF RingInv
<1>6. ASSUME Distinct, NEW m \in members', NEW h \in PointsOf(m) PROVE ring'[h] = m
  <2>1. m \in Nodes /\ h \in Hashes /\ m # n
    BY <1>0, <1>1, <1>6, Points DEF RingTypeOK
  <2>2. h \notin PointsOf(n) /\ ring[h] = m
    BY <1>0, <1>1, <1>6, <2>1, Points DEF RingInv
  <2> QED
    BY <1>1, <2>1, <2>2
<1> QED
  BY <1>2, <1>3, <1>4, <1>5, <1>6 DEF RingInv

\* The invariant holds always.
LEMMA RingInvariance == RingSpec => []RingInv
<1>1. RingInv /\ [RingNext]_ringVars => RingInv'
  <2> SUFFICES ASSUME RingInv, [RingNext]_ringVars PROVE RingInv'
    OBVIOUS
  <2>1. CASE RingNext
    BY <2>1, AddKeeps, RemoveKeeps DEF RingNext
  <2>2. CASE UNCHANGED ringVars
    <3>1. UNCHANGED <<point, position, ring, sortedHashes, members>>
      BY <2>2 DEF ringVars
    <3>2. (\A m : PointsOf(m)' = PointsOf(m)) /\ (Distinct' <=> Distinct)
      BY <3>1 DEF PointsOf, Distinct
    <3> QED
      BY <3>1, <3>2 DEF RingInv, RingTypeOK
  <2> QED
    BY <2>1, <2>2
<1> QED
  BY <1>1, RingAtFirst, PTL DEF RingSpec

\* The variables have their types.
THEOREM RingTypeCorrect == RingSpec => []RingTypeOK
<1>1. RingInv => RingTypeOK
  BY DEF RingInv
<1> QED
  BY <1>1, RingInvariance, PTL

\* Keys are routed to members (HashRing.Get after any Add and Remove), whatever
\* hashes collide, and to one as long as there is one, if none do.
THEOREM KeysFindMembers == RingSpec => []RoutedToMembers
<1>1. RingInv => RoutedToMembers
  <2> SUFFICES ASSUME RingInv, NEW k \in Keys
               PROVE  /\ Get(k) \in members \cup {NoNode}
                      /\ (Distinct /\ members # {}) => Get(k) \in members
    BY DEF RoutedToMembers
  <2>0. RingTypeOK /\ sortedHashes \subseteq Hashes /\ members \subseteq Nodes
    BY DEF RingInv, RingTypeOK
  <2>1. (sortedHashes # {}) => Get(k) \in members
    BY <2>0, GetIs DEF RingInv
  <2>2. ASSUME Distinct, NEW m \in members PROVE sortedHashes # {}
    <3>1. point[m, 0] \in Hashes /\ ring[point[m, 0]] = m /\ m # NoNode
      BY <2>0, <2>2, Points, RingAssumption DEF RingInv
    <3> QED
      BY <3>1 DEF RingInv
  <2> QED
    BY <2>0, <2>1, <2>2, GetIs
<1> QED
  BY <1>1, RingInvariance, PTL

\* A key moves only with its node (HashRing.Add, Remove): to the one that comes,
\* or from the one that goes, if no hashes collide.
THEOREM KeysOnlyMoveWithNodes == RingSpec => KeysMoveOnlyWithTheirNode
<1> DEFINE Moves == \A k \in Keys : Distinct /\ Get(k)' # Get(k) =>
                      Get(k)' \in members' \ members \/ Get(k) \in members \ members'
<1>1. RingInv /\ RingInv' /\ [RingNext]_ringVars => [Moves]_ringVars
  <2> SUFFICES ASSUME RingInv, RingInv', RingNext, NEW k \in Keys, Distinct, Get(k)' # Get(k)
               PROVE  Get(k)' \in members' \ members \/ Get(k) \in members \ members'
    OBVIOUS
  <2> DEFINE p == position[k]
  <2>0. /\ RingTypeOK /\ RingTypeOK' /\ sortedHashes \subseteq Hashes /\ sortedHashes' \subseteq Hashes
        /\ sortedHashes \in SUBSET Nat /\ sortedHashes' \in SUBSET Nat /\ position[k] \in Nat
        /\ members \subseteq Nodes /\ NoNode \notin Nodes
    BY RingAssumption DEF RingInv, RingTypeOK
  <2>1. ASSUME NEW n \in Nodes, Add(n) PROVE Get(k)' \in members' \ members
    <3>1. Get(k)' # Get(k) /\ ~Present(n) /\ members' = members \cup {n} /\ UNCHANGED <<point, position>>
      BY <2>1 DEF Add, Get
    <3>2. /\ ring' = [h \in Hashes |-> IF h \in PointsOf(n) THEN n ELSE ring[h]]
          /\ sortedHashes' = sortedHashes \cup PointsOf(n)
      BY <2>1, <3>1 DEF Add
    <3>3. PointsOf(n) \subseteq Hashes /\ point[n, 0] \in PointsOf(n) /\ n \notin members
      BY <2>0, <3>1, Points DEF RingInv, Present
    <3>4. PICK h \in sortedHashes' : IsFirst(sortedHashes', p, h) /\ Get(k)' = ring'[h]
      <4>1. sortedHashes' # {} /\ position' = position
        BY <3>1, <3>2, <3>3
      <4> QED
        BY <2>0, <4>1, NextGetIs
    <3>5. ASSUME h \notin PointsOf(n) PROVE FALSE
      <4>1. h \in sortedHashes /\ h \in Hashes /\ ring'[h] = ring[h]
        BY <2>0, <3>2, <3>5
      <4>2. IsFirst(sortedHashes, p, h)
        BY <2>0, <3>2, <3>4, <4>1, FirstStays
      <4>3. PICK g \in sortedHashes : IsFirst(sortedHashes, p, g) /\ Get(k) = ring[g]
        BY <2>0, <4>1, GetIs
      <4>4. g = h
        BY <2>0, <4>2, <4>3, FirstIsUnique
      <4> QED
        BY <3>1, <3>4, <4>1, <4>3, <4>4
    <3> QED
      BY <3>1, <3>2, <3>3, <3>4, <3>5
  <2>2. ASSUME NEW n \in Nodes, Remove(n) PROVE Get(k) \in members \ members'
    <3>1. /\ Get(k)' # Get(k) /\ members' = members \ {n} /\ UNCHANGED <<point, position>>
          /\ ring' = [h \in Hashes |-> IF h \in PointsOf(n) THEN NoNode ELSE ring[h]]
          /\ sortedHashes' = {h \in sortedHashes : ring'[h] # NoNode}
      BY <2>2 DEF Remove
    <3>2. CASE sortedHashes = {}
      <4>1. sortedHashes' = {} /\ RingTypeOK'
        BY <2>0, <3>1, <3>2
      <4> QED
        BY <2>0, <3>1, <3>2, <4>1, GetIs, NextGetIs
    <3>3. CASE sortedHashes # {}
      <4>1. PICK h \in sortedHashes : IsFirst(sortedHashes, p, h) /\ Get(k) = ring[h]
        BY <2>0, <3>3, GetIs
      <4>2. h \in Hashes /\ ring[h] # NoNode /\ ring[h] \in members /\ h \in PointsOf(ring[h])
        BY <2>0 DEF RingInv
      <4>3. CASE h \in PointsOf(n)
        BY <2>0, <3>1, <4>1, <4>2, <4>3, Points
      <4>4. CASE h \notin PointsOf(n)
        <5>1. ring'[h] = ring[h] /\ h \in sortedHashes'
          BY <3>1, <4>2, <4>4
        <5>2. IsFirst(sortedHashes', p, h)
          BY <2>0, <3>1, <4>1, <5>1, FirstStays
        <5>3. PICK g \in sortedHashes' : IsFirst(sortedHashes', p, g) /\ Get(k)' = ring'[g]
          BY <2>0, <3>1, <5>1, NextGetIs
        <5>4. g = h
          BY <2>0, <5>2, <5>3, FirstIsUnique
        <5> QED
          BY <3>1, <4>1, <5>1, <5>3, <5>4
      <4> QED
        BY <4>3, <4>4
    <3> QED
      BY <3>2, <3>3
  <2> QED
    BY <2>1, <2>2 DEF RingNext
<1> QED
  BY <1>1, RingInvariance, PTL DEF RingSpec, KeysMoveOnlyWithTheirNode
-----------------------------------------------------------------------------
(* Queues. *)

\* what Append makes of a queue
LEMMA AppendIs ==
  \A q \in Seq(MessageIds), e \in MessageIds :
    /\ Append(q, e) \in Seq(MessageIds)
    /\ Len(Append(q, e)) = Len(q) + 1 /\ Len(q) \in Nat
    /\ Elements(Append(q, e)) = Elements(q) \cup {e}
    /\ Append(q, e) = q \o <<e>>
<1> TAKE q \in Seq(MessageIds), e \in MessageIds
<1>1. /\ Append(q, e) \in Seq(MessageIds) /\ Len(Append(q, e)) = Len(q) + 1
      /\ \A i \in 1..Len(q) : Append(q, e)[i] = q[i]
      /\ Append(q, e)[Len(q) + 1] = e
  BY AppendProperties
<1>2. Len(q) \in Nat /\ DOMAIN q = 1..Len(q) /\ DOMAIN Append(q, e) = 1..(Len(q) + 1)
  BY <1>1, LenProperties
<1>3. Elements(Append(q, e)) = Elements(q) \cup {e}
  BY <1>1, <1>2 DEF Elements
<1>4. Append(q, e) = q \o <<e>>
  BY AppendIsConcat
<1> QED BY <1>1, <1>2, <1>3, <1>4

\* what Head and Tail make of a queue
LEMMA TailIs ==
  ASSUME NEW S, NEW q \in Seq(S), q # <<>>
  PROVE  /\ Head(q) \in S /\ Tail(q) \in Seq(S)
         /\ Len(q) \in Nat \ {0} /\ Len(Tail(q)) = Len(q) - 1
         /\ Head(q) = q[1] /\ \A i \in 1..(Len(q) - 1) : Tail(q)[i] = q[i + 1]
         /\ Elements(q) = {Head(q)} \cup Elements(Tail(q))
         /\ q = <<Head(q)>> \o Tail(q)
<1>1. /\ Head(q) \in S /\ Tail(q) \in Seq(S) /\ Len(Tail(q)) = Len(q) - 1
      /\ \A i \in 1..Len(Tail(q)) : Tail(q)[i] = q[i + 1]
  BY HeadTailProperties
<1>2. Len(q) \in Nat \ {0} /\ DOMAIN q = 1..Len(q) /\ DOMAIN Tail(q) = 1..(Len(q) - 1)
  BY <1>1, LenProperties, EmptySeq
<1>3. Head(q) = q[1]
  OBVIOUS
<1>4. Elements(q) = {Head(q)} \cup Elements(Tail(q))
  <2>1. ASSUME NEW i \in 1..Len(q) PROVE q[i] \in {Head(q)} \cup Elements(Tail(q))
    <3>1. CASE i = 1
      BY <3>1, <1>3
    <3>2. CASE i # 1
      <4>1. i - 1 \in 1..(Len(q) - 1) /\ q[i] = Tail(q)[i - 1]
        BY <3>2, <1>1, <1>2
      <4> QED BY <4>1, <1>2 DEF Elements
    <3> QED BY <3>1, <3>2
  <2>2. ASSUME NEW i \in 1..(Len(q) - 1) PROVE Tail(q)[i] \in Elements(q)
    BY <1>1, <1>2 DEF Elements
  <2>3. Head(q) \in Elements(q)
    BY <1>2, <1>3 DEF Elements
  <2> QED BY <2>1, <2>2, <2>3, <1>2 DEF Elements
<1>5. q = <<Head(q)>> \o Tail(q)
  <2>1. <<Head(q)>> \in Seq(S) /\ Len(<<Head(q)>>) = 1 /\ <<Head(q)>>[1] = Head(q)
    BY <1>1
  <2> DEFINE p == <<Head(q)>>
  <2>2. /\ p \o Tail(q) \in Seq(S) /\ Len(p \o Tail(q)) = 1 + (Len(q) - 1)
        /\ \A i \in 1..(1 + (Len(q) - 1)) : (p \o Tail(q))[i] = IF i <= 1 THEN p[i] ELSE Tail(q)[i - 1]
    BY <1>1, <2>1, ConcatProperties
  <2>3. ASSUME NEW i \in 1..Len(q) PROVE q[i] = (p \o Tail(q))[i]
    <3>1. CASE i = 1
      BY <3>1, <2>1, <2>2, <1>2, <1>3
    <3>2. CASE i # 1
      BY <3>2, <2>2, <1>1, <1>2
    <3> QED BY <3>1, <3>2
  <2> HIDE DEF p
  <2>4. Len(p \o Tail(q)) = Len(q)
    BY <2>2, <1>2
  <2>5. q = p \o Tail(q)
    BY <2>2, <2>3, <2>4, SeqEqual
  <2> QED BY <2>5 DEF p
<1> QED BY <1>1, <1>2, <1>3, <1>4, <1>5

\* a queue that holds nothing twice is as long as the set of its elements
LEMMA OnceEach ==
  ASSUME NEW S, NEW q \in Seq(S), \A i, j \in DOMAIN q : q[i] = q[j] => i = j
  PROVE  IsFiniteSet(Elements(q)) /\ Cardinality(Elements(q)) = Len(q)
<1> DEFINE f == [i \in 1..Len(q) |-> q[i]]
<1>1. Len(q) \in Nat /\ DOMAIN q = 1..Len(q)
  BY LenProperties
<1>2. f \in Bijection(1..Len(q), Elements(q))
  BY <1>1 DEF Elements, Bijection, Injection, Surjection, IsInjective
<1>3. ExistsBijection(1..Len(q), Elements(q))
  BY <1>2 DEF ExistsBijection
<1>4. IsFiniteSet(1..Len(q)) /\ Cardinality(1..Len(q)) = Len(q)
  BY <1>1, FS_Interval
<1> QED BY <1>3, <1>4, FS_Bijection

\* sets of messages are finite
LEMMA FewMessages ==
  ASSUME NEW A \in SUBSET MessageIds
  PROVE  IsFiniteSet(A) /\ Cardinality(A) \in Nat
<1>1. IsFiniteSet(MessageIds)
  BY FS_Interval, MailboxAssumption DEF MessageIds
<1> QED BY <1>1, FS_Subset, FS_CardinalityType

-----------------------------------------------------------------------------
(* Types, and which fields a kind of mailbox uses. *)

Kinds == {"bounded", "unbounded", "priority"}
Places == {"none", "waiting", "sending", "popping", "popping last", "ended"}
ProcRecord == [at : Places, queue : Seq(MessageIds), hand : MessageIds \cup {NoMessage}]
SenderRecord == [at : {"idle", "sending", "panicked"}, msg : MessageIds \cup {NoMessage}]

\* only senders of the unbounded mailbox stop between the check and the send,
\* only the priority mailbox pops, and the bounded one has no process
Tidy ==
  /\ \A s \in Senders :
       sender[s].at = "sending" => (kind = "unbounded" /\ sender[s].msg \in MessageIds)
  /\ kind # "priority" => (proc.at \notin {"popping", "popping last"} /\ proc.hand = NoMessage)
  /\ kind = "bounded" => (proc.queue = <<>>)

Typed == BoxTypeOK /\ Tidy

\* the initial state has its types
LEMMA TypedInit == BoxInit => Typed
<1> SUFFICES ASSUME BoxInit PROVE Typed
  OBVIOUS
<1>1. <<>> \in Seq(MessageIds)
  OBVIOUS
<1>2. proc \in ProcRecord /\ proc.hand = NoMessage /\ proc.queue = <<>> /\ proc.at \in {"none", "waiting"}
  <2>1. PICK at \in {"none", "waiting"} : proc = [at |-> at, queue |-> <<>>, hand |-> NoMessage]
    BY DEF BoxInit
  <2> QED BY <1>1, <2>1 DEF ProcRecord, Places
<1>3. sender \in [Senders -> SenderRecord] /\ \A s \in Senders : sender[s].at = "idle"
  BY DEF BoxInit, Idle, SenderRecord
<1>4. kind \in Kinds /\ closed \in BOOLEAN /\ signal \in BOOLEAN
  BY Zenon DEF BoxInit, Kinds
<1>5. calls \in 0..MaxMessages
  BY MailboxAssumption DEF BoxInit
<1>6. passed \in [MessageIds -> Nat]
  BY DEF BoxInit
<1>7. /\ in \in Seq(MessageIds) /\ out \in Seq(MessageIds) /\ heap \subseteq MessageIds
      /\ accepted \in Seq(MessageIds) /\ delivered \in Seq(MessageIds)
  BY <1>1 DEF BoxInit
<1>8. BoxTypeOK
  BY <1>2, <1>3, <1>4, <1>5, <1>6, <1>7 DEF BoxTypeOK, ProcRecord, Places, SenderRecord, Kinds
<1>9. Tidy
  BY <1>2, <1>3 DEF Tidy
<1> QED BY <1>8, <1>9 DEF Typed

\* a call of Enqueue has the next number
LEMMA CalledIs ==
  ASSUME Typed, NEW s \in Senders, NEW k, Called(s, k)
  PROVE  calls' \in MessageIds /\ calls' \in 0..MaxMessages /\ calls' = calls + 1 /\ calls \in Nat
<1>1. calls \in 0..MaxMessages /\ calls < MaxMessages /\ calls' = calls + 1
  BY DEF Typed, BoxTypeOK, Called
<1> QED BY <1>1, MailboxAssumption DEF MessageIds

\* Enqueue and Close keep the types
LEMMA TypedEnqueue ==
  ASSUME Typed, NEW s \in Senders,
         \/ BoundedEnqueue(s) \/ UnboundedEnqueue(s) \/ UnboundedSend(s) \/ PriorityEnqueue(s)
  PROVE  Typed'
<1> USE DEF Typed
<1>0. in \in Seq(MessageIds) /\ accepted \in Seq(MessageIds) /\ heap \subseteq MessageIds
  BY DEF BoxTypeOK
<1>1. CASE BoundedEnqueue(s)
  <2>1. calls' \in MessageIds /\ calls' \in 0..MaxMessages
    BY <1>1, CalledIs DEF BoundedEnqueue
  <2>2. in' \in Seq(MessageIds) /\ accepted' \in Seq(MessageIds)
    <3>1. Append(in, calls') \in Seq(MessageIds) /\ Append(accepted, calls') \in Seq(MessageIds)
      BY <1>0, <2>1, AppendIs
    <3>2. /\ in' = in \/ in' = Append(in, calls')
          /\ accepted' = accepted \/ accepted' = Append(accepted, calls')
      BY <1>1 DEF BoundedEnqueue, Refused
    <3> QED BY <1>0, <3>1, <3>2
  <2>3. UNCHANGED <<kind, closed, proc, out, delivered, passed, heap, signal, sender>>
    BY <1>1 DEF BoundedEnqueue, Refused
  <2> QED BY <2>1, <2>2, <2>3 DEF BoxTypeOK, Tidy
<1>2. CASE UnboundedEnqueue(s)
  <2>1. calls' \in MessageIds /\ calls' \in 0..MaxMessages
    BY <1>2, CalledIs DEF UnboundedEnqueue
  <2>2. UNCHANGED <<kind, closed, proc, out, delivered, passed, in, heap, signal, accepted>>
    BY <1>2 DEF UnboundedEnqueue, Refused
  <2>3. /\ sender' \in [Senders -> SenderRecord]
        /\ \A t \in Senders : sender'[t] = sender[t] \/ sender'[t].msg \in MessageIds
    <3>1. CASE sender' = sender
      BY <3>1 DEF BoxTypeOK, SenderRecord
    <3>2. CASE sender' = [sender EXCEPT ![s] = [at |-> "sending", msg |-> calls']]
      BY <3>2, <2>1 DEF BoxTypeOK, SenderRecord
    <3> QED BY <1>2, <3>1, <3>2 DEF UnboundedEnqueue, Refused
  <2>4. kind = "unbounded"
    BY <1>2 DEF UnboundedEnqueue, Called
  <2> QED BY <2>1, <2>2, <2>3, <2>4 DEF BoxTypeOK, Tidy, SenderRecord
<1>3. CASE UnboundedSend(s)
  <2>1. UNCHANGED <<kind, closed, heap, signal, proc, out, calls, delivered, passed>>
    BY <1>3 DEF UnboundedSend
  <2>2. sender[s].msg \in MessageIds
    BY <1>3 DEF UnboundedSend, Tidy
  <2>3. in' \in Seq(MessageIds) /\ accepted' \in Seq(MessageIds)
    <3>1. Append(in, sender[s].msg) \in Seq(MessageIds) /\ Append(accepted, sender[s].msg) \in Seq(MessageIds)
      BY <1>0, <2>2, AppendIs
    <3>2. /\ in' = in \/ in' = Append(in, sender[s].msg)
          /\ accepted' = accepted \/ accepted' = Append(accepted, sender[s].msg)
      BY <1>3 DEF UnboundedSend
    <3> QED BY <1>0, <3>1, <3>2
  <2>4. /\ sender' \in [Senders -> SenderRecord]
        /\ \A t \in Senders : sender'[t] = sender[t] \/ sender'[t].at # "sending"
    <3>1. CASE sender' = [sender EXCEPT ![s].at = "panicked"]
      <4> DEFINE r == [sender[s] EXCEPT !.at = "panicked"]
      <4>1. sender' = [sender EXCEPT ![s] = r]
        BY <3>1, Zenon
      <4>2. r \in SenderRecord /\ r.at = "panicked"
        BY DEF BoxTypeOK, SenderRecord
      <4> HIDE DEF r
      <4> QED BY <4>1, <4>2 DEF BoxTypeOK, SenderRecord
    <3>2. CASE sender' = [sender EXCEPT ![s] = Idle]
      BY <3>2 DEF BoxTypeOK, SenderRecord, Idle
    <3> QED BY <1>3, <3>1, <3>2 DEF UnboundedSend
  <2> QED BY <2>1, <2>3, <2>4 DEF BoxTypeOK, Tidy, SenderRecord
<1>4. CASE PriorityEnqueue(s)
  <2>1. calls' \in MessageIds /\ calls' \in 0..MaxMessages
    BY <1>4, CalledIs DEF PriorityEnqueue
  <2>2. UNCHANGED <<kind, closed, proc, out, delivered, passed, in, sender>>
    BY <1>4 DEF PriorityEnqueue, Refused
  <2>3. accepted' \in Seq(MessageIds) /\ heap' \subseteq MessageIds
    <3>1. Append(accepted, calls') \in Seq(MessageIds)
      BY <1>0, <2>1, AppendIs
    <3>2. /\ accepted' = accepted \/ accepted' = Append(accepted, calls')
          /\ heap' = heap \/ heap' = heap \cup {calls'}
      BY <1>4 DEF PriorityEnqueue, Refused
    <3> QED BY <1>0, <2>1, <3>1, <3>2
  <2>4. signal' \in BOOLEAN
    BY <1>4 DEF PriorityEnqueue, Refused, BoxTypeOK
  <2> QED BY <2>1, <2>2, <2>3, <2>4 DEF BoxTypeOK, Tidy
<1> QED BY <1>1, <1>2, <1>3, <1>4

\* process and the owner keep the types
LEMMA TypedServe ==
  ASSUME Typed, Process \/ Owner
  PROVE  Typed'
<1> USE DEF Typed
<1>0. proc \in ProcRecord
  BY DEF BoxTypeOK, ProcRecord, Places
<1>1. CASE Store
  <2>1. Head(in) \in MessageIds /\ Tail(in) \in Seq(MessageIds)
    BY <1>1, TailIs DEF Store, BoxTypeOK
  <2>2. Append(proc.queue, Head(in)) \in Seq(MessageIds)
    BY <1>0, <2>1, AppendIs DEF ProcRecord
  <2>3. proc' \in ProcRecord /\ proc'.at = proc.at /\ proc'.hand = proc.hand
    BY <1>0, <1>1, <2>2 DEF Store, ProcRecord
  <2> QED BY <1>1, <2>1, <2>3 DEF Store, BoxTypeOK, Tidy, ProcRecord, Places
<1>2. CASE SeeClosed \/ ProcessEnds
  <2>1. proc' \in ProcRecord /\ proc'.at \in {"sending", "ended"} /\ proc'.hand = proc.hand
    BY <1>0, <1>2 DEF SeeClosed, ProcessEnds, ProcRecord, Places
  <2> QED BY <1>2, <2>1 DEF SeeClosed, ProcessEnds, BoxTypeOK, Tidy, ProcRecord, Places
<1>3. CASE Wake
  <2>1. proc' \in ProcRecord
    BY <1>0, <1>3 DEF Wake, ProcRecord, Places
  <2> QED BY <1>3, <2>1 DEF Wake, BoxTypeOK, Tidy, ProcRecord, Places
<1>4. CASE Pop
  <2>1. kind = "priority"
    BY <1>4 DEF Pop, Popping, Tidy, BoxTypeOK
  <2>2. proc' \in ProcRecord /\ heap' \subseteq MessageIds
    BY <1>0, <1>4 DEF Pop, ProcRecord, BoxTypeOK
  <2> QED BY <1>4, <2>1, <2>2 DEF Pop, BoxTypeOK, Tidy, ProcRecord, Places
<1>5. CASE PutOut
  <2>1. proc.hand \in MessageIds
    BY <1>0, <1>5 DEF PutOut, ProcRecord
  <2>2. out' \in Seq(MessageIds)
    BY <1>5, <2>1, AppendIs DEF PutOut, BoxTypeOK
  <2>3. proc' \in ProcRecord /\ proc'.at = proc.at /\ proc'.queue = proc.queue /\ proc'.hand = NoMessage
    BY <1>0, <1>5 DEF PutOut, ProcRecord
  <2> QED BY <1>5, <2>2, <2>3 DEF PutOut, BoxTypeOK, Tidy, ProcRecord, Places
<1>6. CASE PoppedAll
  <2>1. kind = "priority"
    BY <1>6 DEF PoppedAll, Popping, Tidy, BoxTypeOK
  <2>2. proc' \in ProcRecord
    BY <1>0, <1>6 DEF PoppedAll, ProcRecord, Places
  <2> QED BY <1>6, <2>1, <2>2 DEF PoppedAll, BoxTypeOK, Tidy, ProcRecord, Places
<1>7. ASSUME NEW m \in MessageIds, Read(m)
      PROVE  delivered' \in Seq(MessageIds) /\ passed' \in [MessageIds -> Nat]
  <2>1. delivered' \in Seq(MessageIds)
    BY <1>7, AppendIs DEF Read, BoxTypeOK
  <2>2. passed \in [MessageIds -> Nat]
    BY DEF BoxTypeOK
  <2>3. passed' = [u \in MessageIds |-> IF u \in Waiting(m) THEN passed[u] + 1 ELSE passed[u]]
    BY <1>7 DEF Read
  <2> QED BY <2>1, <2>2, <2>3
<1>8. CASE ReadBounded
  <2>1. Head(in) \in MessageIds /\ Tail(in) \in Seq(MessageIds)
    BY <1>8, TailIs DEF ReadBounded, BoxTypeOK
  <2> QED BY <1>7, <1>8, <2>1 DEF ReadBounded, Read, BoxTypeOK, Tidy
<1>9. CASE ReadUnbounded
  <2>1. Head(proc.queue) \in MessageIds /\ Tail(proc.queue) \in Seq(MessageIds)
    BY <1>0, <1>9, TailIs DEF ReadUnbounded, ProcRecord
  <2>2. proc' \in ProcRecord /\ proc'.at = proc.at /\ proc'.hand = proc.hand
    BY <1>0, <1>9, <2>1 DEF ReadUnbounded, ProcRecord
  <2> QED BY <1>7, <1>9, <2>1, <2>2 DEF ReadUnbounded, Read, BoxTypeOK, Tidy, ProcRecord, Places
<1>10. CASE ReadPriority
  <2>1. Head(out) \in MessageIds /\ Tail(out) \in Seq(MessageIds)
    BY <1>10, TailIs DEF ReadPriority, BoxTypeOK
  <2> QED BY <1>7, <1>10, <2>1 DEF ReadPriority, Read, BoxTypeOK, Tidy
<1> QED BY <1>1, <1>2, <1>3, <1>4, <1>5, <1>6, <1>8, <1>9, <1>10 DEF Process, Owner

\* every step keeps the types
LEMMA TypedStep == Typed /\ [BoxNext]_boxVars => Typed'
<1> SUFFICES ASSUME Typed, [BoxNext]_boxVars PROVE Typed'
  OBVIOUS
<1>1. CASE Close
  BY <1>1 DEF Close, Typed, BoxTypeOK, Tidy
<1>2. CASE UNCHANGED boxVars
  BY <1>2 DEF boxVars, Typed, BoxTypeOK, Tidy
<1> QED BY <1>1, <1>2, TypedEnqueue, TypedServe DEF BoxNext

\* The variables have their types, whatever the senders and the owner do.
THEOREM BoxTypeCorrect == BoxSpec => []BoxTypeOK
<1>1. Typed => BoxTypeOK
  BY DEF Typed
<1> QED BY <1>1, TypedInit, TypedStep, PTL DEF BoxSpec

-----------------------------------------------------------------------------
(* The bounded and the unbounded mailbox: first in, first out. *)

InOrder == kind # "priority" => (accepted = delivered \o proc.queue \o in)

Ids == Seq(MessageIds)

\* a message accepted goes to the end
LEMMA OrderAccept ==
  ASSUME NEW d \in Ids, NEW q \in Ids, NEW i \in Ids, NEW m \in MessageIds
  PROVE  Append(d \o q \o i, m) = d \o q \o Append(i, m)
<1> USE DEF Ids
<1> DEFINE e == <<m>>
<1>1. e \in Seq(MessageIds)
  OBVIOUS
<1>2. (d \o q) \in Seq(MessageIds) /\ ((d \o q) \o i) \in Seq(MessageIds)
  BY ConcatProperties
<1>3. Append(d \o q \o i, m) = ((d \o q) \o i) \o e /\ Append(i, m) = i \o e
  BY <1>2, AppendIs
<1> HIDE DEF e
<1>4. ((d \o q) \o i) \o e = (d \o q) \o (i \o e)
  BY <1>1, <1>2, ConcatAssociative
<1> QED BY <1>3, <1>4

\* the head of the channel goes to the end of process's queue
LEMMA OrderStore ==
  ASSUME NEW d \in Ids, NEW q \in Ids, NEW i \in Ids, i # <<>>
  PROVE  d \o q \o i = d \o Append(q, Head(i)) \o Tail(i)
<1> USE DEF Ids
<1> DEFINE e == <<Head(i)>>
           t == Tail(i)
<1>1. e \in Seq(MessageIds) /\ t \in Seq(MessageIds) /\ i = e \o t /\ Append(q, Head(i)) = q \o e
  BY TailIs, AppendIs
<1> HIDE DEF e, t
<1>2. (d \o q) \in Seq(MessageIds)
  BY ConcatProperties
<1>3. ((d \o q) \o e) \o t = (d \o q) \o (e \o t)
  BY <1>1, <1>2, ConcatAssociative
<1>4. (d \o q) \o e = d \o (q \o e)
  BY <1>1, ConcatAssociative
<1> QED BY <1>1, <1>3, <1>4 DEF t

\* the head of process's queue is read
LEMMA OrderRead ==
  ASSUME NEW d \in Ids, NEW q \in Ids, NEW i \in Ids, q # <<>>
  PROVE  d \o q \o i = Append(d, Head(q)) \o Tail(q) \o i
<1> USE DEF Ids
<1> DEFINE e == <<Head(q)>>
           t == Tail(q)
<1>1. e \in Seq(MessageIds) /\ t \in Seq(MessageIds) /\ q = e \o t /\ Append(d, Head(q)) = d \o e
  BY TailIs, AppendIs
<1> HIDE DEF e, t
<1>2. d \o (e \o t) = (d \o e) \o t
  <2>1. d \in Seq(MessageIds) /\ e \in Seq(MessageIds) /\ t \in Seq(MessageIds)
    BY <1>1
  <2> HIDE DEF Ids
  <2>2. (d \o e) \o t = d \o (e \o t)
    BY <2>1, ConcatAssociative
  <2> QED BY <2>2
<1> QED BY <1>1, <1>2 DEF t

\* the queue and the channel, one behind the other, lose their head
LEMMA OrderReadBounded ==
  ASSUME NEW d \in Ids, NEW i \in Ids, i # <<>>
  PROVE  d \o <<>> \o i = Append(d, Head(i)) \o <<>> \o Tail(i)
<1> USE DEF Ids
<1> DEFINE e == <<Head(i)>>
           t == Tail(i)
<1>1. e \in Seq(MessageIds) /\ t \in Seq(MessageIds) /\ i = e \o t /\ Append(d, Head(i)) = d \o e
  BY TailIs, AppendIs
<1> HIDE DEF e, t
<1>2. (d \o e) \in Seq(MessageIds)
  BY <1>1, ConcatProperties
<1>3. d \o <<>> = d /\ (d \o e) \o <<>> = d \o e
  BY <1>2, ConcatEmptySeq
<1>4. d \o (e \o t) = (d \o e) \o t
  BY <1>1, ConcatAssociative
<1> QED BY <1>1, <1>3, <1>4 DEF t

\* nothing has been accepted
LEMMA InOrderInit == BoxInit => InOrder
<1> SUFFICES ASSUME BoxInit PROVE InOrder
  OBVIOUS
<1>1. in = <<>> /\ accepted = <<>> /\ delivered = <<>> /\ proc.queue = <<>>
  BY DEF BoxInit
<1>2. <<>> \o <<>> = <<>>
  OBVIOUS
<1> QED BY <1>1, <1>2 DEF InOrder

\* every step keeps what is accepted, in the order of its acceptance
LEMMA InOrderStep == Typed /\ InOrder /\ [BoxNext]_boxVars => InOrder'
<1> SUFFICES ASSUME Typed, InOrder, [BoxNext]_boxVars, kind # "priority" PROVE InOrder'
  BY DEF InOrder, BoxNext, Process, Owner, BoundedEnqueue, UnboundedEnqueue, UnboundedSend,
         PriorityEnqueue, Close, Store, SeeClosed, ProcessEnds, Wake, Pop, PutOut, PoppedAll,
         ReadBounded, ReadUnbounded, ReadPriority, Read, boxVars
<1>0. in \in Ids /\ delivered \in Ids /\ proc.queue \in Ids /\ accepted = delivered \o proc.queue \o in
  BY DEF Typed, BoxTypeOK, InOrder, Ids
<1>1. ASSUME UNCHANGED <<in, proc, delivered, accepted>> PROVE InOrder'
  BY <1>0, <1>1 DEF InOrder
<1>2. ASSUME NEW m \in MessageIds, in' = Append(in, m), accepted' = Append(accepted, m),
             UNCHANGED <<proc, delivered>>
      PROVE  InOrder'
  BY <1>0, <1>2, OrderAccept DEF InOrder
<1>3. ASSUME NEW s \in Senders, BoundedEnqueue(s) PROVE InOrder'
  <2>1. calls' \in MessageIds
    BY <1>3, CalledIs DEF BoundedEnqueue
  <2> QED BY <1>1, <1>2, <1>3, <2>1 DEF BoundedEnqueue, Refused
<1>4. ASSUME NEW s \in Senders, UnboundedSend(s) PROVE InOrder'
  <2>1. sender[s].msg \in MessageIds
    BY <1>4 DEF UnboundedSend, Typed, Tidy
  <2> QED BY <1>1, <1>2, <1>4, <2>1 DEF UnboundedSend
<1>5. CASE Store
  <2>1. in # <<>> /\ in' = Tail(in) /\ UNCHANGED <<delivered, accepted>>
    BY <1>5 DEF Store
  <2>2. proc'.queue = Append(proc.queue, Head(in))
    <3>1. proc \in ProcRecord
      BY DEF Typed, BoxTypeOK, ProcRecord, Places
    <3> QED BY <1>5, <3>1 DEF Store, ProcRecord
  <2>3. accepted = delivered \o Append(proc.queue, Head(in)) \o Tail(in)
    BY <1>0, <2>1, OrderStore
  <2> QED BY <2>1, <2>2, <2>3 DEF InOrder
<1>6. CASE ReadUnbounded
  <2>1. /\ proc.queue # <<>> /\ delivered' = Append(delivered, Head(proc.queue))
        /\ UNCHANGED <<in, accepted>>
    BY <1>6 DEF ReadUnbounded, Read
  <2>2. proc'.queue = Tail(proc.queue)
    <3>1. proc \in ProcRecord
      BY DEF Typed, BoxTypeOK, ProcRecord, Places
    <3> QED BY <1>6, <3>1 DEF ReadUnbounded, ProcRecord
  <2>3. accepted = Append(delivered, Head(proc.queue)) \o Tail(proc.queue) \o in
    BY <1>0, <2>1, OrderRead
  <2> QED BY <2>1, <2>2, <2>3 DEF InOrder
<1>7. CASE ReadBounded
  <2>1. /\ in # <<>> /\ delivered' = Append(delivered, Head(in)) /\ in' = Tail(in)
        /\ UNCHANGED <<proc, accepted>>
    BY <1>7 DEF ReadBounded, Read
  <2>2. proc.queue = <<>>
    BY <1>7 DEF ReadBounded, Typed, Tidy
  <2> QED BY <1>0, <2>1, <2>2, OrderReadBounded DEF InOrder
<1>8. CASE SeeClosed \/ ProcessEnds
  <2>1. UNCHANGED <<in, delivered, accepted>>
    BY <1>8 DEF SeeClosed, ProcessEnds
  <2>2. proc'.queue = proc.queue
    <3>1. proc \in ProcRecord
      BY DEF Typed, BoxTypeOK, ProcRecord, Places
    <3> QED BY <1>8, <3>1 DEF SeeClosed, ProcessEnds, ProcRecord
  <2> QED BY <1>0, <2>1, <2>2 DEF InOrder
<1>9. ASSUME NEW s \in Senders, UnboundedEnqueue(s) PROVE InOrder'
  BY <1>1, <1>9 DEF UnboundedEnqueue, Refused
<1>10. CASE Close \/ UNCHANGED boxVars
  BY <1>1, <1>10 DEF Close, boxVars
<1>11. ~Wake /\ ~Pop /\ ~PutOut /\ ~PoppedAll /\ ~ReadPriority
  BY DEF Wake, Pop, PutOut, PoppedAll, ReadPriority, Popping, Typed, Tidy
<1>12. \A s \in Senders : ~PriorityEnqueue(s)
  BY DEF PriorityEnqueue, Called
<1> QED
  BY <1>3, <1>4, <1>5, <1>6, <1>7, <1>8, <1>9, <1>10, <1>11, <1>12 DEF BoxNext, Process, Owner

-----------------------------------------------------------------------------
(* The priority mailbox: nothing is lost, and urgent messages are overtaken  *)
(* by no more than what stood before them when they came.                    *)

\* n is in q, and m is not in q before it
Precedes(q, n, m) == \E i \in DOMAIN q : q[i] = n /\ \A j \in 1..i : q[j] # m

\* the messages that are not urgent and will be read before m is
Ahead(m) ==
  {n \in MessageIds \ Urgent : (n = proc.hand /\ m \in heap) \/ Precedes(out, n, m)}

Bound(m) ==
  /\ passed[m] <= OutCap + 1
  /\ m \notin Elements(accepted) => (passed[m] = 0)
  /\ m \in UnderWay => (passed[m] + Cardinality(Ahead(m)) <= OutCap + 1)

\* a message is in one place
Apart ==
  /\ heap \cap Elements(out) = {}
  /\ proc.hand # NoMessage => (proc.hand \notin heap \cup Elements(out))
  /\ \A i, j \in DOMAIN out : out[i] = out[j] => i = j

Known == Elements(accepted) = Elements(delivered) \cup UnderWay
Counted == Len(accepted) = Len(delivered) + Cardinality(UnderWay)
Numbered == Elements(accepted) \subseteq 1..calls
Bounds == \A m \in Urgent \cap MessageIds : Bound(m)

Held == Apart /\ Known /\ Counted /\ Numbered /\ Len(out) <= OutCap /\ Bounds

\* a queue holds messages
LEMMA ElementsAre ==
  ASSUME NEW q \in Seq(MessageIds)
  PROVE  Elements(q) \subseteq MessageIds /\ Len(q) \in Nat /\ DOMAIN q = 1..Len(q)
BY LenProperties, ElementOfSeq DEF Elements

Finite ==
  /\ UnderWay \subseteq MessageIds /\ IsFiniteSet(UnderWay) /\ Cardinality(UnderWay) \in Nat
  /\ \A m \in MessageIds : /\ Ahead(m) \subseteq MessageIds /\ IsFiniteSet(Ahead(m))
                           /\ Cardinality(Ahead(m)) \in Nat

\* the sets of messages the invariant speaks of are finite
LEMMA HeldFinite == Typed => Finite
<1> SUFFICES ASSUME Typed PROVE Finite
  OBVIOUS
<1>1. out \in Seq(MessageIds) /\ heap \subseteq MessageIds /\ proc.hand \in MessageIds \cup {NoMessage}
  BY DEF Typed, BoxTypeOK
<1>2. UnderWay \subseteq MessageIds
  BY <1>1, ElementsAre DEF UnderWay
<1>3. \A m \in MessageIds : Ahead(m) \subseteq MessageIds
  BY DEF Ahead
<1> QED BY <1>2, <1>3, FewMessages DEF Finite

\* a bound is kept when m is not passed and nothing gets before it
LEMMA BoundKept ==
  ASSUME Typed, Typed', NEW m \in Urgent \cap MessageIds, Bound(m),
         passed'[m] = passed[m], accepted' = accepted,
         m \in UnderWay' => (m \in UnderWay /\ Ahead(m)' \subseteq Ahead(m))
  PROVE  Bound(m)'
<1>1. passed[m] \in Nat
  BY DEF Typed, BoxTypeOK
<1>2. Finite /\ Finite'
  <2>1. Typed' => Finite'
    BY HeldFinite, PTL
  <2> QED BY <2>1, HeldFinite
<1>3. m \in UnderWay' => (Cardinality(Ahead(m)') <= Cardinality(Ahead(m)))
  BY <1>2, FS_Subset DEF Finite
<1>4. Cardinality(Ahead(m)) \in Nat /\ Cardinality(Ahead(m)') \in Nat
  BY <1>2 DEF Finite
<1> QED BY <1>1, <1>3, <1>4, MailboxAssumption DEF Bound

\* nothing has been accepted
LEMMA HeldInit == BoxInit => Held
<1> SUFFICES ASSUME BoxInit PROVE Held
  OBVIOUS
<1>1. /\ heap = {} /\ out = <<>> /\ accepted = <<>> /\ delivered = <<>> /\ proc.hand = NoMessage
      /\ \A m \in MessageIds : passed[m] = 0
  BY DEF BoxInit
<1>2. Elements(<<>>) = {} /\ DOMAIN <<>> = {} /\ Len(<<>>) = 0
  BY DEF Elements
<1>3. UnderWay = {}
  BY <1>1, <1>2 DEF UnderWay
<1> QED
  BY <1>1, <1>2, <1>3, FS_EmptySet, MailboxAssumption
  DEF Held, Apart, Known, Counted, Numbered, Bounds, Bound

\* steps that move no message
LEMMA HeldStill ==
  ASSUME Held, UNCHANGED <<heap, out, accepted, delivered, passed, calls>>, proc'.hand = proc.hand
  PROVE  Held'
BY DEF Held, Apart, Known, Counted, Numbered, Bounds, Bound, UnderWay, Ahead

\* Enqueue puts a new message behind what is popped already, which is no more
\* than the out channel and the hand of process hold.
LEMMA HeldEnqueue ==
  ASSUME Typed, Typed', Held, NEW s \in Senders, PriorityEnqueue(s), ~closed
  PROVE  Held'
<1> DEFINE c == calls + 1
<1>1. /\ calls' = c /\ heap' = heap \cup {c} /\ accepted' = Append(accepted, c)
      /\ UNCHANGED <<proc, out, delivered, passed>>
  BY DEF PriorityEnqueue, Called, Refused
<1>2. c \in MessageIds /\ calls \in Nat
  BY CalledIs, <1>1 DEF PriorityEnqueue
<1>3. /\ accepted \in Seq(MessageIds) /\ out \in Seq(MessageIds) /\ heap \subseteq MessageIds
      /\ proc.hand \in MessageIds \cup {NoMessage} /\ passed \in [MessageIds -> Nat]
  BY DEF Typed, BoxTypeOK
<1>4. /\ Elements(accepted') = Elements(accepted) \cup {c}
      /\ Len(accepted') = Len(accepted) + 1 /\ Len(accepted) \in Nat
  BY <1>1, <1>2, <1>3, AppendIs
<1> HIDE DEF c
<1>5. c \notin Elements(accepted) /\ c \notin UnderWay
  BY <1>2 DEF Held, Numbered, Known, c
<1>6. UnderWay' = UnderWay \cup {c}
  BY <1>1 DEF UnderWay
<1>7. Apart'
  BY <1>1, <1>5 DEF Held, Apart, UnderWay
<1>8. Known' /\ Numbered'
  BY <1>1, <1>2, <1>4, <1>6 DEF Held, Known, Numbered, c
<1>9. Counted'
  <2>1. IsFiniteSet(UnderWay) /\ Cardinality(UnderWay) \in Nat
    BY HeldFinite DEF Finite
  <2>2. Cardinality(UnderWay \cup {c}) = Cardinality(UnderWay) + 1
    BY <1>5, <2>1, FS_AddElement
  <2>3. delivered' = delivered /\ Len(delivered) \in Nat
    BY <1>1, LenProperties DEF Typed, BoxTypeOK
  <2> QED BY <1>4, <1>6, <2>1, <2>2, <2>3 DEF Held, Counted
<1>10. ASSUME NEW m \in Urgent \cap MessageIds PROVE Bound(m)'
  <2>1. CASE m = c
    <3>1. passed'[m] = 0
      BY <1>1, <1>5, <2>1 DEF Held, Bounds, Bound
    <3>2. Ahead(m)' \subseteq Elements(out) \cup {proc.hand}
      BY <1>1 DEF Ahead, Precedes, Elements
    <3>3. IsFiniteSet(Elements(out)) /\ Cardinality(Elements(out)) = Len(out) /\ Len(out) \in Nat
      BY <1>3, OnceEach, LenProperties DEF Held, Apart
    <3>4. /\ IsFiniteSet(Elements(out) \cup {proc.hand})
          /\ Cardinality(Elements(out) \cup {proc.hand}) <= Len(out) + 1
          /\ Cardinality(Elements(out) \cup {proc.hand}) \in Nat
      BY <3>3, FS_AddElement, FS_CardinalityType
    <3>5. /\ Cardinality(Ahead(m)') <= Cardinality(Elements(out) \cup {proc.hand})
          /\ Cardinality(Ahead(m)') \in Nat
      BY <3>2, <3>4, FS_Subset, FS_CardinalityType
    <3>6. m \in Elements(accepted')
      BY <1>4, <2>1
    <3>7. Len(out) <= OutCap
      BY DEF Held
    <3> QED BY <3>1, <3>3, <3>4, <3>5, <3>6, <3>7, MailboxAssumption DEF Bound
  <2>2. CASE m # c
    <3>1. Ahead(m)' = Ahead(m) /\ passed' = passed
      BY <1>1, <2>2 DEF Ahead, Precedes
    <3>2. m \in Elements(accepted)' <=> m \in Elements(accepted)
      BY <1>4, <2>2
    <3>3. m \in UnderWay' <=> m \in UnderWay
      BY <1>6, <2>2
    <3>4. Bound(m)
      BY DEF Held, Bounds
    <3> QED BY <3>1, <3>2, <3>3, <3>4 DEF Bound
  <2> QED BY <2>1, <2>2
<1> QED BY <1>1, <1>7, <1>8, <1>9, <1>10 DEF Held, Bounds

\* Pop takes a message that no waiting one is more urgent than.
LEMMA HeldPop ==
  ASSUME Typed, Typed', Held, Pop
  PROVE  Held'
<1>1. PICK p \in heap : /\ \A n \in heap : ~Less(n, p)
                        /\ heap' = heap \ {p} /\ proc' = [proc EXCEPT !.hand = p]
  BY DEF Pop
<1>2. proc.hand = NoMessage /\ UNCHANGED <<calls, out, accepted, delivered, passed>>
  BY DEF Pop, Popping
<1>3. proc'.hand = p /\ p \in MessageIds /\ p # NoMessage
  <2>1. proc \in ProcRecord /\ heap \subseteq MessageIds
    BY DEF Typed, BoxTypeOK, ProcRecord, Places
  <2> QED BY <1>1, <2>1 DEF ProcRecord, MessageIds, NoMessage
<1>4. UnderWay' = UnderWay
  BY <1>1, <1>2, <1>3 DEF UnderWay
<1>5. Apart'
  BY <1>1, <1>2, <1>3 DEF Held, Apart
<1>6. ASSUME NEW m \in Urgent \cap MessageIds PROVE Bound(m)'
  <2>1. Ahead(m)' \subseteq Ahead(m)
    BY <1>1, <1>2, <1>3 DEF Ahead, Precedes, Less
  <2>2. Bound(m)
    BY DEF Held, Bounds
  <2> QED BY <1>2, <1>4, <2>1, <2>2, BoundKept
<1> QED BY <1>2, <1>4, <1>5, <1>6 DEF Held, Known, Counted, Numbered, Bounds

\* The popped message goes behind those in the out channel.
LEMMA HeldPutOut ==
  ASSUME Typed, Typed', Held, PutOut
  PROVE  Held'
<1> DEFINE p == proc.hand
<1>1. /\ p # NoMessage /\ Len(out) < OutCap /\ out' = Append(out, p)
      /\ UNCHANGED <<heap, calls, accepted, delivered, passed>>
  BY DEF PutOut
<1>2. proc'.hand = NoMessage /\ p \in MessageIds
  <2>1. proc \in ProcRecord
    BY DEF Typed, BoxTypeOK, ProcRecord, Places
  <2> QED BY <1>1, <2>1 DEF PutOut, ProcRecord
<1>3. out \in Seq(MessageIds)
  BY DEF Typed, BoxTypeOK
<1>4. /\ Len(out) \in Nat /\ DOMAIN out = 1..Len(out) /\ DOMAIN out' = 1..(Len(out) + 1)
      /\ Len(out') = Len(out) + 1
      /\ \A i \in 1..Len(out) : out'[i] = out[i]
      /\ out'[Len(out) + 1] = p
  BY <1>1, <1>2, <1>3, AppendProperties, LenProperties
<1>5. Elements(out') = Elements(out) \cup {p}
  <2>1. \A e \in MessageIds : Elements(Append(out, e)) = Elements(out) \cup {e}
    BY <1>3, AppendIs
  <2> QED BY <1>1, <1>2, <2>1
<1>6. p \notin heap /\ p \notin Elements(out)
  BY <1>1 DEF Held, Apart
<1> HIDE DEF p
<1>7. UnderWay' = UnderWay
  BY <1>1, <1>2, <1>5 DEF UnderWay, p
<1>8. Apart'
  <2>1. \A i, j \in DOMAIN out' : out'[i] = out'[j] => i = j
    BY <1>4, <1>6 DEF Held, Apart, Elements
  <2> QED BY <1>1, <1>2, <1>5, <1>6, <2>1 DEF Held, Apart
<1>9. ASSUME NEW m \in Urgent \cap MessageIds PROVE Bound(m)'
  <2>1. ASSUME m \in UnderWay PROVE Ahead(m)' \subseteq Ahead(m)
    <3> SUFFICES ASSUME NEW n \in MessageIds \ Urgent, Precedes(out', n, m)
                 PROVE  n \in Ahead(m)
      BY <1>2 DEF Ahead, NoMessage, MessageIds
    <3>1. PICK i \in DOMAIN out' : out'[i] = n /\ \A j \in 1..i : out'[j] # m
      BY DEF Precedes
    <3>2. CASE i \in 1..Len(out)
      BY <1>4, <3>1, <3>2 DEF Ahead, Precedes
    <3>3. CASE i = Len(out) + 1
      <4>1. n = p /\ m \notin Elements(out) /\ m # p
        BY <1>4, <3>1, <3>3 DEF Elements
      <4>2. m \in heap
        BY <2>1, <4>1 DEF UnderWay, p
      <4> QED BY <4>1, <4>2 DEF Ahead, p
    <3> QED BY <1>4, <3>2, <3>3
  <2>2. Bound(m)
    BY DEF Held, Bounds
  <2> QED BY <1>1, <1>7, <2>1, <2>2, BoundKept
<1>10. Len(out') <= OutCap
  BY <1>1, <1>4, MailboxAssumption
<1> QED BY <1>1, <1>7, <1>8, <1>9, <1>10 DEF Held, Known, Counted, Numbered, Bounds

\* What the owner reads passes the urgent messages that wait, and is no longer
\* before them.
LEMMA HeldRead ==
  ASSUME Typed, Typed', Held, ReadPriority
  PROVE  Held'
<1> DEFINE h == Head(out)
<1>1. /\ out # <<>> /\ out' = Tail(out) /\ delivered' = Append(delivered, h)
      /\ UNCHANGED <<heap, calls, accepted, proc>>
      /\ passed' = [u \in MessageIds |-> IF u \in Waiting(h) THEN passed[u] + 1 ELSE passed[u]]
  BY DEF ReadPriority, Read
<1>2. out \in Seq(MessageIds) /\ delivered \in Seq(MessageIds) /\ passed \in [MessageIds -> Nat]
  BY DEF Typed, BoxTypeOK
<1>3. /\ h \in MessageIds /\ h = out[1] /\ Len(out) \in Nat \ {0}
      /\ DOMAIN out = 1..Len(out) /\ DOMAIN out' = 1..(Len(out) - 1) /\ Len(out') = Len(out) - 1
      /\ \A i \in 1..(Len(out) - 1) : out'[i] = out[i + 1]
      /\ Elements(out) = {h} \cup Elements(out')
  <2>1. /\ h \in MessageIds /\ Tail(out) \in Seq(MessageIds) /\ h = out[1]
        /\ Len(out) \in Nat \ {0} /\ Len(Tail(out)) = Len(out) - 1
        /\ \A i \in 1..(Len(out) - 1) : Tail(out)[i] = out[i + 1]
        /\ Elements(out) = {h} \cup Elements(Tail(out))
    BY <1>1, <1>2, TailIs
  <2> QED BY <1>1, <1>2, <2>1, LenProperties
<1>4. /\ Elements(delivered') = Elements(delivered) \cup {h}
      /\ Len(delivered') = Len(delivered) + 1 /\ Len(delivered) \in Nat
  <2>1. \A e \in MessageIds :
          /\ Elements(Append(delivered, e)) = Elements(delivered) \cup {e}
          /\ Len(Append(delivered, e)) = Len(delivered) + 1 /\ Len(delivered) \in Nat
    BY <1>2, AppendIs
  <2> QED BY <1>1, <1>3, <2>1
<1> HIDE DEF h
<1>5. Apart'
  <2>1. \A i, j \in DOMAIN out' : out'[i] = out'[j] => i = j
    BY <1>3 DEF Held, Apart
  <2> QED BY <1>1, <1>3, <2>1 DEF Held, Apart
<1>6. h \notin Elements(out')
  BY <1>3 DEF Held, Apart, Elements
<1>7. UnderWay = UnderWay' \cup {h} /\ h \notin UnderWay'
  BY <1>1, <1>3, <1>6 DEF Held, Apart, UnderWay
<1>8. Known' /\ Numbered'
  BY <1>1, <1>4, <1>7 DEF Held, Known, Numbered
<1>9. Counted'
  <2>1. IsFiniteSet(UnderWay) /\ Cardinality(UnderWay) \in Nat
    BY HeldFinite DEF Finite
  <2>2. UnderWay' = UnderWay \ {h} /\ h \in UnderWay
    BY <1>7
  <2>3. Cardinality(UnderWay') = Cardinality(UnderWay) - 1
    BY <2>1, <2>2, FS_RemoveElement
  <2>4. accepted' = accepted /\ Len(accepted) \in Nat
    BY <1>1, LenProperties DEF Typed, BoxTypeOK
  <2> QED BY <1>4, <2>1, <2>3, <2>4 DEF Held, Counted
<1>10. ASSUME NEW m \in MessageIds, m \in UnderWay' PROVE Ahead(m)' \subseteq Ahead(m) \ {h}
  <2>1. m # h
    BY <1>7, <1>10
  <2> SUFFICES ASSUME NEW n \in MessageIds \ Urgent,
                      (n = proc.hand /\ m \in heap) \/ Precedes(out', n, m)
               PROVE  n \in Ahead(m) /\ n # h
    BY <1>1 DEF Ahead
  <2>2. CASE n = proc.hand /\ m \in heap
    <3>1. h \in Elements(out) /\ n # NoMessage
      BY <1>3 DEF MessageIds, NoMessage
    <3> QED BY <2>2, <3>1 DEF Ahead, Held, Apart
  <2>3. CASE Precedes(out', n, m)
    <3>1. PICK i \in 1..(Len(out) - 1) : out'[i] = n /\ \A j \in 1..i : out'[j] # m
      BY <1>3, <2>3 DEF Precedes
    <3>2. i + 1 \in DOMAIN out /\ out[i + 1] = n
      BY <1>3, <3>1
    <3>3. ASSUME NEW j \in 1..(i + 1) PROVE out[j] # m
      <4>1. CASE j = 1
        BY <1>3, <2>1, <4>1
      <4>2. CASE j # 1
        <5>1. j - 1 \in 1..i /\ j - 1 \in 1..(Len(out) - 1) /\ (j - 1) + 1 = j
          BY <1>3, <3>1, <4>2
        <5> QED BY <1>3, <3>1, <5>1
      <4> QED BY <4>1, <4>2
    <3>4. n # h
      BY <1>3, <1>6, <3>1 DEF Elements
    <3> QED BY <3>2, <3>3, <3>4 DEF Ahead, Precedes
  <2> QED BY <2>2, <2>3
<1>11. ASSUME NEW m \in Urgent \cap MessageIds PROVE Bound(m)'
  <2>1. Bound(m)
    BY DEF Held, Bounds
  <2>2. CASE m \notin Waiting(h)
    <3>1. passed'[m] = passed[m]
      BY <1>1, <2>2
    <3>2. m \in UnderWay' => (m \in UnderWay /\ Ahead(m)' \subseteq Ahead(m))
      BY <1>7, <1>10
    <3> QED BY <1>1, <2>1, <3>1, <3>2, BoundKept
  <2>3. CASE m \in Waiting(h)
    <3>1. /\ m \in Elements(accepted) /\ m \notin Elements(delivered) /\ h \notin Urgent
          /\ passed'[m] = passed[m] + 1 /\ passed[m] \in Nat
      BY <1>1, <1>2, <2>3 DEF Waiting
    <3>2. m \in UnderWay /\ m # h /\ m \in UnderWay'
      BY <1>7, <3>1 DEF Held, Known
    <3>3. h \in Ahead(m)
      <4>1. 1 \in DOMAIN out /\ out[1] = h /\ \A j \in 1..1 : out[j] # m
        BY <1>3, <3>2
      <4> QED BY <1>3, <3>1, <4>1 DEF Ahead, Precedes
    <3>4. IsFiniteSet(Ahead(m)) /\ Cardinality(Ahead(m)) \in Nat
      BY HeldFinite DEF Finite
    <3>5. IsFiniteSet(Ahead(m) \ {h}) /\ Cardinality(Ahead(m) \ {h}) = Cardinality(Ahead(m)) - 1
      BY <3>3, <3>4, FS_RemoveElement
    <3>6. Ahead(m)' \subseteq Ahead(m) \ {h}
      BY <1>10, <3>2
    <3>7. Cardinality(Ahead(m)') <= Cardinality(Ahead(m)) - 1 /\ Cardinality(Ahead(m)') \in Nat
      BY <3>5, <3>6, FS_Subset, FS_CardinalityType
    <3>8. passed[m] + Cardinality(Ahead(m)) <= OutCap + 1
      BY <2>1, <3>2 DEF Bound
    <3>9. m \in Elements(accepted)'
      BY <1>1, <3>1
    <3> QED BY <3>1, <3>4, <3>7, <3>8, <3>9, MailboxAssumption DEF Bound
  <2> QED BY <2>2, <2>3
<1>12. Len(out') <= OutCap
  BY <1>3, MailboxAssumption DEF Held
<1> QED BY <1>5, <1>8, <1>9, <1>11, <1>12 DEF Held, Bounds

\* every step of a priority mailbox keeps the invariant
LEMMA HeldStep ==
  ASSUME Typed, Typed', Held, kind = "priority", [BoxNext]_boxVars
  PROVE  Held'
<1>1. ASSUME NEW s \in Senders, PriorityEnqueue(s) PROVE Held'
  <2>1. CASE ~closed
    BY <1>1, <2>1, HeldEnqueue
  <2>2. CASE closed
    <3>1. UNCHANGED <<heap, out, accepted, delivered, passed, proc>> /\ calls' = calls + 1
      BY <1>1, <2>2 DEF PriorityEnqueue, Refused, Called
    <3>2. calls \in Nat
      BY <1>1, CalledIs DEF PriorityEnqueue
    <3>3. Apart' /\ Known' /\ Counted' /\ Bounds'
      BY <3>1 DEF Held, Apart, Known, Counted, Bounds, Bound, UnderWay, Ahead
    <3>4. Numbered'
      BY <3>1, <3>2 DEF Held, Numbered
    <3> QED BY <3>1, <3>3, <3>4 DEF Held
  <2> QED BY <2>1, <2>2
<1>2. CASE Wake \/ PoppedAll
  <2>1. proc'.hand = proc.hand
    <3>1. proc \in ProcRecord
      BY DEF Typed, BoxTypeOK, ProcRecord, Places
    <3> QED BY <1>2, <3>1 DEF Wake, PoppedAll, ProcRecord
  <2> QED BY <1>2, <2>1, HeldStill DEF Wake, PoppedAll
<1>3. CASE Close \/ UNCHANGED boxVars
  BY <1>3, HeldStill DEF Close, boxVars
<1>4. /\ \A s \in Senders : ~BoundedEnqueue(s) /\ ~UnboundedEnqueue(s) /\ ~UnboundedSend(s)
      /\ ~Store /\ ~SeeClosed /\ ~ProcessEnds /\ ~ReadBounded /\ ~ReadUnbounded
  BY DEF BoundedEnqueue, UnboundedEnqueue, UnboundedSend, Called, Store, SeeClosed, ProcessEnds,
         ReadBounded, ReadUnbounded, Typed, Tidy
<1> QED
  BY <1>1, <1>2, <1>3, <1>4, HeldPop, HeldPutOut, HeldRead DEF BoxNext, Process, Owner

BoxInv == Typed /\ InOrder /\ (kind = "priority" => Held)

\* nobody changes the kind of a mailbox
LEMMA SameKind == [BoxNext]_boxVars => kind' = kind
BY DEF BoxNext, Process, Owner, BoundedEnqueue, UnboundedEnqueue, UnboundedSend, PriorityEnqueue,
       Close, Store, SeeClosed, ProcessEnds, Wake, Pop, PutOut, PoppedAll,
       ReadBounded, ReadUnbounded, ReadPriority, Read, boxVars

\* Whatever a mailbox accepts is read once, in the order of acceptance, or, in
\* the priority mailbox, not lost and with a bound on the overtaking of urgent
\* messages: for any capacities, numbers of senders and moments of Close.
THEOREM MessagesAreDeliveredInOrder == BoxSpec => []DeliveredInOrder
<1>1. BoxInit => BoxInv
  BY TypedInit, InOrderInit, HeldInit DEF BoxInv
<1>2. BoxInv /\ [BoxNext]_boxVars => BoxInv'
  BY TypedStep, InOrderStep, HeldStep, SameKind DEF BoxInv
<1>3. BoxInv => DeliveredInOrder
  BY DEF BoxInv, InOrder, Held, Known, Counted, Bounds, Bound, DeliveredInOrder
<1> QED BY <1>1, <1>2, <1>3, PTL DEF BoxSpec

-----------------------------------------------------------------------------
(* What is accepted is delivered in the end: there is always a step left for *)
(* process or the owner, and each of theirs leaves less to do.               *)

\* is there nobody in process()?
Unserved == kind # "bounded" /\ proc.at = "none"

\* the guards of the steps that bring messages on
CanServe ==
  \/ kind = "bounded" /\ in # <<>>
  \/ kind = "unbounded" /\ proc.at = "waiting" /\ in # <<>>
  \/ kind = "unbounded" /\ proc.at \in {"waiting", "sending"} /\ proc.queue # <<>>
  \/ kind = "priority" /\ out # <<>>
  \/ proc.hand # NoMessage /\ Len(out) < OutCap
  \/ kind = "priority" /\ proc.at = "waiting" /\ signal
  \/ Popping /\ \E m \in heap : \A n \in heap : ~Less(n, m)

NoneStranded == Unserved \/ CanServe \/ Elements(accepted) \subseteq Elements(delivered)

\* process only waits or ends when nothing is left behind
Attended ==
  /\ kind = "unbounded" =>
       /\ proc.at \in {"sending", "ended"} => (closed /\ in = <<>>)
       /\ proc.at = "ended" => (proc.queue = <<>>)
  /\ kind = "priority" =>
       /\ proc.at # "sending"
       /\ proc.at = "waiting" => (heap = {} \/ signal)
       /\ proc.at \in {"popping last", "ended"} => closed
       /\ proc.at = "ended" => (heap = {})

\* In the beginning there is nothing.
LEMMA AttendedInit == BoxInit => Attended
<1> SUFFICES ASSUME BoxInit PROVE Attended
  OBVIOUS
<1>1. heap = {} /\ proc.at \in {"none", "waiting"}
  BY DEF BoxInit
<1> QED BY <1>1 DEF Attended

\* Every step of a sender, of process or of the owner leaves it so.
LEMMA AttendedStep == Typed /\ Attended /\ [BoxNext]_boxVars => Attended'
<1> SUFFICES ASSUME Typed, Attended, [BoxNext]_boxVars PROVE Attended'
  OBVIOUS
<1>0. proc \in ProcRecord
  BY DEF Typed, BoxTypeOK, ProcRecord, Places
<1>1. ASSUME NEW s \in Senders,
             BoundedEnqueue(s) \/ UnboundedEnqueue(s) \/ UnboundedSend(s) \/ PriorityEnqueue(s)
      PROVE  Attended'
  <2>1. UNCHANGED <<kind, closed, proc>>
    BY <1>1 DEF BoundedEnqueue, UnboundedEnqueue, UnboundedSend, PriorityEnqueue
  <2>2. CASE kind = "bounded"
    BY <2>1, <2>2 DEF Attended
  <2>3. CASE kind = "unbounded"
    <3>1. closed => (in' = in)
      BY <1>1, <2>3 DEF BoundedEnqueue, UnboundedEnqueue, UnboundedSend, PriorityEnqueue, Called, Refused
    <3> QED BY <2>1, <2>3, <3>1 DEF Attended
  <2>4. CASE kind = "priority"
    <3>1. (heap' = heap /\ signal' = signal) \/ (~closed /\ signal' = TRUE)
      BY <1>1, <2>4 DEF BoundedEnqueue, UnboundedEnqueue, UnboundedSend, PriorityEnqueue, Called, Refused
    <3> QED BY <2>1, <2>4, <3>1 DEF Attended
  <2> QED BY <2>1, <2>2, <2>3, <2>4 DEF Attended
<1>2. CASE Close \/ UNCHANGED boxVars
  BY <1>2 DEF Close, boxVars, Attended
<1>3. CASE Store
  <2>1. proc'.at = "waiting"
    BY <1>0, <1>3 DEF Store, ProcRecord
  <2> QED BY <1>3, <2>1 DEF Store, Attended
<1>4. CASE SeeClosed
  <2>1. proc'.at = "sending"
    BY <1>0, <1>4 DEF SeeClosed, ProcRecord
  <2> QED BY <1>4, <2>1 DEF SeeClosed, Attended
<1>5. CASE ProcessEnds
  <2>1. proc'.at = "ended" /\ proc'.queue = proc.queue
    BY <1>0, <1>5 DEF ProcessEnds, ProcRecord
  <2> QED BY <1>5, <2>1 DEF ProcessEnds, Attended
<1>6. CASE Wake
  <2>1. proc'.at = (IF signal THEN "popping" ELSE "popping last")
    BY <1>0, <1>6 DEF Wake, ProcRecord
  <2>2. kind' = "priority" /\ closed' = closed /\ (~signal => closed)
    BY <1>6 DEF Wake
  <2>3. proc'.at \notin {"waiting", "sending", "ended"} /\ (proc'.at = "popping last" => closed')
    BY <2>1, <2>2
  <2> QED BY <2>2, <2>3 DEF Attended
<1>7. CASE Pop \/ PutOut
  <2>1. proc'.at = proc.at /\ UNCHANGED <<kind, closed, in, signal>> /\ proc'.queue = proc.queue
    BY <1>0, <1>7 DEF Pop, PutOut, ProcRecord
  <2>2. heap' \subseteq heap
    BY <1>7 DEF Pop, PutOut
  <2> QED BY <2>1, <2>2 DEF Attended
<1>8. CASE PoppedAll
  <2>1. kind = "priority" /\ heap' = {} /\ UNCHANGED <<kind, closed>>
    BY <1>8 DEF PoppedAll, Popping, Typed, BoxTypeOK, Tidy
  <2>2. proc'.at = IF proc.at = "popping" THEN "waiting" ELSE "ended"
    BY <1>0, <1>8 DEF PoppedAll, ProcRecord
  <2>3. proc'.at \notin {"sending", "popping last"} /\ (proc'.at = "ended" => closed')
    <3>1. proc.at = "popping" \/ (proc.at = "popping last" /\ closed)
      BY <1>8, <2>1 DEF PoppedAll, Popping, Attended
    <3> QED BY <2>1, <2>2, <3>1
  <2> QED BY <2>1, <2>3 DEF Attended
<1>9. CASE ReadBounded \/ ReadPriority
  BY <1>9 DEF ReadBounded, ReadPriority, Read, Attended
<1>10. CASE ReadUnbounded
  <2>1. proc'.at = proc.at /\ proc.at # "ended"
    BY <1>0, <1>10 DEF ReadUnbounded, ProcRecord
  <2> QED BY <1>10, <2>1 DEF ReadUnbounded, Read, Attended
<1> QED BY <1>1, <1>2, <1>3, <1>4, <1>5, <1>6, <1>7, <1>8, <1>9, <1>10 DEF BoxNext, Process, Owner

\* What the invariants say of a message that is not delivered yet.
LEMMA SomebodyCanServe == BoxInv /\ Attended => NoneStranded
<1> SUFFICES ASSUME BoxInv, Attended, ~Unserved, ~CanServe
             PROVE  Elements(accepted) \subseteq Elements(delivered)
  BY DEF NoneStranded
<1>0. /\ proc.at \in Places /\ delivered \in Seq(MessageIds) /\ kind \in Kinds /\ Tidy
      /\ OutCap \in Nat \ {0}
  BY MailboxAssumption DEF BoxInv, Typed, BoxTypeOK, Places, Kinds
<1>1. CASE kind # "priority"
  <2>1. in = <<>> /\ proc.queue = <<>>
    BY <1>0, <1>1 DEF CanServe, Unserved, Attended, Kinds, Places, Tidy
  <2>2. accepted = delivered \o <<>> \o <<>>
    BY <1>1, <2>1 DEF BoxInv, InOrder
  <2>3. delivered \o <<>> = delivered
    BY <1>0, ConcatEmptySeq
  <2> QED BY <2>2, <2>3
<1>2. CASE kind = "priority"
  <2>1. out = <<>>
    BY <1>2 DEF CanServe
  <2>2. proc.hand = NoMessage
    BY <1>0, <2>1 DEF CanServe
  <2>3. heap = {}
    <3> SUFFICES ASSUME heap # {} PROVE FALSE
      OBVIOUS
    <3>1. Popping
      BY <1>0, <1>2, <2>2 DEF Popping, Attended, CanServe, Unserved, Places
    <3>2. \E m \in heap : \A n \in heap : ~Less(n, m)
      <4>1. CASE heap \cap Urgent = {}
        BY <4>1 DEF Less
      <4>2. CASE heap \cap Urgent # {}
        BY <4>2 DEF Less
      <4> QED BY <4>1, <4>2
    <3> QED BY <3>1, <3>2 DEF CanServe
  <2>4. UnderWay = {}
    BY <2>1, <2>2, <2>3 DEF UnderWay, Elements
  <2> QED BY <1>2, <2>4 DEF BoxInv, Held, Known
<1> QED BY <1>1, <1>2

\* Whatever was accepted and is not delivered, process or the owner can go on,
\* except in a mailbox whose process nobody has started.
THEOREM NothingIsStranded == BoxSpec => []NoneStranded
<1>1. BoxInit => BoxInv /\ Attended
  BY TypedInit, InOrderInit, HeldInit, AttendedInit DEF BoxInv
<1>2. BoxInv /\ Attended /\ [BoxNext]_boxVars => BoxInv' /\ Attended'
  BY TypedStep, InOrderStep, HeldStep, SameKind, AttendedStep DEF BoxInv
<1> QED BY <1>1, <1>2, SomebodyCanServe, PTL DEF BoxSpec

\* what is left to do for process and the owner: the steps each message is away
\* from its delivery, and those in which process waits, wakes up or ends
Weight(at) == IF at \in {"none", "ended"} THEN 0
              ELSE IF at \in {"sending", "popping last"} THEN 1
              ELSE IF at = "waiting" THEN 2 ELSE 3
Holding(p) == IF p.hand = NoMessage THEN 0 ELSE 2
Burden(p) == Weight(p.at) + Len(p.queue) + Holding(p)
Token == IF signal THEN 2 ELSE 0
Toil == 2 * Len(in) + 3 * Cardinality(heap) + Len(out) + Token + Burden(proc)

\* What process has to do is a number.
LEMMA BurdenIs ==
  ASSUME NEW p \in ProcRecord
  PROVE  /\ Burden(p) \in Nat /\ Weight(p.at) \in 0..3 /\ Len(p.queue) \in Nat
         /\ Holding(p) \in {0, 2}
<1>1. Weight(p.at) \in 0..3
  BY DEF Weight
<1>2. p.queue \in Seq(MessageIds)
  BY DEF ProcRecord
<1>3. Len(p.queue) \in Nat
  BY <1>2, LenProperties
<1>4. Holding(p) \in {0, 2}
  BY DEF Holding
<1> QED BY <1>1, <1>3, <1>4 DEF Burden

\* So is all the rest.
ToilNumbers ==
  /\ Toil \in Nat /\ Len(in) \in Nat /\ Cardinality(heap) \in Nat /\ Len(out) \in Nat
  /\ Token \in {0, 2} /\ Burden(proc) \in Nat /\ proc \in ProcRecord /\ Len(accepted) \in Nat

\* in every mailbox of the right type,
LEMMA ToilIs == Typed => ToilNumbers
<1> SUFFICES ASSUME Typed PROVE ToilNumbers
  OBVIOUS
<1>1. /\ in \in Seq(MessageIds) /\ out \in Seq(MessageIds) /\ accepted \in Seq(MessageIds)
      /\ heap \in SUBSET MessageIds /\ proc \in ProcRecord
  BY DEF Typed, BoxTypeOK, ProcRecord, Places
<1>2. Len(in) \in Nat /\ Len(out) \in Nat /\ Len(accepted) \in Nat
  BY <1>1, LenProperties
<1>3. Cardinality(heap) \in Nat
  BY <1>1, FewMessages
<1>4. Token \in {0, 2}
  BY DEF Token
<1>5. Burden(proc) \in Nat
  BY <1>1, BurdenIs
<1> QED BY <1>1, <1>2, <1>3, <1>4, <1>5 DEF Toil, ToilNumbers

\* and after a step that keeps the type.
LEMMA ToilIsNext == Typed' => ToilNumbers'
BY ToilIs, PTL

\* Whatever process and the owner do, they have less to do then.
LEMMA ServingToils == Typed /\ Typed' /\ (Process \/ Owner) => Toil' < Toil
<1> SUFFICES ASSUME Typed, Typed', Process \/ Owner PROVE Toil' < Toil
  OBVIOUS
<1>1. /\ Len(in) \in Nat /\ Cardinality(heap) \in Nat /\ Len(out) \in Nat /\ Token \in {0, 2}
      /\ Burden(proc) \in Nat /\ proc \in ProcRecord
  BY ToilIs DEF ToilNumbers
<1>2. proc.queue \in Seq(MessageIds) /\ in \in Seq(MessageIds) /\ out \in Seq(MessageIds)
      /\ heap \in SUBSET MessageIds /\ NoMessage = 0
  BY DEF Typed, BoxTypeOK, NoMessage
<1>3. Weight(proc.at) \in 0..3 /\ Len(proc.queue) \in Nat /\ Holding(proc) \in {0, 2}
  BY <1>1, BurdenIs
<1>4. CASE Store
  <2>1. Len(in') = Len(in) - 1 /\ UNCHANGED <<heap, signal, out>>
    BY <1>2, <1>4, TailIs DEF Store
  <2>2. Head(in) \in MessageIds
    BY <1>2, <1>4, TailIs DEF Store
  <2>3. proc'.at = proc.at /\ proc'.hand = proc.hand /\ Len(proc'.queue) = Len(proc.queue) + 1
    <3>1. proc'.queue = Append(proc.queue, Head(in)) /\ proc'.at = proc.at /\ proc'.hand = proc.hand
      BY <1>1, <1>4 DEF Store, ProcRecord
    <3> QED BY <1>2, <2>2, <3>1, AppendIs
  <2>4. Burden(proc') = Burden(proc) + 1
    BY <1>3, <2>3 DEF Burden, Holding
  <2>5. Burden(proc)' = Burden(proc') /\ Token' = Token
    BY <2>1 DEF Burden, Holding, Token
  <2> QED BY <1>1, <2>1, <2>4, <2>5 DEF Toil
<1>5. CASE SeeClosed \/ ProcessEnds \/ PoppedAll
  <2>1. UNCHANGED <<in, heap, signal, out>>
    BY <1>5 DEF SeeClosed, ProcessEnds, PoppedAll
  <2>2. proc'.hand = proc.hand /\ proc'.queue = proc.queue /\ Weight(proc'.at) < Weight(proc.at)
    <3>1. CASE SeeClosed
      <4>1. proc.at = "waiting" /\ proc'.at = "sending" /\ proc'.hand = proc.hand /\ proc'.queue = proc.queue
        BY <1>1, <3>1 DEF SeeClosed, ProcRecord
      <4>2. Weight(proc.at) = 2 /\ Weight(proc'.at) = 1
        BY <4>1 DEF Weight
      <4> QED BY <4>1, <4>2
    <3>2. CASE ProcessEnds
      <4>1. proc.at = "sending" /\ proc'.at = "ended" /\ proc'.hand = proc.hand /\ proc'.queue = proc.queue
        BY <1>1, <3>2 DEF ProcessEnds, ProcRecord
      <4>2. Weight(proc.at) = 1 /\ Weight(proc'.at) = 0
        BY <4>1 DEF Weight
      <4> QED BY <4>1, <4>2
    <3>3. CASE PoppedAll
      <4>1. /\ proc.at \in {"popping", "popping last"} /\ proc'.hand = proc.hand /\ proc'.queue = proc.queue
            /\ proc'.at = (IF proc.at = "popping" THEN "waiting" ELSE "ended")
        BY <1>1, <3>3 DEF PoppedAll, Popping, ProcRecord
      <4>2. CASE proc.at = "popping"
        <5>1. Weight(proc.at) = 3 /\ Weight(proc'.at) = 2
          BY <4>1, <4>2 DEF Weight
        <5>2. Weight(proc'.at) < Weight(proc.at)
          BY <5>1
        <5> QED BY <4>1, <5>2, Zenon
      <4>3. CASE proc.at = "popping last"
        <5>1. Weight(proc.at) = 1 /\ Weight(proc'.at) = 0
          BY <4>1, <4>3 DEF Weight
        <5>2. Weight(proc'.at) < Weight(proc.at)
          BY <5>1
        <5> QED BY <4>1, <5>2, Zenon
      <4> QED BY <4>1, <4>2, <4>3
    <3> QED BY <1>5, <3>1, <3>2, <3>3
  <2>3. Weight(proc'.at) \in 0..3
    BY DEF Weight
  <2>4. Burden(proc') < Burden(proc) /\ Burden(proc') \in Nat
    BY <1>3, <2>2, <2>3 DEF Burden, Holding
  <2>5. Burden(proc)' = Burden(proc') /\ Token' = Token
    BY <2>1 DEF Burden, Holding, Token
  <2> QED BY <1>1, <2>1, <2>4, <2>5 DEF Toil
<1>6. CASE Wake
  <2>1. UNCHANGED <<in, heap, out>> /\ Token' = 0
    BY <1>6 DEF Wake, Token
  <2>2. /\ proc'.hand = proc.hand /\ proc'.queue = proc.queue /\ proc.at = "waiting"
        /\ proc'.at = (IF signal THEN "popping" ELSE "popping last")
    BY <1>1, <1>6 DEF Wake, ProcRecord
  <2>6. Weight(proc.at) = 2
    BY <2>2 DEF Weight
  <2>7. Len(proc'.queue) = Len(proc.queue) /\ Holding(proc') = Holding(proc)
    BY <2>2, Zenon DEF Holding
  <2>3. Burden(proc)' = Burden(proc')
    BY DEF Burden, Holding
  <2>4. CASE signal
    <3>1. Token = 2
      BY <2>4 DEF Token
    <3>2. Weight(proc'.at) = 3
      BY <2>2, <2>4 DEF Weight
    <3>3. Burden(proc') = Burden(proc) + 1
      BY <1>3, <2>6, <2>7, <3>2 DEF Burden
    <3> QED BY <1>1, <2>1, <2>3, <3>1, <3>3 DEF Toil
  <2>5. CASE ~signal
    <3>1. Token = 0
      BY <2>5 DEF Token
    <3>2. Weight(proc'.at) = 1
      BY <2>2, <2>5 DEF Weight
    <3>3. Burden(proc') = Burden(proc) - 1
      BY <1>3, <2>6, <2>7, <3>2 DEF Burden
    <3> QED BY <1>1, <2>1, <2>3, <3>1, <3>3 DEF Toil
  <2> QED BY <2>4, <2>5
<1>7. CASE Pop
  <2>1. PICK m \in heap : heap' = heap \ {m} /\ proc' = [proc EXCEPT !.hand = m]
    BY <1>7 DEF Pop
  <2>2. UNCHANGED <<in, signal, out>> /\ proc.hand = NoMessage
    BY <1>7 DEF Pop, Popping
  <2>3. Cardinality(heap') = Cardinality(heap) - 1
    BY <1>2, <2>1, FewMessages, FS_RemoveElement
  <2>4. m # NoMessage
    BY <1>2 DEF MessageIds
  <2>5. proc'.at = proc.at /\ proc'.queue = proc.queue /\ proc'.hand = m
    BY <1>1, <1>2, <2>1 DEF ProcRecord
  <2>6. Burden(proc') = Burden(proc) + 2
    BY <1>3, <2>2, <2>4, <2>5 DEF Burden, Holding
  <2>7. Burden(proc)' = Burden(proc') /\ Token' = Token
    BY <2>2 DEF Burden, Holding, Token
  <2>8. Burden(proc)' = Burden(proc) + 2 /\ Len(in') = Len(in) /\ Len(out') = Len(out)
    BY <2>2, <2>6, <2>7
  <2>9. Toil' = 2 * Len(in) + 3 * (Cardinality(heap) - 1) + Len(out) + Token + (Burden(proc) + 2)
    BY <2>3, <2>7, <2>8, Zenon DEF Toil
  <2>10. \A i, h, o, t, b \in Int :
           2 * i + 3 * (h - 1) + o + t + (b + 2) < 2 * i + 3 * h + o + t + b
    OBVIOUS
  <2>11. Toil = 2 * Len(in) + 3 * Cardinality(heap) + Len(out) + Token + Burden(proc)
    BY DEF Toil
  <2>12. /\ Len(in) \in Int /\ Cardinality(heap) \in Int /\ Len(out) \in Int
         /\ Token \in Int /\ Burden(proc) \in Int
    BY <1>1
  <2> QED BY <2>9, <2>10, <2>11, <2>12, Zenon
<1>8. CASE PutOut
  <2>1. UNCHANGED <<in, heap, signal>> /\ proc.hand # NoMessage /\ out' = Append(out, proc.hand)
        /\ proc' = [proc EXCEPT !.hand = NoMessage]
    BY <1>8 DEF PutOut
  <2>2. proc.hand \in MessageIds
    BY <1>1, <2>1 DEF ProcRecord
  <2>3. Len(out') = Len(out) + 1
    BY <1>2, <2>1, <2>2, AppendIs
  <2>4. proc'.at = proc.at /\ proc'.queue = proc.queue /\ proc'.hand = NoMessage
    BY <1>1, <2>1 DEF ProcRecord
  <2>5. Burden(proc') = Burden(proc) - 2
    BY <1>3, <2>1, <2>4 DEF Burden, Holding
  <2>6. Burden(proc)' = Burden(proc') /\ Token' = Token
    BY <2>1 DEF Burden, Holding, Token
  <2> QED BY <1>1, <2>1, <2>3, <2>5, <2>6 DEF Toil
<1>9. CASE ReadBounded \/ ReadPriority
  <2>1. /\ UNCHANGED <<proc, heap, signal>>
        /\ \/ in # <<>> /\ in' = Tail(in) /\ out' = out
           \/ out # <<>> /\ out' = Tail(out) /\ in' = in
    BY <1>9 DEF ReadBounded, ReadPriority, Read
  <2>2. Burden(proc)' = Burden(proc) /\ Token' = Token /\ Cardinality(heap') = Cardinality(heap)
    BY <2>1 DEF Burden, Holding, Token
  <2>3. CASE in # <<>> /\ in' = Tail(in) /\ out' = out
    <3>1. Len(in') = Len(in) - 1 /\ Len(out') = Len(out)
      BY <1>2, <2>3, TailIs
    <3> QED BY <1>1, <2>2, <3>1 DEF Toil
  <2>4. CASE out # <<>> /\ out' = Tail(out) /\ in' = in
    <3>1. Len(out') = Len(out) - 1 /\ Len(in') = Len(in)
      BY <1>2, <2>4, TailIs
    <3> QED BY <1>1, <2>2, <3>1 DEF Toil
  <2> QED BY <2>1, <2>3, <2>4
<1>10. CASE ReadUnbounded
  <2>1. /\ UNCHANGED <<in, out, heap, signal>> /\ proc.queue # <<>>
        /\ proc' = [proc EXCEPT !.queue = Tail(@)]
    BY <1>10 DEF ReadUnbounded, Read
  <2>2. Len(Tail(proc.queue)) = Len(proc.queue) - 1
    BY <1>2, <2>1, TailIs
  <2>3. proc'.at = proc.at /\ proc'.hand = proc.hand /\ Len(proc'.queue) = Len(proc.queue) - 1
    BY <1>1, <2>1, <2>2 DEF ProcRecord
  <2>4. Burden(proc') = Burden(proc) - 1
    BY <1>3, <2>3 DEF Burden, Holding
  <2>5. Burden(proc)' = Burden(proc') /\ Token' = Token
    BY <2>1 DEF Burden, Holding, Token
  <2> QED BY <1>1, <2>1, <2>4, <2>5 DEF Toil
<1> QED BY <1>4, <1>5, <1>6, <1>7, <1>8, <1>9, <1>10 DEF Process, Owner

\* What a message more, in the channel or in the heap, adds to the sum.
LEMMA OneMore ==
  ASSUME NEW i \in Nat, NEW h \in Nat, NEW o \in Nat, NEW b \in Nat,
         NEW t \in {0, 2}, NEW h2 \in Nat, NEW t2 \in {0, 2}, h2 <= h + 1
  PROVE  /\ 2 * (i + 1) + 3 * h + o + t + b = (2 * i + 3 * h + o + t + b) + 2
         /\ 2 * i + 3 * h2 + o + t2 + b <= (2 * i + 3 * h + o + t + b) + 5
OBVIOUS

\* A sender gives them no more to do than what it has had accepted.
LEMMA SendingToils ==
  ASSUME Typed, Typed', [BoxNext]_boxVars, ~(Process \/ Owner)
  PROVE  Toil' <= Toil + 5 * (Len(accepted') - Len(accepted))
<1>1. /\ Toil \in Nat /\ Len(in) \in Nat /\ Cardinality(heap) \in Nat /\ Len(out) \in Nat
      /\ Token \in {0, 2} /\ Burden(proc) \in Nat /\ Len(accepted) \in Nat
      /\ in \in Seq(MessageIds) /\ accepted \in Seq(MessageIds) /\ heap \in SUBSET MessageIds
  BY ToilIs DEF ToilNumbers, Typed, BoxTypeOK
<1>0. /\ Toil' \in Nat /\ Len(in') \in Nat /\ Cardinality(heap') \in Nat /\ Len(out') \in Nat
      /\ Token' \in {0, 2} /\ Burden(proc)' \in Nat
  BY ToilIsNext DEF ToilNumbers
<1>2. CASE UNCHANGED <<in, heap, signal, proc, out, accepted>>
  <2>1. Toil' = Toil
    BY <1>2 DEF Toil, Token, Burden, Holding
  <2> QED BY <1>1, <1>2, <2>1
<1>3. ASSUME NEW m \in MessageIds, in' = Append(in, m), accepted' = Append(accepted, m),
             UNCHANGED <<heap, signal, proc, out>>
      PROVE  Toil' <= Toil + 5 * (Len(accepted') - Len(accepted))
  <2>1. Len(in') = Len(in) + 1 /\ Len(accepted') = Len(accepted) + 1
    BY <1>1, <1>3, AppendIs
  <2>2. /\ Burden(proc)' = Burden(proc) /\ Token' = Token
        /\ Cardinality(heap') = Cardinality(heap) /\ Len(out') = Len(out)
    BY <1>3 DEF Burden, Holding, Token
  <2>3. Toil' = Toil + 2
    <3>1. Toil' = 2 * Len(in') + 3 * Cardinality(heap') + Len(out') + Token' + Burden(proc)'
      BY DEF Toil
    <3>2. Toil = 2 * Len(in) + 3 * Cardinality(heap) + Len(out) + Token + Burden(proc)
      BY DEF Toil
    <3>3. Toil' = 2 * (Len(in) + 1) + 3 * Cardinality(heap) + Len(out) + Token + Burden(proc)
      BY <2>1, <2>2, <3>1, Zenon
    <3>4. 2 * (Len(in) + 1) + 3 * Cardinality(heap) + Len(out) + Token + Burden(proc)
          = (2 * Len(in) + 3 * Cardinality(heap) + Len(out) + Token + Burden(proc)) + 2
      <4>1. Cardinality(heap) <= Cardinality(heap) + 1
        BY <1>1
      <4> QED BY <1>1, <4>1, OneMore
    <3> QED BY <3>2, <3>3, <3>4, Zenon
  <2> QED BY <1>1, <2>1, <2>3
<1>4. ASSUME NEW m \in MessageIds, heap' = heap \cup {m}, accepted' = Append(accepted, m),
             UNCHANGED <<in, proc, out>>
      PROVE  Toil' <= Toil + 5 * (Len(accepted') - Len(accepted))
  <2>1. Len(accepted') = Len(accepted) + 1
    BY <1>1, <1>4, AppendIs
  <2>2. Cardinality(heap') <= Cardinality(heap) + 1 /\ Cardinality(heap') \in Nat
    <3>1. IsFiniteSet(heap) /\ heap' \in SUBSET MessageIds
      BY <1>1, <1>4, FewMessages
    <3>2. CASE m \in heap
      <4>1. heap' = heap
        BY <1>4, <3>2
      <4> QED BY <1>1, <4>1
    <3>3. CASE m \notin heap
      <4>1. Cardinality(heap \cup {m}) = Cardinality(heap) + 1
        BY <3>1, <3>3, FS_AddElement
      <4> QED BY <1>1, <1>4, <4>1
    <3> QED BY <3>2, <3>3
  <2>3. /\ Burden(proc)' = Burden(proc) /\ Token' \in {0, 2}
        /\ Len(in') = Len(in) /\ Len(out') = Len(out)
    BY <1>4 DEF Burden, Holding, Token
  <2>4. Toil' <= Toil + 5
    <3>1. Toil' = 2 * Len(in') + 3 * Cardinality(heap') + Len(out') + Token' + Burden(proc)'
      BY DEF Toil
    <3>2. Toil = 2 * Len(in) + 3 * Cardinality(heap) + Len(out) + Token + Burden(proc)
      BY DEF Toil
    <3>3. Toil' = 2 * Len(in) + 3 * Cardinality(heap') + Len(out) + Token' + Burden(proc)
      BY <2>3, <3>1, Zenon
    <3> QED BY <1>0, <1>1, <2>2, <2>3, <3>2, <3>3, OneMore
  <2> QED BY <1>0, <1>1, <2>1, <2>4
<1>5. ASSUME NEW s \in Senders, BoundedEnqueue(s)
      PROVE  Toil' <= Toil + 5 * (Len(accepted') - Len(accepted))
  BY <1>2, <1>3, <1>5, CalledIs DEF BoundedEnqueue, Refused
<1>6. ASSUME NEW s \in Senders, UnboundedEnqueue(s)
      PROVE  Toil' <= Toil + 5 * (Len(accepted') - Len(accepted))
  BY <1>2, <1>6 DEF UnboundedEnqueue, Refused
<1>7. ASSUME NEW s \in Senders, UnboundedSend(s)
      PROVE  Toil' <= Toil + 5 * (Len(accepted') - Len(accepted))
  <2>1. sender[s].msg \in MessageIds
    BY <1>7 DEF UnboundedSend, Typed, Tidy
  <2> QED BY <1>2, <1>3, <1>7, <2>1 DEF UnboundedSend
<1>8. ASSUME NEW s \in Senders, PriorityEnqueue(s)
      PROVE  Toil' <= Toil + 5 * (Len(accepted') - Len(accepted))
  BY <1>2, <1>4, <1>8, CalledIs DEF PriorityEnqueue, Refused
<1>9. CASE Close \/ UNCHANGED boxVars
  BY <1>2, <1>9 DEF Close, boxVars
<1> QED BY <1>5, <1>6, <1>7, <1>8, <1>9 DEF BoxNext

\* Serving a mailbox comes to an end: every step of process and of the owner
\* leaves them less to do, and all that the senders ever add is at most five
\* steps for each message that Enqueue accepts.
THEOREM ServingComesToAnEnd ==
  BoxSpec => [][IF Process \/ Owner THEN Toil' < Toil
                ELSE Toil' <= Toil + 5 * (Len(accepted') - Len(accepted))]_boxVars
<1>1. /\ BoxInv /\ BoxInv' /\ [BoxNext]_boxVars
      => [IF Process \/ Owner THEN Toil' < Toil
          ELSE Toil' <= Toil + 5 * (Len(accepted') - Len(accepted))]_boxVars
  BY ServingToils, SendingToils DEF BoxInv
<1>2. BoxInit => BoxInv
  BY TypedInit, InOrderInit, HeldInit DEF BoxInv
<1>3. BoxInv /\ [BoxNext]_boxVars => BoxInv'
  BY TypedStep, InOrderStep, HeldStep, SameKind DEF BoxInv
<1> QED BY <1>1, <1>2, <1>3, PTL DEF BoxSpec
-----------------------------------------------------------------------------
(* The supervisor: powers. *)

\* f is the table of the first k powers.
Powers(f, k) ==
  f \in [0..k -> Nat] /\ f[0] = 1 /\ \A i \in 1..k : f[i] = Multiplier * f[i - 1]

\* There is such a table for every k,
LEMMA PowersExist == \A k \in Nat : \E f : Powers(f, k)
<1> DEFINE T == {k \in Nat : \E f : Powers(f, k)}
<1>1. 0 \in T
  <2>1. Powers([i \in 0..0 |-> 1], 0)
    BY DEF Powers
  <2> QED BY <2>1
<1>2. ASSUME NEW k \in Nat, k \in T PROVE k + 1 \in T
  <2>1. PICK f : Powers(f, k)
    BY <1>2
  <2>2. PICK p \in Nat : p = Multiplier * f[k]
    BY <2>1, SupervisionAssumption DEF Powers
  <2> DEFINE g == [i \in 0..(k + 1) |-> IF i = k + 1 THEN p ELSE f[i]]
  <2>3. g \in [0..(k + 1) -> Nat] /\ g[0] = 1
    BY <2>1, <2>2 DEF Powers
  <2>4. ASSUME NEW i \in 1..(k + 1) PROVE g[i] = Multiplier * g[i - 1]
    <3>1. CASE i = k + 1
      <4>1. g[i] = p /\ i - 1 = k /\ g[i - 1] = f[k]
        BY <3>1
      <4> QED BY <2>2, <4>1
    <3>2. CASE i # k + 1
      <4>1. i \in 1..k /\ i - 1 \in 0..k /\ i - 1 # k + 1
        BY <3>2
      <4>2. g[i] = f[i] /\ g[i - 1] = f[i - 1]
        BY <3>2, <4>1
      <4>3. f[i] = Multiplier * f[i - 1]
        BY <2>1, <4>1 DEF Powers
      <4> QED BY <4>2, <4>3
    <3> QED BY <3>1, <3>2
  <2>5. Powers(g, k + 1)
    BY <2>3, <2>4 DEF Powers
  <2> QED BY <2>5
<1> HIDE DEF T
<1>3. T = Nat
  <2>1. T \in SUBSET Nat
    BY DEF T
  <2> QED BY <1>1, <1>2, <2>1, InductNat
<1> QED BY <1>3 DEF T

\* and only one, the beginning of all longer ones.
LEMMA PowersAgree ==
  \A k, l \in Nat : \A f, g : (k <= l /\ Powers(f, k) /\ Powers(g, l)) => \A i \in 0..k : f[i] = g[i]
<1> SUFFICES ASSUME NEW k \in Nat, NEW l \in Nat, NEW f, NEW g, k <= l, Powers(f, k), Powers(g, l)
             PROVE  \A i \in 0..k : f[i] = g[i]
  OBVIOUS
<1> DEFINE T == {i \in Nat : i <= k => f[i] = g[i]}
<1>1. 0 \in T
  BY DEF Powers
<1>2. ASSUME NEW i \in Nat, i \in T PROVE i + 1 \in T
  <2> SUFFICES ASSUME i + 1 <= k PROVE f[i + 1] = g[i + 1]
    OBVIOUS
  <2>1. f[i] = g[i]
    BY <1>2
  <2>2. i + 1 \in 1..k /\ i + 1 \in 1..l /\ (i + 1) - 1 = i
    OBVIOUS
  <2> QED BY <2>1, <2>2 DEF Powers
<1> HIDE DEF T
<1>3. T = Nat
  <2>1. T \in SUBSET Nat
    BY DEF T
  <2> QED BY <1>1, <1>2, <2>1, InductNat
<1> QED BY <1>3 DEF T

\* Powers are natural numbers.
LEMMA PowType == \A n \in Nat : pow[n] \in Nat
<1> DEFINE F == [n \in Nat |-> (CHOOSE f : Powers(f, n))[n]]
           Is(f) == f = [n \in Nat |-> IF n = 0 THEN 1 ELSE Multiplier * f[n - 1]]
<1>1. \A n \in Nat : Powers(CHOOSE f : Powers(f, n), n)
  BY PowersExist
<1>2. ASSUME NEW n \in Nat PROVE F[n] = IF n = 0 THEN 1 ELSE Multiplier * F[n - 1]
  <2>1. PICK f : f = (CHOOSE x : Powers(x, n)) /\ Powers(f, n) /\ F[n] = f[n]
    BY <1>1
  <2>2. CASE n = 0
    BY <2>1, <2>2 DEF Powers
  <2>3. CASE n # 0
    <3>1. n - 1 \in Nat /\ n - 1 <= n /\ n \in 1..n /\ n - 1 \in 0..(n - 1)
      BY <2>3
    <3>2. PICK g : g = (CHOOSE x : Powers(x, n - 1)) /\ Powers(g, n - 1) /\ F[n - 1] = g[n - 1]
      BY <1>1, <3>1
    <3>3. g[n - 1] = f[n - 1]
      BY <2>1, <3>1, <3>2, PowersAgree
    <3>4. f[n] = Multiplier * f[n - 1]
      BY <2>1, <3>1 DEF Powers
    <3> QED BY <2>1, <2>3, <3>2, <3>3, <3>4
  <2> QED BY <2>2, <2>3
<1>3. Is(F)
  <2>1. F = [n \in Nat |-> F[n]]
    OBVIOUS
  <2> HIDE DEF F
  <2> QED BY <1>2, <2>1
<1>4. Is(pow)
  <2>1. pow = CHOOSE f : Is(f)
    BY DEF pow
  <2> HIDE DEF F, Is
  <2> QED BY <1>3, <2>1
<1>5. \A n \in Nat : pow[n] = IF n = 0 THEN 1 ELSE Multiplier * pow[n - 1]
  BY <1>4
<1> DEFINE T == {n \in Nat : pow[n] \in Nat}
<1>6. 0 \in T
  BY <1>5
<1>7. ASSUME NEW n \in Nat, n \in T PROVE n + 1 \in T
  <2>1. pow[n + 1] = Multiplier * pow[n]
    BY <1>5
  <2>2. Multiplier \in Nat /\ pow[n] \in Nat
    BY <1>7, SupervisionAssumption
  <2>3. pow[n + 1] \in Nat
    BY <2>1, <2>2
  <2> QED BY <2>3
<1> HIDE DEF T
<1>8. T = Nat
  <2>1. T \in SUBSET Nat
    BY DEF T
  <2> QED BY <1>6, <1>7, <2>1, InductNat
<1> QED BY <1>8 DEF T

\* So are the products and the delays.
LEMMA DelaysType ==
  ASSUME NEW n \in Nat \ {0}
  PROVE  Product(n) \in Nat /\ Delays(n) \subseteq Nat /\ Delays(n) # {}
<1>1. n - 1 \in Nat /\ pow[n - 1] \in Nat
  BY PowType
<1>2. InitialDelay \in Nat /\ MaxDelay \in Nat
  BY SupervisionAssumption
<1>3. Product(n) \in Nat
  BY <1>1, <1>2 DEF Product
<1> QED BY <1>2, <1>3 DEF Delays

-----------------------------------------------------------------------------
(* The supervisor: the window. *)

\* times that do not go back
Ordered(h) == \A i, j \in 1..Len(h) : i <= j => h[i] <= h[j]

\* r is what is left of h once what is too old at t has been dropped.
Remembers(r, h, t) ==
  \E k \in 1..(Len(h) + 1) :
    /\ Len(r) = Len(h) - k + 1
    /\ \A i \in 1..Len(r) : r[i] = h[k + i - 1]
    /\ \A j \in 1..(k - 1) : h[j] <= t - Within

\* What Record makes of what is left of h: what is left of it and the new failure,
\* and before that failure as many others as are in its window.
LEMMA RecordedIs ==
  ASSUME now \in Nat,
         NEW r \in Seq(0..MaxTime), NEW h \in Seq(0..MaxTime), now \in 0..MaxTime,
         Ordered(h), Remembers(r, h, now)
  PROVE  /\ Recorded(r) \in Seq(0..MaxTime)
         /\ Remembers(Recorded(r), Append(h, now), now)
         /\ Len(Recorded(r)) = Before(Append(h, now), Len(h) + 1) + 1
<1>1. Within \in Nat /\ now - Within \in Int /\ MaxTime \in Nat
  BY SupervisionAssumption
<1>2. /\ Len(r) \in Nat /\ Len(h) \in Nat
      /\ \A i \in 1..Len(r) : r[i] \in 0..MaxTime
      /\ \A i \in 1..Len(h) : h[i] \in 0..MaxTime
  BY LenProperties, ElementOfSeq
<1>3. PICK k \in 1..(Len(h) + 1) :
        /\ Len(r) = Len(h) - k + 1
        /\ \A i \in 1..Len(r) : r[i] = h[k + i - 1]
        /\ \A j \in 1..(k - 1) : h[j] <= now - Within
  BY DEF Remembers
<1> DEFINE First(i) == /\ (i <= Len(r)) => Younger(r[i])
                       /\ \A j \in 1..(i - 1) : ~Younger(r[j])
<1>4. \E i \in 1..(Len(r) + 1) : First(i)
  <2> DEFINE S == {i \in 1..(Len(r) + 1) : (i <= Len(r)) => Younger(r[i])}
  <2>1. Len(r) + 1 \in S /\ S \subseteq Nat
    BY <1>2
  <2>2. PICK i \in S : \A j \in S : i <= j
    <3>1. Min(S) \in S /\ \A g \in S : Min(S) <= g
      <4> HIDE DEF S
      <4> QED BY <2>1, Smallest
    <3> QED BY <3>1
  <2>3. \A j \in 1..(i - 1) : ~Younger(r[j])
    BY <1>2, <2>2
  <2> QED BY <2>2, <2>3
<1> DEFINE f == CHOOSE i \in 1..(Len(r) + 1) : First(i)
<1>5. f \in 1..(Len(r) + 1) /\ First(f)
  <2> HIDE DEF First
  <2> QED BY <1>4
<1> DEFINE s == SubSeq(r, f, Len(r))
<1>6. Recorded(r) = Append(s, now)
  BY DEF Recorded
<1> HIDE DEF f
<1>7. /\ s \in Seq(0..MaxTime) /\ Len(s) = Len(r) - f + 1
      /\ \A i \in 1..Len(s) : s[i] = r[f + i - 1]
  <2>1. f \in Int /\ Len(r) \in Int /\ (\A i \in f..Len(r) : r[i] \in 0..MaxTime) /\ f <= Len(r) + 1
    BY <1>2, <1>5
  <2>2. /\ s \in Seq(0..MaxTime)
        /\ Len(s) = IF f <= Len(r) THEN Len(r) - f + 1 ELSE 0
        /\ \A i \in 1..(Len(r) - f + 1) : s[i] = r[f + i - 1]
    <3> DEFINE n == Len(r)
               S == 0..MaxTime
    <3> HIDE DEF First, n, S
    <3>1. f \in Int /\ n \in Int /\ \A i \in f..n : r[i] \in S
      BY <2>1 DEF n, S
    <3>2. /\ SubSeq(r, f, n) \in Seq(S)
          /\ Len(SubSeq(r, f, n)) = IF f <= n THEN n - f + 1 ELSE 0
          /\ \A i \in 1..(n - f + 1) : SubSeq(r, f, n)[i] = r[f + i - 1]
      BY <3>1, SubSeqProperties
    <3> QED BY <3>2 DEF n, S
  <2>3. Len(s) = Len(r) - f + 1
    BY <1>2, <2>1, <2>2
  <2> QED BY <2>2, <2>3
<1> HIDE DEF s
<1>8. /\ Append(s, now) \in Seq(0..MaxTime) /\ Len(Append(s, now)) = Len(s) + 1
      /\ \A i \in 1..Len(s) : Append(s, now)[i] = s[i]
      /\ Append(s, now)[Len(s) + 1] = now
  BY <1>7, AppendProperties
<1>9. /\ Append(h, now) \in Seq(0..MaxTime) /\ Len(Append(h, now)) = Len(h) + 1
      /\ \A i \in 1..Len(h) : Append(h, now)[i] = h[i]
      /\ Append(h, now)[Len(h) + 1] = now
  BY AppendProperties
<1> DEFINE m == k + f - 1
           R == Append(s, now)
           H == Append(h, now)
<1>10. m \in 1..(Len(h) + 1) /\ Len(s) = Len(h) - m + 1
  BY <1>2, <1>3, <1>5, <1>7
<1>11. \A i \in 1..Len(s) : s[i] = h[m + i - 1]
  <2> SUFFICES ASSUME NEW i \in 1..Len(s) PROVE s[i] = h[m + i - 1]
    OBVIOUS
  <2>1. f + i - 1 \in 1..Len(r) /\ k + (f + i - 1) - 1 = m + i - 1
    BY <1>2, <1>3, <1>5, <1>7
  <2>2. r[f + i - 1] = h[k + (f + i - 1) - 1]
    BY <1>3, <2>1
  <2> QED BY <1>7, <2>1, <2>2
<1>12. \A j \in 1..(m - 1) : h[j] <= now - Within
  <2> SUFFICES ASSUME NEW j \in 1..(m - 1) PROVE h[j] <= now - Within
    OBVIOUS
  <2>1. CASE j <= k - 1
    BY <1>3, <2>1
  <2>2. CASE j > k - 1
    <3>1. j - k + 1 \in 1..(f - 1) /\ j - k + 1 \in 1..Len(r) /\ k + (j - k + 1) - 1 = j
      BY <1>2, <1>3, <1>5, <2>2
    <3>2. r[j - k + 1] = h[j] /\ ~Younger(r[j - k + 1])
      <4>1. r[j - k + 1] = h[k + (j - k + 1) - 1]
        BY <1>3, <3>1
      <4> QED BY <1>5, <3>1, <4>1
    <3>3. h[j] \in Nat
      BY <1>2, <1>10
    <3> QED BY <1>1, <3>2, <3>3 DEF Younger
  <2> QED BY <1>3, <2>1, <2>2
<1>13. \A j \in m..Len(h) : h[j] > now - Within
  <2> SUFFICES ASSUME NEW j \in m..Len(h) PROVE h[j] > now - Within
    OBVIOUS
  <2>1. f <= Len(r) /\ f \in 1..Len(r) /\ m \in 1..Len(h) /\ j \in 1..Len(h) /\ k + f - 1 = m
    BY <1>2, <1>3, <1>5, <1>10
  <2>2. Younger(r[f]) /\ r[f] = h[m]
    <3>1. r[f] = h[k + f - 1]
      BY <1>3, <2>1
    <3> QED BY <1>5, <2>1, <3>1
  <2>3. h[m] <= h[j] /\ h[m] \in Nat /\ h[j] \in Nat
    BY <1>2, <2>1 DEF Ordered
  <2>4. r[f] > now - Within
    BY <2>2 DEF Younger
  <2> HIDE DEF m
  <2>5. h[m] > now - Within
    BY <2>2, <2>4
  <2> QED BY <1>1, <2>3, <2>5
<1> HIDE DEF m, R, H
<1>14. Remembers(R, H, now)
  <2>1. m \in 1..(Len(H) + 1) /\ Len(R) = Len(H) - m + 1
    BY <1>2, <1>8, <1>9, <1>10 DEF R, H
  <2>2. \A i \in 1..Len(R) : R[i] = H[m + i - 1]
    <3> SUFFICES ASSUME NEW i \in 1..Len(R) PROVE R[i] = H[m + i - 1]
      OBVIOUS
    <3>1. CASE i \in 1..Len(s)
      <4>1. m + i - 1 \in 1..Len(h)
        BY <1>2, <1>10, <3>1
      <4>2. R[i] = s[i] /\ s[i] = h[m + i - 1] /\ H[m + i - 1] = h[m + i - 1]
        BY <1>8, <1>9, <1>11, <3>1, <4>1 DEF R, H
      <4> QED BY <4>2
    <3>2. CASE i = Len(s) + 1
      <4>1. m + i - 1 = Len(h) + 1
        BY <1>2, <1>10, <3>2
      <4>2. R[i] = now /\ H[m + i - 1] = now
        BY <1>8, <1>9, <3>2, <4>1 DEF R, H
      <4> QED BY <4>2
    <3>3. i \in 1..Len(s) \/ i = Len(s) + 1
      <4>1. Len(R) = Len(s) + 1 /\ Len(s) \in Nat
        BY <1>7, <1>8, LenProperties DEF R
      <4> QED BY <4>1
    <3> QED BY <3>1, <3>2, <3>3
  <2>3. \A j \in 1..(m - 1) : H[j] <= now - Within
    <3> SUFFICES ASSUME NEW j \in 1..(m - 1) PROVE H[j] <= now - Within
      OBVIOUS
    <3>1. j \in 1..Len(h)
      BY <1>2, <1>10
    <3>2. H[j] = h[j]
      BY <1>9, <3>1 DEF H
    <3> QED BY <1>12, <3>2
  <2> QED BY <2>1, <2>2, <2>3 DEF Remembers
<1>15. Before(H, Len(h) + 1) = Len(h) - m + 1
  <2>1. {j \in 1..((Len(h) + 1) - 1) : H[j] > H[Len(h) + 1] - Within} = m..Len(h)
    <3>1. (Len(h) + 1) - 1 = Len(h) /\ H[Len(h) + 1] = now
      BY <1>2, <1>9 DEF H
    <3>2. ASSUME NEW j \in 1..Len(h) PROVE (H[j] > now - Within) <=> j \in m..Len(h)
      <4>1. H[j] = h[j] /\ h[j] \in Nat
        BY <1>2, <1>9 DEF H
      <4>2. CASE j \in m..Len(h)
        BY <1>13, <4>1, <4>2
      <4>3. CASE j \notin m..Len(h)
        <5>1. j \in 1..(m - 1)
          BY <1>2, <1>10, <4>3
        <5> QED BY <1>1, <1>12, <4>1, <4>3, <5>1
      <4> QED BY <4>2, <4>3
    <3>3. \A j \in m..Len(h) : j \in 1..Len(h)
      BY <1>2, <1>10
    <3> QED BY <3>1, <3>2, <3>3
  <2>2. Cardinality(m..Len(h)) = Len(h) - m + 1
    <3>1. PICK n \in Nat : n = Len(h)
      BY <1>2
    <3>2. m \in Int /\ n \in Int /\ m <= n + 1
      BY <1>2, <1>10, <3>1
    <3>3. Cardinality(m..n) = IF m > n THEN 0 ELSE n - m + 1
      BY <3>2, FS_Interval
    <3>4. Cardinality(m..n) = n - m + 1
      BY <3>2, <3>3
    <3> QED BY <3>1, <3>4
  <2> QED BY <2>1, <2>2 DEF Before
<1>16. Len(R) = Before(H, Len(h) + 1) + 1
  BY <1>8, <1>10, <1>15 DEF R
<1>17. Recorded(r) = R /\ R \in Seq(0..MaxTime)
  BY <1>6, <1>8 DEF R
<1> QED BY <1>14, <1>16, <1>17 DEF H

\* A failure that follows changes nothing about the earlier ones.
LEMMA BeforeKept ==
  ASSUME NEW h \in Seq(0..MaxTime), NEW t \in 0..MaxTime, NEW i \in 1..Len(h)
  PROVE  Before(Append(h, t), i) = Before(h, i)
<1>1. \A j \in 1..Len(h) : Append(h, t)[j] = h[j]
  BY AppendProperties
<1>2. \A j \in 1..(i - 1) : j \in 1..Len(h)
  BY LenProperties
<1>3. {j \in 1..(i - 1) : Append(h, t)[j] > Append(h, t)[i] - Within}
        = {j \in 1..(i - 1) : h[j] > h[i] - Within}
  BY <1>1, <1>2
<1> QED BY <1>3 DEF Before

\* Before counts.
LEMMA BeforeType ==
  ASSUME NEW h, NEW i \in Nat
  PROVE  Before(h, i) \in Nat
<1>1. {j \in 1..(i - 1) : h[j] > h[i] - Within} \in SUBSET (1..(i - 1)) /\ IsFiniteSet(1..(i - 1))
  BY FS_Interval
<1>2. IsFiniteSet({j \in 1..(i - 1) : h[j] > h[i] - Within})
  BY <1>1, FS_Subset
<1> QED BY <1>2, FS_CardinalityType DEF Before

-----------------------------------------------------------------------------
(* The supervisor: the invariant, of an actor's failures h, record r, escalation e *)
(* and next failure not before w.                                                  *)

Window(h, r, e, t) ==
  /\ Ordered(h) /\ \A i \in 1..Len(h) : h[i] <= t
  /\ e => r = <<>>
  /\ ~e => Remembers(r, h, t)

Decided(h, e) ==
  \A i \in 1..Len(h) : (e /\ i = Len(h)) <=> Before(h, i) >= MaxRestarts

Spaced(h) ==
  \A i \in 1..(Len(h) - 1) :
    Product(Before(h, i) + 1) <= MaxDuration =>
      h[i + 1] - h[i] >= Product(Before(h, i) + 1) \/ h[i + 1] - h[i] >= MaxDelay

Waits(h, e, w) ==
  (~e /\ Len(h) # 0) => \E d \in Delays(Before(h, Len(h)) + 1) : w = h[Len(h)] + d

TrackerInv ==
  /\ TrackerTypeOK
  /\ \A a \in Actors :
       /\ Window(failures[a], record[a], escalated[a], now)
       /\ Decided(failures[a], escalated[a])
       /\ Spaced(failures[a])
       /\ Waits(failures[a], escalated[a], wakes[a])

\* The clock makes no failure younger.
LEMMA WindowAges ==
  ASSUME NEW h \in Seq(0..MaxTime), NEW r \in Seq(0..MaxTime), NEW e, NEW t \in Nat, Window(h, r, e, t)
  PROVE  Window(h, r, e, t + 1)
<1>1. \A i \in 1..Len(h) : h[i] \in Nat
  <2>1. \A i \in 1..Len(h) : h[i] \in 0..MaxTime
    BY ElementOfSeq
  <2> QED BY <2>1, SupervisionAssumption
<1>2. \A i \in 1..Len(h) : h[i] <= t + 1
  BY <1>1 DEF Window
<1> DEFINE u == t + 1
<1>3. ASSUME Remembers(r, h, t) PROVE Remembers(r, h, u)
  <2>1. PICK k \in 1..(Len(h) + 1) :
          /\ Len(r) = Len(h) - k + 1
          /\ \A i \in 1..Len(r) : r[i] = h[k + i - 1]
          /\ \A j \in 1..(k - 1) : h[j] <= t - Within
    BY <1>3 DEF Remembers
  <2>2. ASSUME NEW j \in 1..(k - 1) PROVE h[j] <= u - Within
    <3>1. j \in 1..Len(h)
      BY LenProperties
    <3>2. h[j] \in Nat /\ h[j] <= t - Within /\ Within \in Nat
      BY <1>1, <2>1, <3>1, SupervisionAssumption
    <3> QED BY <3>2
  <2>3. /\ Len(r) = Len(h) - k + 1
        /\ \A i \in 1..Len(r) : r[i] = h[k + i - 1]
        /\ \A j \in 1..(k - 1) : h[j] <= u - Within
    <3>1. \A j \in 1..(k - 1) : h[j] <= u - Within
      BY <2>2
    <3> QED BY <2>1, <3>1
  <2> HIDE DEF u
  <2> QED BY <2>3 DEF Remembers
<1> QED BY <1>2, <1>3 DEF Window

\* What counts when an actor fails: its failures since the last escalation.
Since(a) == IF escalated[a] THEN <<>> ELSE failures[a]

\* What is known of them.
LEMMA SinceEscalation ==
  ASSUME TrackerInv, NEW a \in Actors,
         NEW h, h = Since(a)
  PROVE  /\ h \in Seq(0..MaxTime) /\ record[a] \in Seq(0..MaxTime)
         /\ Ordered(h) /\ (\A i \in 1..Len(h) : h[i] <= now)
         /\ Remembers(record[a], h, now)
         /\ \A i \in 1..Len(h) : ~(Before(h, i) >= MaxRestarts)
         /\ Spaced(h)
         /\ Waits(h, FALSE, wakes[a])
<1>1. failures[a] \in Seq(0..MaxTime) /\ record[a] \in Seq(0..MaxTime)
  BY DEF TrackerInv, TrackerTypeOK
<1>2. /\ Window(failures[a], record[a], escalated[a], now) /\ Decided(failures[a], escalated[a])
      /\ Spaced(failures[a]) /\ Waits(failures[a], escalated[a], wakes[a])
  BY DEF TrackerInv
<1>3. CASE escalated[a]
  <2>1. h = <<>> /\ record[a] = <<>> /\ Len(<<>>) = 0 /\ <<>> \in Seq(0..MaxTime)
    BY <1>2, <1>3 DEF Window, Since
  <2>2. Remembers(<<>>, <<>>, now)
    <3>1. 1 \in 1..(Len(<<>>) + 1) /\ Len(<<>>) = Len(<<>>) - 1 + 1
      BY <2>1
    <3> QED BY <2>1, <3>1 DEF Remembers
  <2>3. Ordered(h) /\ Spaced(h) /\ Waits(h, FALSE, wakes[a])
    BY <2>1 DEF Ordered, Spaced, Waits
  <2>4. \A i \in 1..Len(h) : h[i] <= now /\ ~(Before(h, i) >= MaxRestarts)
    BY <2>1
  <2> QED BY <1>1, <2>1, <2>2, <2>3, <2>4
<1>4. CASE ~escalated[a]
  <2>1. h = failures[a]
    BY <1>4 DEF Since
  <2>2. Ordered(h) /\ (\A i \in 1..Len(h) : h[i] <= now) /\ Remembers(record[a], h, now)
    BY <1>2, <1>4, <2>1 DEF Window
  <2>3. \A i \in 1..Len(h) : ~(Before(h, i) >= MaxRestarts)
    BY <1>2, <1>4, <2>1 DEF Decided
  <2>4. Waits(h, FALSE, wakes[a])
    BY <1>2, <1>4, <2>1 DEF Waits
  <2> QED BY <1>1, <1>2, <2>1, <2>2, <2>3, <2>4
<1> QED BY <1>3, <1>4

\* What a failure makes of them: H of the failures, r of the record.
FailureIs(H, r) ==
  /\ H \in Seq(0..MaxTime) /\ r \in Seq(0..MaxTime) /\ Len(H) \in Nat \ {0}
  /\ H[Len(H)] = now
  /\ Ordered(H) /\ (\A i \in 1..Len(H) : H[i] <= now)
  /\ Remembers(r, H, now)
  /\ Before(H, Len(H)) \in Nat /\ Len(r) = Before(H, Len(H)) + 1
  /\ \A i \in 1..Len(H) : (i # Len(H)) => ~(Before(H, i) >= MaxRestarts)
  /\ Spaced(H)

\* Every failure does.
LEMMA FailureCounts ==
  ASSUME TrackerInv, NEW a \in Actors, wakes[a] <= now
  PROVE  FailureIs(Append(Since(a), now), Recorded(record[a]))
<1> DEFINE h == Since(a)
           H == Append(h, now)
           r == Recorded(record[a])
<1>0. h = Since(a) /\ H = Append(h, now) /\ r = Recorded(record[a])
  OBVIOUS
<1> HIDE DEF h, H, r
<1>1. /\ h \in Seq(0..MaxTime) /\ record[a] \in Seq(0..MaxTime)
      /\ Ordered(h) /\ (\A i \in 1..Len(h) : h[i] <= now)
      /\ Remembers(record[a], h, now)
      /\ \A i \in 1..Len(h) : ~(Before(h, i) >= MaxRestarts)
      /\ Spaced(h)
      /\ Waits(h, FALSE, wakes[a])
  BY <1>0, SinceEscalation
<1>2. now \in 0..MaxTime /\ now \in Nat /\ MaxTime \in Nat /\ wakes[a] \in Nat /\ MaxDelay \in Nat
  BY SupervisionAssumption DEF TrackerInv, TrackerTypeOK
<1>3. /\ r \in Seq(0..MaxTime) /\ Remembers(r, H, now) /\ Len(r) = Before(H, Len(h) + 1) + 1
  BY <1>0, <1>1, <1>2, RecordedIs
<1>4. PICK n \in Nat : n = Len(h)
  BY <1>1, LenProperties
<1>5. /\ H \in Seq(0..MaxTime) /\ Len(H) = n + 1 /\ H[n + 1] = now
      /\ \A i \in 1..n : H[i] = h[i] /\ h[i] \in Nat /\ h[i] <= now
  <2>1. /\ H \in Seq(0..MaxTime) /\ Len(H) = n + 1 /\ H[n + 1] = now
        /\ \A i \in 1..n : H[i] = h[i]
    BY <1>0, <1>1, <1>2, <1>4, AppendProperties
  <2>2. \A i \in 1..n : h[i] \in 0..MaxTime
    BY <1>1, <1>4, ElementOfSeq
  <2> QED BY <1>1, <1>2, <1>4, <2>1, <2>2
<1>6. \A i \in 1..n : Before(H, i) = Before(h, i)
  BY <1>0, <1>1, <1>2, <1>4, BeforeKept
<1>7. Ordered(H)
  <2> SUFFICES ASSUME NEW i \in 1..(n + 1), NEW j \in 1..(n + 1), i <= j PROVE H[i] <= H[j]
    BY <1>5 DEF Ordered
  <2>1. CASE j = n + 1
    <3>1. i \in 1..n \/ i = n + 1
      OBVIOUS
    <3> QED BY <1>2, <1>5, <2>1, <3>1
  <2>2. CASE j # n + 1
    <3>1. i \in 1..n /\ j \in 1..n
      BY <2>2
    <3>2. h[i] <= h[j]
      BY <1>1, <1>4, <3>1 DEF Ordered
    <3> QED BY <1>5, <3>1, <3>2
  <2> QED BY <2>1, <2>2
<1>8. \A i \in 1..Len(H) : H[i] <= now
  BY <1>2, <1>5
<1>9. \A i \in 1..Len(H) : (i # Len(H)) => ~(Before(H, i) >= MaxRestarts)
  <2>1. \A i \in 1..Len(H) : (i # Len(H)) => i \in 1..n
    BY <1>5
  <2> QED BY <1>1, <1>4, <1>6, <2>1
<1>10. Spaced(H)
  <2> SUFFICES ASSUME NEW i \in 1..n, Product(Before(H, i) + 1) <= MaxDuration
               PROVE  \/ H[i + 1] - H[i] >= Product(Before(H, i) + 1)
                      \/ H[i + 1] - H[i] >= MaxDelay
    BY <1>5 DEF Spaced
  <2>1. Before(H, i) = Before(h, i) /\ H[i] = h[i]
    BY <1>5, <1>6
  <2>2. CASE i # n
    <3>1. i \in 1..(Len(h) - 1) /\ i + 1 \in 1..n
      BY <1>4, <2>2
    <3>2. H[i + 1] = h[i + 1]
      BY <1>5, <3>1
    <3> QED BY <1>1, <2>1, <3>1, <3>2 DEF Spaced
  <2>3. CASE i = n
    <3>1. PICK d \in Delays(Before(h, n) + 1) : wakes[a] = h[n] + d
      BY <1>1, <1>4, <2>3 DEF Waits
    <3>2. Before(h, n) \in Nat
      BY BeforeType
    <3>3. PICK m \in Nat \ {0} : m = Before(h, n) + 1
      BY <3>2
    <3>4. Product(m) \in Nat /\ d \in Nat /\ MaxDuration \in Nat
      BY <3>1, <3>3, DelaysType, SupervisionAssumption
    <3>5. d = Product(m) \/ d = MaxDelay
      BY <2>1, <2>3, <3>1, <3>3, <3>4 DEF Delays
    <3>6. H[i + 1] = now /\ H[i] = h[n] /\ h[n] \in Nat /\ now >= h[n] + d
      BY <1>2, <1>5, <2>1, <2>3, <3>1
    <3>7. PICK s \in Nat : s = h[n]
      BY <3>6
    <3>8. now - s >= d
      BY <1>2, <3>4, <3>6, <3>7
    <3>9. H[i + 1] - H[i] = now - s /\ Product(Before(H, i) + 1) = Product(m)
      BY <2>1, <2>3, <3>3, <3>6, <3>7
    <3> QED BY <3>5, <3>8, <3>9
  <2> QED BY <2>2, <2>3
<1>11. Before(H, Len(H)) \in Nat /\ Len(r) = Before(H, Len(H)) + 1
  BY <1>3, <1>4, <1>5, BeforeType
<1>12. Len(H) \in Nat \ {0} /\ H[Len(H)] = now
  BY <1>5
<1>13. FailureIs(H, r)
  BY <1>3, <1>5, <1>7, <1>8, <1>9, <1>10, <1>11, <1>12 DEF FailureIs
<1> QED BY <1>0, <1>13

\* TrackerInv is an invariant.
THEOREM TrackerInvariant == TrackerSpec => []TrackerInv
<1>1. TrackerInit => TrackerInv
  <2> SUFFICES ASSUME TrackerInit PROVE TrackerInv
    OBVIOUS
  <2>1. Len(<<>>) = 0 /\ <<>> \in Seq(0..MaxTime) /\ MaxTime \in Nat
    BY SupervisionAssumption
  <2>2. TrackerTypeOK
    BY <2>1 DEF TrackerInit, TrackerTypeOK
  <2>3. Remembers(<<>>, <<>>, 0)
    <3>1. 1 \in 1..(Len(<<>>) + 1) /\ Len(<<>>) = Len(<<>>) - 1 + 1
      BY <2>1
    <3> QED BY <2>1, <3>1 DEF Remembers
  <2>4. Window(<<>>, <<>>, FALSE, 0) /\ Decided(<<>>, FALSE) /\ Spaced(<<>>) /\ Waits(<<>>, FALSE, 0)
    BY <2>1, <2>3 DEF Window, Ordered, Decided, Spaced, Waits
  <2> QED BY <2>2, <2>4 DEF TrackerInv, TrackerInit
<1>2. TrackerInv /\ [TrackerNext]_trackerVars => TrackerInv'
  <2> SUFFICES ASSUME TrackerInv, [TrackerNext]_trackerVars PROVE TrackerInv'
    OBVIOUS
  <2>0. MaxTime \in Nat /\ MaxRestarts \in Nat
    BY SupervisionAssumption
  <2>1. CASE UNCHANGED trackerVars
    BY <2>1 DEF trackerVars, TrackerInv, TrackerTypeOK
  <2>2. CASE Clock
    <3>1. now \in Nat /\ now' = now + 1 /\ UNCHANGED <<record, wakes, failures, escalated>>
      BY <2>2 DEF Clock, TrackerInv, TrackerTypeOK
    <3>2. TrackerTypeOK'
      BY <2>0, <2>2 DEF Clock, TrackerInv, TrackerTypeOK
    <3>3. \A a \in Actors : Window(failures[a], record[a], escalated[a], now + 1)
      <4> SUFFICES ASSUME NEW a \in Actors PROVE Window(failures[a], record[a], escalated[a], now + 1)
        OBVIOUS
      <4>1. failures[a] \in Seq(0..MaxTime) /\ record[a] \in Seq(0..MaxTime)
            /\ Window(failures[a], record[a], escalated[a], now)
        BY DEF TrackerInv, TrackerTypeOK
      <4> QED BY <3>1, <4>1, WindowAges
    <3> QED BY <3>1, <3>2, <3>3 DEF TrackerInv
  <2>3. ASSUME NEW a \in Actors, Handle(a) PROVE TrackerInv'
    <3> DEFINE H == Append(Since(a), now)
               r == Recorded(record[a])
    <3>1. /\ wakes[a] <= now /\ now' = now
          /\ failures' = [failures EXCEPT ![a] = H]
          /\ \/ /\ Len(r) > MaxRestarts
                /\ record' = [record EXCEPT ![a] = <<>>]
                /\ escalated' = [escalated EXCEPT ![a] = TRUE]
                /\ wakes' = wakes
             \/ /\ Len(r) <= MaxRestarts
                /\ record' = [record EXCEPT ![a] = r]
                /\ escalated' = [escalated EXCEPT ![a] = FALSE]
                /\ \E d \in Delays(Len(r)) : wakes' = [wakes EXCEPT ![a] = now + d]
      BY <2>3 DEF Handle, Since
    <3>3. FailureIs(H, r)
      BY <2>3, <3>1, FailureCounts
    <3> HIDE DEF H, r
    <3>4. /\ H \in Seq(0..MaxTime) /\ r \in Seq(0..MaxTime) /\ Len(H) \in Nat \ {0}
          /\ H[Len(H)] = now
          /\ Ordered(H) /\ (\A i \in 1..Len(H) : H[i] <= now)
          /\ Remembers(r, H, now)
          /\ Before(H, Len(H)) \in Nat /\ Len(r) = Before(H, Len(H)) + 1
          /\ \A i \in 1..Len(H) : (i # Len(H)) => ~(Before(H, i) >= MaxRestarts)
          /\ Spaced(H)
      BY <3>3 DEF FailureIs
    <3>5. /\ now \in Nat /\ record \in [Actors -> Seq(0..MaxTime)] /\ wakes \in [Actors -> Nat]
          /\ failures \in [Actors -> Seq(0..MaxTime)] /\ escalated \in [Actors -> BOOLEAN]
          /\ now \in 0..MaxTime
      BY <2>0 DEF TrackerInv, TrackerTypeOK
    <3>6. PICK b \in Nat : b = Before(H, Len(H))
      BY <3>4
    <3>7. /\ failures' \in [Actors -> Seq(0..MaxTime)] /\ failures'[a] = H
          /\ \A c \in Actors \ {a} : failures'[c] = failures[c]
      BY <3>1, <3>4, <3>5
    <3>8. CASE /\ Len(r) > MaxRestarts
               /\ record' = [record EXCEPT ![a] = <<>>]
               /\ escalated' = [escalated EXCEPT ![a] = TRUE]
               /\ wakes' = wakes
      <4>1. /\ record' \in [Actors -> Seq(0..MaxTime)] /\ record'[a] = <<>>
            /\ escalated' \in [Actors -> BOOLEAN] /\ escalated'[a] = TRUE
            /\ \A c \in Actors \ {a} : record'[c] = record[c] /\ escalated'[c] = escalated[c]
        <5>1. <<>> \in Seq(0..MaxTime)
          OBVIOUS
        <5> QED BY <3>5, <3>8, <5>1
      <4>2. b >= MaxRestarts
        BY <2>0, <3>4, <3>6, <3>8
      <4>3. Window(H, <<>>, TRUE, now) /\ Decided(H, TRUE) /\ Waits(H, TRUE, wakes[a])
        BY <3>4, <3>6, <4>2 DEF Window, Decided, Waits
      <4>4. TrackerTypeOK'
        BY <3>1, <3>5, <3>7, <3>8, <4>1 DEF TrackerTypeOK
      <4> QED BY <3>1, <3>4, <3>7, <3>8, <4>1, <4>3, <4>4 DEF TrackerInv
    <3>9. CASE /\ Len(r) <= MaxRestarts
               /\ record' = [record EXCEPT ![a] = r]
               /\ escalated' = [escalated EXCEPT ![a] = FALSE]
               /\ \E d \in Delays(Len(r)) : wakes' = [wakes EXCEPT ![a] = now + d]
      <4>1. /\ record' \in [Actors -> Seq(0..MaxTime)] /\ record'[a] = r
            /\ escalated' \in [Actors -> BOOLEAN] /\ escalated'[a] = FALSE
            /\ \A c \in Actors \ {a} : record'[c] = record[c] /\ escalated'[c] = escalated[c]
        BY <3>4, <3>5, <3>9
      <4>2. ~(b >= MaxRestarts) /\ Len(r) = b + 1 /\ Len(r) \in Nat \ {0}
        BY <2>0, <3>4, <3>6, <3>9
      <4>3. PICK d \in Delays(Len(r)) : wakes' = [wakes EXCEPT ![a] = now + d]
        BY <3>9
      <4>4. d \in Nat
        BY <4>2, <4>3, DelaysType
      <4>5. /\ wakes' \in [Actors -> Nat] /\ wakes'[a] = now + d
            /\ \A c \in Actors \ {a} : wakes'[c] = wakes[c]
        BY <3>5, <4>3, <4>4
      <4>6. Window(H, r, FALSE, now) /\ Decided(H, FALSE)
        BY <3>4, <3>6, <4>2 DEF Window, Decided
      <4>7. Waits(H, FALSE, now + d)
        BY <3>4, <3>6, <4>2 DEF Waits
      <4>8. TrackerTypeOK'
        BY <3>1, <3>5, <3>7, <4>1, <4>5 DEF TrackerTypeOK
      <4> QED BY <3>1, <3>4, <3>7, <4>1, <4>5, <4>6, <4>7, <4>8 DEF TrackerInv
    <3> QED BY <3>1, <3>8, <3>9
  <2> QED BY <2>1, <2>2, <2>3 DEF TrackerNext
<1> QED BY <1>1, <1>2, PTL DEF TrackerSpec

\* The variables of the tracker have their types.
THEOREM TrackerTypeCorrect == TrackerSpec => []TrackerTypeOK
<1>1. TrackerInv => TrackerTypeOK
  BY DEF TrackerInv
<1> QED BY <1>1, TrackerInvariant, PTL

\* For any limit and window, what the tracker has kept decides as the whole
\* history would.
THEOREM TrackerNeverForgetsTooMuch == TrackerSpec => []EscalatesBeyondLimit
<1>1. TrackerInv => EscalatesBeyondLimit
  BY DEF TrackerInv, EscalatesBeyondLimit, Decided
<1> QED BY <1>1, TrackerInvariant, PTL

\* For any delays and multiplier, an actor fails again only after the delay that
\* its failures in the window call for.
THEOREM BackoffAlwaysSpacesFailures == TrackerSpec => []BackoffSpacesFailures
<1>1. TrackerInv => BackoffSpacesFailures
  BY DEF TrackerInv, BackoffSpacesFailures, Spaced
<1> QED BY <1>1, TrackerInvariant, PTL

-----------------------------------------------------------------------------
(* The shards. *)

\* What Partition computes with: the parts fit, whatever the remainder,
LEMMA SizeIs ==
  /\ Size \in Nat
  /\ \A c, d \in Nat : c <= d => c * Size \in Nat /\ c * Size <= d * Size
  /\ NumShards * Size <= NumSamples
  /\ \A c \in Trainers : (c - 1) * Size \in Nat /\ End(c) \in Nat /\ c * Size <= End(c) /\ End(c) <= NumSamples
<1>1. NumSamples \in Nat /\ NumShards \in Nat \ {0}
  BY ShardsAssumption
<1>2. Size \in Nat /\ Size * NumShards <= NumSamples
  BY <1>1 DEF Size
<1> HIDE DEF Size
<1>3. \A c, d \in Nat : c <= d => c * Size \in Nat /\ c * Size <= d * Size
  BY <1>2
<1>4. NumShards * Size <= NumSamples
  BY <1>1, <1>2
<1>5. ASSUME NEW c \in Trainers
      PROVE  (c - 1) * Size \in Nat /\ End(c) \in Nat /\ c * Size <= End(c) /\ End(c) <= NumSamples
  <2>1. c \in Nat /\ 1 <= c /\ c <= NumShards /\ c - 1 \in Nat
    BY <1>1 DEF Trainers
  <2>2. c * Size \in Nat /\ c * Size <= NumShards * Size /\ (c - 1) * Size \in Nat
    BY <1>1, <1>3, <2>1
  <2>3. PICK m \in Nat : m = c * Size
    BY <2>2
  <2>4. PICK t \in Nat : t = NumShards * Size
    BY <1>1, <1>2
  <2>5. m <= t /\ t <= NumSamples
    BY <1>4, <2>2, <2>3, <2>4
  <2>6. c = NumShards => End(c) = NumSamples
    BY DEF End
  <2>7. c # NumShards => End(c) = m
    BY <2>3 DEF End
  <2> QED BY <1>1, <2>2, <2>3, <2>5, <2>6, <2>7
<1> QED BY <1>2, <1>3, <1>4, <1>5

\* and every place in temp belongs to one part.
LEMMA PlacesAreDivided ==
  /\ \A c \in Trainers : ((c - 1) * Size + 1)..End(c) \subseteq TrainSamples
  /\ \A c, d \in Trainers : c < d => End(c) < (d - 1) * Size + 1
  /\ \A i \in TrainSamples : \E c \in Trainers : i \in ((c - 1) * Size + 1)..End(c)
<1>1. NumSamples \in Nat /\ NumShards \in Nat \ {0} /\ Size \in Nat
  BY ShardsAssumption, SizeIs
<1>2. ASSUME NEW c \in Trainers PROVE ((c - 1) * Size + 1)..End(c) \subseteq TrainSamples
  BY <1>1, SizeIs DEF TrainSamples
<1>3. ASSUME NEW c \in Trainers, NEW d \in Trainers, c < d PROVE End(c) < (d - 1) * Size + 1
  <2>1. c \in Nat /\ d \in Nat /\ d - 1 \in Nat /\ c <= d - 1 /\ d <= NumShards
    BY <1>1, <1>3 DEF Trainers
  <2>2. c * Size <= (d - 1) * Size /\ c * Size \in Nat /\ (d - 1) * Size \in Nat
    BY <2>1, SizeIs
  <2> QED BY <1>1, <2>1, <2>2 DEF End
<1>4. ASSUME NEW i \in TrainSamples PROVE \E c \in Trainers : i \in ((c - 1) * Size + 1)..End(c)
  <2>1. i \in Nat /\ 1 <= i /\ i <= NumSamples /\ NumShards \in Trainers /\ (NumShards - 1) * Size \in Nat
    BY <1>1, SizeIs DEF TrainSamples, Trainers
  <2>2. CASE i > (NumShards - 1) * Size
    <3>1. i \in ((NumShards - 1) * Size + 1)..NumSamples
      BY <1>1, <2>1, <2>2
    <3> QED BY <1>1, <2>1, <3>1 DEF End
  <2>3. CASE ~(i > (NumShards - 1) * Size)
    <3>1. i <= (NumShards - 1) * Size /\ Size # 0
      BY <1>1, <2>1, <2>3
    <3>2. PICK q \in Nat : q = (i - 1) \div Size
      BY <1>1, <2>1, <3>1
    <3>3. q * Size < i /\ i <= (q + 1) * Size
      <4> HIDE DEF Size
      <4>1. PICK s \in Nat : s = Size
        BY <1>1
      <4>2. s > 0 /\ q = (i - 1) \div s /\ i - 1 \in Nat
        BY <2>1, <3>1, <3>2, <4>1
      <4>3. q * s <= i - 1 /\ i - 1 < (q + 1) * s
        BY <4>2
      <4> QED BY <2>1, <4>1, <4>3
    <3>4. q < NumShards - 1
      <4> HIDE DEF Size
      <4>1. SUFFICES ASSUME NumShards - 1 <= q PROVE FALSE
        BY <1>1
      <4>2. (NumShards - 1) * Size <= q * Size /\ q * Size \in Nat
        BY <1>1, <4>1, SizeIs
      <4> QED BY <2>1, <3>1, <3>3, <4>2
    <3>5. q + 1 \in Trainers /\ q + 1 # NumShards /\ (q + 1) - 1 = q
      BY <1>1, <3>4 DEF Trainers
    <3>6. q * Size \in Nat /\ (q + 1) * Size \in Nat
      BY <1>1, SizeIs
    <3>7. i \in (((q + 1) - 1) * Size + 1)..End(q + 1)
      BY <2>1, <3>3, <3>5, <3>6 DEF End
    <3> QED BY <3>5, <3>7
  <2> QED BY <2>2, <2>3
<1> QED BY <1>2, <1>3, <1>4

\* An order of the samples has each of them in one place.
LEMMA OrdersAreOneToOne ==
  ASSUME NEW o \in Orders
  PROVE  /\ o \in [TrainSamples -> TrainSamples]
         /\ \A i, j \in TrainSamples : o[i] = o[j] => i = j
         /\ \A x \in TrainSamples : \E i \in TrainSamples : o[i] = x
<1>1. o \in [TrainSamples -> TrainSamples] /\ \A i, j \in TrainSamples : o[i] = o[j] => i = j
  BY DEF Orders
<1>2. ASSUME NEW x \in TrainSamples, \A i \in TrainSamples : o[i] # x PROVE FALSE
  <2>1. IsFiniteSet(TrainSamples) /\ Cardinality(TrainSamples) \in Nat
    BY ShardsAssumption, FS_Interval, FS_CardinalityType DEF TrainSamples
  <2>2. IsFiniteSet(TrainSamples \ {x}) /\ Cardinality(TrainSamples \ {x}) = Cardinality(TrainSamples) - 1
    BY <2>1, FS_RemoveElement
  <2>3. o \in [TrainSamples -> TrainSamples \ {x}]
    BY <1>1, <1>2
  <2> QED BY <1>1, <2>1, <2>2, <2>3, FS_PigeonHole
<1> QED BY <1>1, <1>2

\* The parts of one order.
LEMMA PartsOfOneOrder ==
  ASSUME NEW o \in Orders
  PROVE  /\ \A c \in Trainers : Part(o, c) \subseteq TrainSamples
         /\ \A c, d \in Trainers : c # d => Part(o, c) \cap Part(o, d) = {}
         /\ \A x \in TrainSamples : \E c \in Trainers : x \in Part(o, c)
<1> DEFINE P(c) == ((c - 1) * Size + 1)..End(c)
<1>1. \A c \in Trainers : P(c) \subseteq TrainSamples
  BY PlacesAreDivided
<1>2. ASSUME NEW c \in Trainers, NEW d \in Trainers, c < d PROVE Part(o, c) \cap Part(o, d) = {}
  <2>1. \A i \in P(c), j \in P(d) : i # j
    BY <1>2, PlacesAreDivided, SizeIs
  <2> HIDE DEF P
  <2>2. \A i \in P(c), j \in P(d) : o[i] # o[j]
    BY <1>1, <2>1, OrdersAreOneToOne
  <2>3. Part(o, c) = {o[i] : i \in P(c)} /\ Part(o, d) = {o[i] : i \in P(d)}
    BY DEF Part, P
  <2> QED BY <2>2, <2>3
<1>3. \A c, d \in Trainers : c # d => c < d \/ d < c
  BY ShardsAssumption DEF Trainers
<1>4. \A x \in TrainSamples : \E c \in Trainers : \E i \in P(c) : o[i] = x
  BY OrdersAreOneToOne, PlacesAreDivided
<1>5. \A c \in Trainers : Part(o, c) = {o[i] : i \in P(c)}
  BY DEF Part
<1> HIDE DEF P
<1>6. \A c \in Trainers : Part(o, c) \subseteq TrainSamples
  BY <1>1, <1>5, OrdersAreOneToOne
<1>7. \A x \in TrainSamples : \E c \in Trainers : x \in Part(o, c)
  BY <1>4, <1>5
<1>8. \A c, d \in Trainers : c # d => Part(o, c) \cap Part(o, d) = {}
  BY <1>2, <1>3
<1> QED BY <1>6, <1>7, <1>8

\* Where the samples are the same for all, everybody who has loaded has a part of
\* one order.
ShardsInv ==
  /\ ShardsTypeOK
  /\ (deployment = "local" \/ mode = "non_iid") =>
       \E o \in Orders : \A c \in loaded : shard[c] = Part(o, c)

\* ShardsInv is an invariant.
THEOREM ShardsInvariant == ShardsSpec => []ShardsInv
<1>1. ShardsInit => ShardsInv
  <2> SUFFICES ASSUME ShardsInit PROVE ShardsInv
    OBVIOUS
  <2>1. ShardsTypeOK
    BY DEF ShardsInit, ShardsTypeOK
  <2>2. \E o \in Orders : TRUE
    <3> DEFINE id == [i \in TrainSamples |-> i]
    <3>1. id \in [TrainSamples -> TrainSamples] /\ \A i, j \in TrainSamples : id[i] = id[j] => i = j
      OBVIOUS
    <3>2. id \in Orders
      BY <3>1 DEF Orders
    <3> QED BY <3>2
  <2>3. loaded = {}
    BY DEF ShardsInit
  <2> QED BY <2>1, <2>2, <2>3 DEF ShardsInv
<1>2. ShardsInv /\ [ShardsNext]_shardVars => ShardsInv'
  <2> SUFFICES ASSUME ShardsInv, [ShardsNext]_shardVars PROVE ShardsInv'
    OBVIOUS
  <2> USE DEF ShardsInv
  <2>1. CASE UNCHANGED shardVars
    BY <2>1 DEF shardVars, ShardsTypeOK, Orders
  <2>2. CASE LoadAll
    <3>1. PICK o \in Orders : shard' = [c \in Trainers |-> Part(o, c)]
      BY <2>2 DEF LoadAll
    <3>2. loaded' = Trainers /\ UNCHANGED <<deployment, mode>> /\ Orders' = Orders
      BY <2>2 DEF LoadAll, Orders
    <3>3. ShardsTypeOK'
      BY <3>1, <3>2, PartsOfOneOrder DEF ShardsTypeOK
    <3>4. o \in Orders' /\ \A c \in loaded' : shard'[c] = Part(o, c)
      BY <3>1, <3>2
    <3> QED BY <3>3, <3>4
  <2>3. ASSUME NEW c \in Trainers, Load(c) PROVE ShardsInv'
    <3>1. PICK o \in Orders : shard' = [shard EXCEPT ![c] = Part(o, c)]
      BY <2>3 DEF Load
    <3>2. loaded' = loaded \cup {c} /\ UNCHANGED <<deployment, mode>> /\ Orders' = Orders
          /\ deployment = "distributed"
      BY <2>3 DEF Load, Orders
    <3>3. Part(o, c) \in SUBSET TrainSamples /\ shard \in [Trainers -> SUBSET TrainSamples]
      BY PartsOfOneOrder DEF ShardsTypeOK
    <3>4. shard' \in [Trainers -> SUBSET TrainSamples]
      BY <3>1, <3>3
    <3>5. ShardsTypeOK'
      BY <3>2, <3>4 DEF ShardsTypeOK
    <3>6. ASSUME mode' = "non_iid"
          PROVE  \E p \in Orders' : \A d \in loaded' : shard'[d] = Part(p, d)
      <4>1. PICK p \in Orders : \A d \in loaded : shard[d] = Part(p, d)
        BY <3>2, <3>6
      <4>2. p = o
        BY <3>2, <3>6 DEF Orders
      <4>3. \A d \in loaded' : shard'[d] = Part(o, d)
        BY <3>1, <3>2, <3>3, <4>1, <4>2 DEF ShardsTypeOK
      <4> QED BY <3>2, <4>3
    <3> QED BY <3>2, <3>5, <3>6
  <2> QED BY <2>1, <2>2, <2>3 DEF ShardsNext
<1> QED BY <1>1, <1>2, PTL DEF ShardsSpec

\* The variables of the shards have their types.
THEOREM ShardsTypeCorrect == ShardsSpec => []ShardsTypeOK
<1>1. ShardsInv => ShardsTypeOK
  BY DEF ShardsInv
<1> QED BY <1>1, ShardsInvariant, PTL

\* For any number of samples and clients the parts do not overlap and, when all
\* have loaded, leave nothing out: in one process in either mode, in processes of
\* their own in the sorted mode.
THEOREM PartsAlwaysCoverTheData == ShardsSpec => []PartsCoverTheData
<1>1. ShardsInv => PartsCoverTheData
  <2> SUFFICES ASSUME ShardsInv, deployment = "local" \/ mode = "non_iid"
               PROVE  /\ \A c, d \in loaded : c # d => shard[c] \cap shard[d] = {}
                      /\ loaded = Trainers => UNION {shard[c] : c \in Trainers} = TrainSamples
    BY DEF PartsCoverTheData
  <2>1. PICK o \in Orders : \A c \in loaded : shard[c] = Part(o, c)
    BY DEF ShardsInv
  <2>2. loaded \subseteq Trainers
    BY DEF ShardsInv, ShardsTypeOK
  <2>3. \A c, d \in loaded : c # d => shard[c] \cap shard[d] = {}
    BY <2>1, <2>2, PartsOfOneOrder
  <2>4. loaded = Trainers => UNION {shard[c] : c \in Trainers} = TrainSamples
    BY <2>1, PartsOfOneOrder
  <2> QED BY <2>3, <2>4
<1> QED BY <1>1, ShardsInvariant, PTL

-----------------------------------------------------------------------------
(* K-means. *)

Fractions == Int \X (Nat \ {0})

\* The means a client may register with.
Registrable == Means \cup {NoMean}

\* Of three fractions in order the first is below the last.
LEMMA Ratios ==
  ASSUME NEW a \in Nat, NEW b \in Nat, NEW c \in Nat,
         NEW p \in Nat \ {0}, NEW q \in Nat \ {0}, NEW r \in Nat \ {0},
         a * q < b * p, b * r <= c * q
  PROVE  a * r < c * p
<1>1. (a * q) * r < (b * p) * r
  BY Z3
<1>2. (b * r) * p <= (c * q) * p
  BY Z3
<1>3. (a * r) * q < (c * p) * q
  BY <1>1, <1>2, Z3
<1> QED BY <1>3, Z3

\* Distances are numbers.
LEMMA DistanceType ==
  ASSUME NEW m \in Int, NEW c \in Fractions
  PROVE  Distance(m, c) \in Nat /\ c[2] \in Nat \ {0}
<1>1. c[1] \in Int /\ c[2] \in Nat \ {0}
  BY DEF Fractions
<1>2. m * c[2] - c[1] \in Int
  BY <1>1
<1> QED BY <1>1, <1>2 DEF Distance

\* Of two, only one is nearer.
LEMMA NearerOneWay ==
  ASSUME NEW m \in Int, NEW c \in Fractions, NEW d \in Fractions, Nearer(m, c, d)
  PROVE  ~Nearer(m, d, c)
<1>1. PICK a \in Nat, b \in Nat : a = Distance(m, c) * d[2] /\ b = Distance(m, d) * c[2]
  <2>1. PICK x \in Nat, y \in Nat : x = Distance(m, c) /\ y = Distance(m, d)
    BY DistanceType
  <2>2. PICK u \in Nat, v \in Nat : u = c[2] /\ v = d[2]
    BY DistanceType
  <2>3. x * v \in Nat /\ y * u \in Nat
    OBVIOUS
  <2> QED BY <2>1, <2>2, <2>3
<1>2. a < b
  BY <1>1 DEF Nearer
<1> QED BY <1>1, <1>2 DEF Nearer

\* What is nearer than another one is nearer than what that is not farther than.
LEMMA NearerThanFarther ==
  ASSUME NEW m \in Int, NEW c \in Fractions, NEW d \in Fractions, NEW e \in Fractions,
         Nearer(m, c, d), ~Nearer(m, e, d)
  PROVE  Nearer(m, c, e)
<1> DEFINE a == Distance(m, c)
           b == Distance(m, d)
           g == Distance(m, e)
<1>1. /\ a \in Nat /\ b \in Nat /\ g \in Nat
      /\ c[2] \in Nat \ {0} /\ d[2] \in Nat \ {0} /\ e[2] \in Nat \ {0}
  BY DistanceType
<1>2. a * d[2] < b * c[2] /\ ~(g * d[2] < b * e[2]) /\ m # NoMean
  BY DEF Nearer
<1> HIDE DEF a, b, g
<1>3. b * e[2] <= g * d[2]
  BY <1>1, <1>2
<1>4. a * e[2] < g * c[2]
  BY <1>1, <1>2, <1>3, Ratios
<1> QED BY <1>2, <1>4 DEF a, g, Nearer

\* There is a nearest center, and Best is the first of the nearest.
LEMMA BestIsNearest ==
  ASSUME centers \in Seq(Fractions), centers # <<>>, NEW m \in Int
  PROVE  /\ Best(m) \in DOMAIN centers
         /\ \A i \in DOMAIN centers : ~Nearer(m, centers[i], centers[Best(m)])
<1> DEFINE IsBest(j, n) ==
             \A i \in 1..n : /\ ~Nearer(m, centers[i], centers[j])
                             /\ i < j => Nearer(m, centers[j], centers[i])
           N == {n \in Nat : n + 1 <= Len(centers) => \E j \in 1..(n + 1) : IsBest(j, n + 1)}
<1>1. PICK len \in Nat \ {0} : Len(centers) = len /\ DOMAIN centers = 1..len
  <2>1. Len(centers) \in Nat /\ DOMAIN centers = 1..Len(centers)
    BY LenProperties
  <2>2. Len(centers) # 0
    BY EmptySeq
  <2> QED BY <2>1, <2>2
<1>2. \A i \in 1..len : centers[i] \in Fractions
  BY <1>1, ElementOfSeq
<1>3. \A i \in 1..len : ~Nearer(m, centers[i], centers[i])
  <2> SUFFICES ASSUME NEW i \in 1..len PROVE ~Nearer(m, centers[i], centers[i])
    OBVIOUS
  <2>1. Distance(m, centers[i]) \in Nat /\ centers[i][2] \in Nat
    BY <1>2, DistanceType
  <2>2. Distance(m, centers[i]) * centers[i][2] \in Nat
    BY <2>1
  <2> QED BY <2>2 DEF Nearer
<1>4. 0 \in N
  <2>1. 1 \in 1..(0 + 1) /\ 1 \in 1..len /\ \A i \in 1..(0 + 1) : i = 1
    BY <1>1
  <2>2. IsBest(1, 0 + 1)
    BY <1>3, <2>1
  <2> QED BY <2>1, <2>2
<1>5. ASSUME NEW n \in Nat, n \in N PROVE n + 1 \in N
  <2> SUFFICES ASSUME n + 2 <= len PROVE \E j \in 1..(n + 2) : IsBest(j, n + 2)
    BY <1>1
  <2>1. PICK j \in 1..(n + 1) : IsBest(j, n + 1)
    BY <1>1, <1>5
  <2>2. n + 2 \in 1..len /\ j \in 1..len /\ \A i \in 1..(n + 2) : i \in 1..len /\ (i \in 1..(n + 1) \/ i = n + 2)
    OBVIOUS
  <2>3. CASE Nearer(m, centers[n + 2], centers[j])
    <3>1. ASSUME NEW i \in 1..(n + 1) PROVE Nearer(m, centers[n + 2], centers[i])
      <4>1. ~Nearer(m, centers[i], centers[j])
        BY <2>1
      <4>2. centers[i] \in Fractions /\ centers[j] \in Fractions /\ centers[n + 2] \in Fractions
        BY <1>2, <2>2
      <4> QED BY <2>3, <4>1, <4>2, NearerThanFarther
    <3>2. ASSUME NEW i \in 1..(n + 1) PROVE ~Nearer(m, centers[i], centers[n + 2])
      <4>1. Nearer(m, centers[n + 2], centers[i])
        BY <3>1
      <4>2. centers[i] \in Fractions /\ centers[n + 2] \in Fractions
        BY <1>2, <2>2
      <4> QED BY <4>1, <4>2, NearerOneWay
    <3>3. IsBest(n + 2, n + 2)
      BY <1>3, <2>2, <3>1, <3>2
    <3> QED BY <3>3
  <2>4. CASE ~Nearer(m, centers[n + 2], centers[j])
    <3>1. IsBest(j, n + 2)
      BY <2>1, <2>2, <2>4
    <3>2. j \in 1..(n + 2)
      OBVIOUS
    <3> QED BY <3>1, <3>2
  <2> QED BY <2>3, <2>4
<1> HIDE DEF N
<1>6. N = Nat
  <2>1. N \in SUBSET Nat
    BY DEF N
  <2> QED BY <1>4, <1>5, <2>1, InductNat
<1>7. \E j \in 1..len : IsBest(j, len)
  <2>1. len - 1 \in N /\ (len - 1) + 1 = len
    BY <1>6
  <2> QED BY <1>1, <2>1 DEF N
<1>8. Best(m) \in 1..len /\ IsBest(Best(m), len)
  <2>1. Best(m) = CHOOSE j \in 1..len : \A i \in 1..len :
          ~Nearer(m, centers[i], centers[j]) /\ (i < j => Nearer(m, centers[j], centers[i]))
    BY <1>1 DEF Best
  <2>2. \E j \in 1..len : \A i \in 1..len :
          ~Nearer(m, centers[i], centers[j]) /\ (i < j => Nearer(m, centers[j], centers[i]))
    BY <1>7
  <2> QED BY <2>1, <2>2
<1> QED BY <1>1, <1>8

\* Who has no mean is given the first center.
LEMMA BestOfNothing ==
  ASSUME NEW S, centers \in Seq(S), centers # <<>>
  PROVE  1 \in DOMAIN centers /\ Best(NoMean) = 1
<1>1. 1 \in DOMAIN centers /\ DOMAIN centers = 1..Len(centers) /\ Len(centers) \in Nat
  BY LenProperties, EmptySeq
<1> DEFINE IsBest(j) == \A i \in DOMAIN centers :
             ~Nearer(NoMean, centers[i], centers[j]) /\ (i < j => Nearer(NoMean, centers[j], centers[i]))
<1>2. \A c, d : ~Nearer(NoMean, c, d)
  BY DEF Nearer
<1>3. \A i \in DOMAIN centers : ~(i < 1) /\ (i # 1 => 1 < i)
  BY <1>1
<1>4. IsBest(1) /\ \A j \in DOMAIN centers : IsBest(j) => j = 1
  BY <1>1, <1>2, <1>3
<1>5. Best(NoMean) = CHOOSE j \in DOMAIN centers : IsBest(j)
  BY DEF Best
<1> QED BY <1>1, <1>4, <1>5

\* What clients add is a number.
LEMMA SummandsType ==
  ASSUME clients \in Seq(Registrable)
  PROVE  DOMAIN Summands = DOMAIN clients /\ \A i \in DOMAIN clients : Summands[i] \in Int
<1>1. \A i \in DOMAIN clients : clients[i] \in Registrable
  BY ElementOfSeq, LenProperties
<1>2. \A i \in DOMAIN clients : clients[i] # NoMean => clients[i] \in Int
  BY <1>1, KMeansAssumption DEF Registrable
<1>3. \A i \in DOMAIN clients : Summands[i] = IF clients[i] = NoMean THEN 0 ELSE clients[i]
  BY DEF Summands
<1>4. DOMAIN Summands = DOMAIN clients
  BY Zenon DEF Summands
<1> QED BY <1>2, <1>3, <1>4

\* The mean of a cluster is a fraction.
LEMMA MeanType ==
  ASSUME clients \in Seq(Registrable), NEW j
  PROVE  Mean(j) \in Fractions
<1>1. DOMAIN clients = 1..Len(clients) /\ Len(clients) \in Nat
  BY LenProperties
<1>2. \A i \in DOMAIN clients : Summands[i] \in Int
  BY SummandsType
<1>3. IsFiniteSet(ClusterOf(j))
  <2>1. IsFiniteSet(DOMAIN clients)
    BY <1>1, FS_Interval
  <2>2. ClusterOf(j) \in SUBSET (DOMAIN clients)
    BY DEF ClusterOf
  <2> QED BY <2>1, <2>2, FS_Subset
<1>4. SumOver(Summands, ClusterOf(j)) \in Int
  <2>1. \A i \in ClusterOf(j) : Summands[i] \in Int
    BY <1>2 DEF ClusterOf
  <2> QED BY <1>3, <2>1, SumOfIntegers
<1>5. ClusterOf(j) # {} => Cardinality(ClusterOf(j)) \in Nat \ {0}
  BY <1>3, FS_CardinalityType, FS_EmptySet
<1>6. PICK sum \in Int : sum = SumOver(Summands, ClusterOf(j))
  BY <1>4
<1>7. Mean(j) = IF ClusterOf(j) = {} THEN <<0, 1>> ELSE <<sum, Cardinality(ClusterOf(j))>>
  BY <1>6, Zenon DEF Mean, SumOver
<1> QED BY <1>5, <1>7 DEF Fractions

\* the mean of a cluster when the clients and their assignment are c and a.
Members(c, a, j) == {i \in DOMAIN c : a[i] = j}
SummandsOf(c) == [i \in DOMAIN c |-> IF c[i] = NoMean THEN 0 ELSE c[i]]
MeanOf(c, a, j) ==
  IF Members(c, a, j) = {} THEN <<0, 1>>
  ELSE <<SumOver(SummandsOf(c), Members(c, a, j)), Cardinality(Members(c, a, j))>>

\* It is the mean.
LEMMA MeanIs == \A j : Mean(j) = MeanOf(clients, assigned, j)
  BY DEF Mean, MeanOf, Members, SumOver, ClusterOf, Summands, SummandsOf

\* The loop has come to rest: everybody has been given the nearest center, and the centers
\* are the means; or at once, with everybody in the first cluster.
Settled ==
  \/ \A i \in DOMAIN clients : assigned[i] = 1
  \/ /\ \A i \in DOMAIN clients : assigned[i] = Best(clients[i])
     /\ \A j \in DOMAIN centers : centers[j] = MeanOf(clients, assigned, j)

\* Between an update and the next assignment the centers are the means.
KMeansInv ==
  /\ KMeansTypeOK
  /\ Len(clients) >= ExpectedTotal => (centers # <<>> /\ DOMAIN assigned = DOMAIN clients)
  /\ step # "idle" => (Len(clients) >= ExpectedTotal /\ round \in 1..MaxIterations)
  /\ (step = "assign" /\ round = 1) => \A i \in DOMAIN assigned : assigned[i] = 1
  /\ (step = "assign" /\ round # 1) => \A j \in DOMAIN centers : centers[j] = MeanOf(clients, assigned, j)
  /\ (step = "idle" /\ Len(clients) >= ExpectedTotal /\ round <= MaxIterations) => Settled

\* A list given by its places.
LEMMA ListOf ==
  ASSUME NEW S, NEW n \in Nat, NEW f \in [1..n -> S]
  PROVE  f \in Seq(S) /\ Len(f) = n /\ DOMAIN f = 1..n
BY IsASeq, LenProperties

\* A list without one of the elements it may have.
LEMMA PartOfTheType ==
  ASSUME NEW S, NEW x, NEW q \in Seq(S \cup {x}), \A j \in DOMAIN q : q[j] # x
  PROVE  q \in Seq(S)
<1>1. Len(q) \in Nat /\ DOMAIN q = 1..Len(q) /\ q \in [1..Len(q) -> S \cup {x}]
  BY LenProperties
<1>2. q \in [1..Len(q) -> S]
  BY <1>1
<1> QED BY <1>1, <1>2, ListOf

\* A client registers, and with enough of them clustering begins.
LEMMA RegisterKeeps ==
  ASSUME KMeansInv, NEW m \in Registrable, Register(m)
  PROVE  KMeansInv'
<1>1. /\ clients \in Seq(Registrable) /\ Len(clients) \in Nat /\ step = "idle"
      /\ clients' = Append(clients, m)
  BY LenProperties DEF KMeansInv, KMeansTypeOK, Register, Registrable
<1>2. /\ clients' \in Seq(Registrable) /\ Len(clients') = Len(clients) + 1
      /\ DOMAIN clients' = 1..Len(clients')
  BY <1>1, AppendProperties, LenProperties
<1>3. CASE Len(clients') < ExpectedTotal
  <2>1. UNCHANGED <<centers, assigned, round, step>>
    BY <1>3, <1>1, <1>2, KMeansAssumption DEF Register
  <2>2. ~(Len(clients') >= ExpectedTotal)
    BY <1>2, <1>1, <1>3, KMeansAssumption
  <2> QED BY <1>1, <1>2, <2>1, <2>2 DEF KMeansInv, KMeansTypeOK, Registrable
<1>4. CASE ~(Len(clients') < ExpectedTotal)
  <2> DEFINE k == Smaller(NumClusters, Len(clients'))
             n == Len(clients')
  <2>1. /\ centers' = [j \in 1..k |-> IF clients'[j] = NoMean THEN NoMean ELSE <<clients'[j], 1>>]
        /\ assigned' = [i \in 1..n |-> 1]
        /\ round' = 1 /\ step' = "assign"
    BY <1>2, <1>4 DEF Register
  <2>2. k \in Nat \ {0} /\ k <= n /\ n \in Nat \ {0}
    BY <1>1, <1>2, KMeansAssumption DEF Smaller
  <2> HIDE DEF k
  <2>3. \A j \in 1..k : clients'[j] # NoMean => <<clients'[j], 1>> \in Fractions
    <3>1. \A j \in 1..k : clients'[j] # NoMean => clients'[j] \in Int
      <4>1. \A j \in 1..k : j \in 1..Len(clients')
        BY <2>2
      <4>2. \A j \in 1..Len(clients') : clients'[j] \in Registrable
        BY <1>2, ElementOfSeq
      <4> QED BY <4>1, <4>2, KMeansAssumption DEF Registrable
    <3> QED BY <3>1 DEF Fractions
  <2>4. /\ centers' \in Seq(Fractions \cup {NoMean})
        /\ Len(centers') = k /\ DOMAIN centers' = 1..k
    <3>1. centers' \in [1..k -> Fractions \cup {NoMean}]
      BY <2>1, <2>3
    <3> QED BY <2>2, <3>1, ListOf
  <2>5. assigned' \in Seq(1..k) /\ DOMAIN assigned' = 1..n
    <3>1. assigned' \in [1..n -> 1..k]
      BY <2>1, <2>2
    <3> QED BY <2>2, <3>1, ListOf
  <2>6. centers' # <<>>
    BY <2>2, <2>4, EmptySeq
  <2>7. KMeansTypeOK'
    BY <1>2, <2>1, <2>4, <2>5, KMeansAssumption DEF KMeansTypeOK, Fractions, Registrable
  <2>8. Len(clients') >= ExpectedTotal
    BY <1>2, <1>1, <1>4, KMeansAssumption
  <2>9. \A i \in DOMAIN assigned' : assigned'[i] = 1
    BY <2>1, <2>5
  <2> QED BY <1>2, <2>1, <2>5, <2>6, <2>7, <2>8, <2>9, KMeansAssumption DEF KMeansInv
<1> QED BY <1>3, <1>4

\* Without a change of the assignment the loop has come to rest.
LEMMA AssignKeeps ==
  ASSUME KMeansInv, Assign
  PROVE  KMeansInv'
<1>1. /\ step = "assign" /\ ~OutOfRange /\ UNCHANGED <<clients, centers, round>>
      /\ assigned' = [i \in DOMAIN clients |-> Best(clients[i])]
      /\ step' = IF assigned' = assigned THEN "idle" ELSE "update"
  BY DEF Assign
<1>2. /\ clients \in Seq(Registrable) /\ centers \in Seq(Fractions \cup {NoMean}) /\ centers # <<>>
      /\ DOMAIN assigned = DOMAIN clients /\ Len(clients) >= ExpectedTotal
      /\ round \in 1..MaxIterations
  BY <1>1 DEF KMeansInv, KMeansTypeOK, Fractions, Registrable
<1>3. DOMAIN clients = 1..Len(clients) /\ Len(clients) \in Nat
  BY <1>2, LenProperties
<1>4. \A i \in DOMAIN clients : Best(clients[i]) \in DOMAIN centers
  <2> SUFFICES ASSUME NEW i \in DOMAIN clients PROVE Best(clients[i]) \in DOMAIN centers
    OBVIOUS
  <2>1. clients[i] \in Registrable
    BY <1>2, <1>3, ElementOfSeq
  <2>2. CASE clients[i] = NoMean
    BY <1>2, <2>2, BestOfNothing
  <2>3. CASE clients[i] # NoMean
    <3>1. clients[i] \in Int
      BY <2>1, <2>3, KMeansAssumption DEF Registrable
    <3>2. \A j \in DOMAIN centers : centers[j] # NoMean
      BY <1>1, <2>3 DEF OutOfRange
    <3>3. centers \in Seq(Fractions)
      BY <1>2, <3>2, PartOfTheType
    <3> QED BY <1>2, <3>1, <3>3, BestIsNearest
  <2> QED BY <2>2, <2>3
<1>5. assigned' \in Seq(DOMAIN centers) /\ DOMAIN assigned' = DOMAIN clients
  <2>1. assigned' \in [1..Len(clients) -> DOMAIN centers]
    BY <1>1, <1>3, <1>4
  <2> QED BY <1>3, <2>1, ListOf
<1>6. KMeansTypeOK'
  BY <1>1, <1>5 DEF KMeansInv, KMeansTypeOK
<1>7. CASE assigned' = assigned
  <2>1. step' = "idle"
    BY <1>1, <1>7
  <2>2. Settled
    <3>1. CASE round = 1
      BY <1>1, <1>2, <3>1 DEF KMeansInv, Settled
    <3>2. CASE round # 1
      BY <1>1, <1>7, <3>2 DEF KMeansInv, Settled
    <3> QED BY <3>1, <3>2
  <2>3. Settled'
    <3>1. \A m : Best(m)' = Best(m)
      BY <1>1 DEF Best
    <3> QED BY <1>1, <1>7, <2>2, <3>1 DEF Settled
  <2> QED BY <1>1, <1>2, <1>5, <1>6, <2>1, <2>3 DEF KMeansInv
<1>8. CASE assigned' # assigned
  <2>1. step' = "update"
    BY <1>1, <1>8
  <2> QED BY <1>1, <1>2, <1>5, <1>6, <2>1 DEF KMeansInv
<1> QED BY <1>7, <1>8

\* A panic leaves everything but the actor as it is.
LEMMA PanicKeeps ==
  ASSUME KMeansInv, ClusteringPanics
  PROVE  KMeansInv'
<1>1. /\ step = "assign" /\ step' = "ended" /\ UNCHANGED <<clients, centers, assigned, round>>
  BY DEF ClusteringPanics
<1> QED BY <1>1 DEF KMeansInv, KMeansTypeOK

\* The centers become the means.
LEMMA UpdateKeeps ==
  ASSUME KMeansInv, Update
  PROVE  KMeansInv'
<1>1. /\ step = "update" /\ UNCHANGED <<clients, assigned>>
      /\ centers' = [j \in DOMAIN centers |-> Mean(j)]
      /\ round' = round + 1
      /\ step' = IF round = MaxIterations THEN "idle" ELSE "assign"
  BY DEF Update
<1>2. /\ clients \in Seq(Registrable) /\ centers \in Seq(Fractions \cup {NoMean}) /\ centers # <<>>
      /\ DOMAIN assigned = DOMAIN clients /\ Len(clients) >= ExpectedTotal
      /\ round \in 1..MaxIterations /\ assigned \in Seq(DOMAIN centers)
  BY <1>1 DEF KMeansInv, KMeansTypeOK, Fractions, Registrable
<1>3. DOMAIN centers = 1..Len(centers) /\ Len(centers) \in Nat /\ Len(centers) # 0
  BY <1>2, LenProperties, EmptySeq
<1>4. /\ centers' \in Seq(Fractions \cup {NoMean})
      /\ DOMAIN centers' = DOMAIN centers /\ centers' # <<>>
  <2>1. centers' \in [1..Len(centers) -> Fractions \cup {NoMean}]
    BY <1>1, <1>2, <1>3, MeanType
  <2> QED BY <1>3, <2>1, ListOf, EmptySeq
<1>5. /\ round \in Nat \ {0} /\ MaxIterations \in Nat
      /\ round' \in 0..(MaxIterations + 1) /\ round' # 1
      /\ step' = "assign" => round' \in 1..MaxIterations
      /\ step' = "idle" => ~(round' <= MaxIterations)
      /\ step' \in {"idle", "assign"}
  BY <1>1, <1>2, KMeansAssumption
<1>6. KMeansTypeOK'
  BY <1>1, <1>2, <1>4, <1>5 DEF KMeansTypeOK, Fractions, Registrable
<1>7. \A j \in DOMAIN centers' : centers'[j] = MeanOf(clients', assigned', j)
  BY <1>1, <1>4, MeanIs
<1> QED BY <1>1, <1>2, <1>4, <1>5, <1>6, <1>7 DEF KMeansInv

\* The loop of kMeans keeps its invariant.
LEMMA KMeansStep == KMeansInv /\ [KMeansNext]_kmeansVars => KMeansInv'
<1> SUFFICES ASSUME KMeansInv, [KMeansNext]_kmeansVars PROVE KMeansInv'
  OBVIOUS
<1>1. CASE UNCHANGED kmeansVars
  <2>1. UNCHANGED <<clients, centers, assigned, round, step>>
    BY <1>1 DEF kmeansVars
  <2>2. \A m : Best(m)' = Best(m)
    BY <2>1 DEF Best
  <2>3. Settled' = Settled
    BY <2>1, <2>2 DEF Settled
  <2> QED BY <2>1, <2>3 DEF KMeansInv, KMeansTypeOK
<1> QED BY <1>1, RegisterKeeps, AssignKeeps, PanicKeeps, UpdateKeeps DEF KMeansNext, Registrable

\* At first nobody has registered.
LEMMA KMeansAtFirst == KMeansInit => KMeansInv
<1> SUFFICES ASSUME KMeansInit PROVE KMeansInv
  OBVIOUS
<1>1. /\ clients = <<>> /\ centers = <<>> /\ assigned = <<>> /\ round = 0 /\ step = "idle"
  BY DEF KMeansInit
<1>2. Len(clients) = 0 /\ ~(Len(clients) >= ExpectedTotal)
  BY <1>1, EmptySeq, KMeansAssumption
<1>3. KMeansTypeOK
  BY <1>1, EmptySeq, KMeansAssumption DEF KMeansTypeOK
<1> QED BY <1>1, <1>2, <1>3 DEF KMeansInv

\* Types: Best is the number of a cluster, and a mean a fraction, with empty clusters, too.
THEOREM KMeansTypeCorrect == KMeansSpec => []KMeansTypeOK
<1>1. KMeansInv => KMeansTypeOK
  BY DEF KMeansInv
<1> QED BY <1>1, KMeansAtFirst, KMeansStep, PTL DEF KMeansSpec

\* Unless kMeans has used up its iterations every client is at least as near to the
\* mean of its own cluster as to any other: to stop without a change is to have
\* settled, ties and empty clusters included.
THEOREM SettledIsNearest ==
  KMeansSpec => [](round <= MaxIterations => NearestToItsMean)
<1>1. KMeansInv => (round <= MaxIterations => NearestToItsMean)
  <2> SUFFICES ASSUME KMeansInv, round <= MaxIterations, step = "idle",
                      Len(clients) >= ExpectedTotal,
                      NEW i \in DOMAIN clients, NEW j \in DOMAIN centers, ClusterOf(j) # {}
               PROVE  ~Nearer(clients[i], Mean(j), Mean(assigned[i]))
    BY DEF NearestToItsMean
  <2>1. clients \in Seq(Registrable) /\ centers \in Seq(Fractions \cup {NoMean}) /\ centers # <<>>
    BY DEF KMeansInv, KMeansTypeOK, Fractions, Registrable
  <2>2. CASE clients[i] = NoMean
    BY <2>2 DEF Nearer
  <2> SUFFICES ASSUME clients[i] # NoMean PROVE ~Nearer(clients[i], Mean(j), Mean(assigned[i]))
    BY <2>2
  <2>5. clients[i] \in Int
    <3>1. clients[i] \in Registrable
      BY <2>1, ElementOfSeq, LenProperties
    <3> QED BY <3>1, KMeansAssumption DEF Registrable
  <2>3. CASE \A l \in DOMAIN clients : assigned[l] = 1
    <3>1. j = 1 /\ assigned[i] = 1
      BY <2>3 DEF ClusterOf
    <3>2. Mean(1) \in Fractions
      BY <2>1, MeanType
    <3>3. ~Nearer(clients[i], Mean(1), Mean(1))
      <4>1. Distance(clients[i], Mean(1)) \in Nat /\ Mean(1)[2] \in Nat
        BY <2>5, <3>2, DistanceType
      <4>2. Distance(clients[i], Mean(1)) * Mean(1)[2] \in Nat
        BY <4>1
      <4> QED BY <4>2 DEF Nearer
    <3> QED BY <3>1, <3>3
  <2>4. CASE /\ \A l \in DOMAIN clients : assigned[l] = Best(clients[l])
             /\ \A l \in DOMAIN centers : centers[l] = MeanOf(clients, assigned, l)
    <3>1. /\ Best(clients[i]) \in DOMAIN centers
          /\ ~Nearer(clients[i], centers[j], centers[Best(clients[i])])
      <4>1. DOMAIN centers = 1..Len(centers) /\ Len(centers) \in Nat
        BY <2>1, LenProperties
      <4>2. \A l \in DOMAIN centers : centers[l] \in Fractions
        BY <2>1, <2>4, MeanType, MeanIs
      <4>3. centers \in [1..Len(centers) -> Fractions]
        BY <2>1, <4>1, <4>2, LenProperties
      <4>4. centers \in Seq(Fractions)
        BY <4>1, <4>3, ListOf
      <4> QED BY <2>1, <2>5, <4>4, BestIsNearest
    <3> QED BY <2>4, <3>1, MeanIs
  <2> QED BY <2>3, <2>4 DEF KMeansInv, Settled
<1> QED BY <1>1, KMeansAtFirst, KMeansStep, PTL DEF KMeansSpec

-----------------------------------------------------------------------------
(***************************************************************************)
(* Remote calls.  That questions are kept apart rests on where a question  *)
(* is: in one mailbox, once, or being handled at one actor, and on the     *)
(* reply function of an actor: that of the question it handles, or one a   *)
(* panic has left.                                                         *)
(***************************************************************************)
Sides == {"unused", "locking", "sent", "returned", "failed"}
Call == [at : Sides, kind : {"Tell", "Ask"}, to : Addresses, payload : Payloads, conn : Nat]
Serving == [at : {"none", "asking", "answered", "refused"}, answer : Answers]
Phases == {"idle", "handling", "replying", "ended"}
ActorState == [at : Phases, box : Seq(Calls), message : Calls \cup {NoCall},
               replyFn : Calls \cup {NoCall}, prev : Calls \cup {NoCall}, replies : 0..MaxReplies]

-----------------------------------------------------------------------------
(* Types. *)

\* The type invariant in the words of this module.
LEMMA TypeIs ==
  CallsTypeOK <=>
    /\ call \in [Calls -> Call] /\ serving \in [Calls -> Serving]
    /\ conns \in [Addresses -> Nat] /\ opened \in [Addresses -> Nat]
    /\ actor \in [Addresses -> ActorState] /\ replyCh \in [Calls -> Seq(Answers)]
    /\ derailed \subseteq Calls
BY DEF CallsTypeOK, Call, Serving, ActorState, Sides, Phases

\* Sequences keep their type.
LEMMA SeqTypes ==
  /\ \A S : <<>> \in Seq(S)
  /\ \A S, s, x : (s \in Seq(S) /\ x \in S) => Append(s, x) \in Seq(S)
  /\ \A S, s : (s \in Seq(S) /\ s # <<>>) => (Head(s) \in S /\ Tail(s) \in Seq(S))
  /\ \A S, x : x \in S => <<x>> \in Seq(S)
OBVIOUS

\* What NoCall, NoConn and the payloads are.
LEMMA Small ==
  /\ NoCall \notin Calls /\ NoConn \in Nat /\ "plain" \in Payloads
  /\ NoAnswer \in Answers /\ 0 \in 0..MaxReplies
BY CallsAssumption DEF NoCall, Calls, NoConn, Payloads, NoAnswer, Answers

\* The initial state has the types.
LEMMA TypesAtFirst == CallsInit => CallsTypeOK
<1> SUFFICES ASSUME CallsInit PROVE CallsTypeOK
  OBVIOUS
<1>1. (CHOOSE a \in Addresses : TRUE) \in Addresses
  BY CallsAssumption
<1> QED
  BY <1>1, Small, SeqTypes, TypeIs DEF CallsInit, Call, Serving, ActorState, Sides, Phases

\* A call at another stage, and on a connection.
At(c, to) == [c EXCEPT !.at = to]
AtOn(c, to, n) == [c EXCEPT !.at = to, !.conn = n]

\* What At and AtOn change, and what they keep.
LEMMA CallWith ==
  ASSUME NEW c \in Call, NEW to \in Sides, NEW n \in Nat
  PROVE  /\ At(c, to) \in Call /\ At(c, to).at = to
         /\ At(c, to).kind = c.kind /\ At(c, to).to = c.to /\ At(c, to).conn = c.conn
         /\ AtOn(c, to, n) \in Call /\ AtOn(c, to, n).at = to
         /\ AtOn(c, to, n).kind = c.kind /\ AtOn(c, to, n).to = c.to /\ AtOn(c, to, n).conn = n
BY DEF Call, At, AtOn

\* What it means to change a function at one place.
LEMMA Changed ==
  ASSUME NEW D, NEW R, NEW f \in [D -> R], NEW d \in D, NEW r \in R
  PROVE  /\ [f EXCEPT ![d] = r] \in [D -> R] /\ [f EXCEPT ![d] = r][d] = r
         /\ \A e \in D \ {d} : [f EXCEPT ![d] = r][e] = f[e]
OBVIOUS

\* What the steps of a client do to its call, and that they touch no more.
LEMMA ClientSteps ==
  ASSUME CallsTypeOK, NEW q \in Calls, Begin(q) \/ MakeConn(q) \/ GiveUp(q) \/ Result(q)
  PROVE  /\ call' \in [Calls -> Call] /\ call'[q].at # "unused"
         /\ \A p \in Calls \ {q} : call'[p] = call[p]
         /\ (call[q].at # "unused") => (call'[q].to = call[q].to /\ call'[q].kind = call[q].kind)
         /\ conns' \in [Addresses -> Nat] /\ opened' \in [Addresses -> Nat]
         /\ UNCHANGED <<serving, actor, replyCh, derailed>>
<1>0. call \in [Calls -> Call] /\ call[q] \in Call /\ call[q].to \in Addresses
  BY TypeIs DEF Call
<1>a. \A to : [call EXCEPT ![q].at = to] = [call EXCEPT ![q] = At(call[q], to)]
  BY DEF At
<1>c. {"locking", "sent", "returned", "failed"} \subseteq Sides \ {"unused"}
  BY DEF Sides
<1> DEFINE Good(new) ==
         /\ new \in [Calls -> Call] /\ new[q].at # "unused"
         /\ \A p \in Calls \ {q} : new[p] = call[p]
         /\ (call[q].at # "unused") => (new[q].to = call[q].to /\ new[q].kind = call[q].kind)
<1>d. ASSUME NEW to \in Sides \ {"unused"}, NEW n \in Nat
      PROVE  /\ Good([call EXCEPT ![q].at = to])
             /\ Good([call EXCEPT ![q].at = to, ![q].conn = n])
  <2>1. to \in Sides /\ to # "unused" /\ call[q] \in Call
    BY <1>0
  <2>2. Good([call EXCEPT ![q] = At(call[q], to)])
    BY <1>0, <2>1, CallWith
  <2>3. Good([call EXCEPT ![q] = AtOn(call[q], to, n)])
    BY <1>0, <2>1, CallWith
  <2>4. Good([call EXCEPT ![q].at = to])
    BY <2>2, <1>a, Zenon
  <2>5. Good([call EXCEPT ![q].at = to, ![q].conn = n])
    <3>1. [call EXCEPT ![q].at = to, ![q].conn = n] = [call EXCEPT ![q] = AtOn(call[q], to, n)]
      BY Zenon DEF AtOn
    <3> HIDE DEF Good
    <3> QED
      BY <2>3, <3>1, Zenon
  <2> QED
    BY <2>4, <2>5
<1>e. \A to \in Sides \ {"unused"}, n \in Nat :
        Good([call EXCEPT ![q].at = to]) /\ Good([call EXCEPT ![q].at = to, ![q].conn = n])
  BY <1>d
<1>f. conns \in [Addresses -> Nat] /\ opened \in [Addresses -> Nat]
  BY TypeIs
<1>1. CASE Begin(q)
  <2>1. call[q].at = "unused"
    BY <1>1 DEF Begin
  <2>2. ASSUME NEW m \in Payloads, NEW k \in {"Tell", "Ask"}, NEW a \in Addresses,
               call' = [call EXCEPT ![q] = [at |-> IF conns[a] # NoConn THEN "sent" ELSE "locking",
                                            kind |-> k, to |-> a, payload |-> m, conn |-> conns[a]]]
        PROVE  Good(call')
    <3> DEFINE c == [at |-> IF conns[a] # NoConn THEN "sent" ELSE "locking",
                     kind |-> k, to |-> a, payload |-> m, conn |-> conns[a]]
    <3>1. c \in Call /\ c.at # "unused"
      BY <1>c, <1>f DEF Call
    <3> HIDE DEF c
    <3>2. call' = [call EXCEPT ![q] = c]
      BY <2>2 DEF c
    <3> QED
      BY <1>0, <2>1, <3>1, <3>2
  <2>3. CASE call' = [call EXCEPT ![q].at = "failed"]
    <3>1. Good([call EXCEPT ![q].at = "failed"])
      BY <1>e, <1>c, Small
    <3> QED
      BY <1>1, <1>f, <2>3, <3>1 DEF Begin
  <2>4. CASE call' # [call EXCEPT ![q].at = "failed"]
    <3> HIDE DEF Good
    <3>1. Good(call')
      BY <1>1, <2>4, <2>2 DEF Begin
    <3> QED
      BY <1>1, <1>f, <3>1 DEF Begin, Good
  <2> QED
    BY <2>3, <2>4
<1>2. CASE MakeConn(q)
  <2> DEFINE a == call[q].to
             n == opened[a] + 1
             opens == [opened EXCEPT ![a] = @ + 1]
  <2>1. n \in Nat /\ conns[a] \in Nat /\ opens \in [Addresses -> Nat] /\ opens[a] = n
        /\ [conns EXCEPT ![a] = n] \in [Addresses -> Nat]
    BY <1>0, <1>f
  <2>2. \/ call' = [call EXCEPT ![q].at = "sent", ![q].conn = conns[a]]
        \/ call' = [call EXCEPT ![q].at = "failed"]
        \/ call' = [call EXCEPT ![q].at = "sent", ![q].conn = n]
    BY <1>2, <2>1 DEF MakeConn
  <2>5. /\ Good([call EXCEPT ![q].at = "sent", ![q].conn = conns[a]])
        /\ Good([call EXCEPT ![q].at = "failed"])
        /\ Good([call EXCEPT ![q].at = "sent", ![q].conn = n])
    <3> HIDE DEF Good, n
    <3> QED
      BY <2>1, <1>c, <1>e
  <2>3. Good(call')
    <3> HIDE DEF Good, n
    <3> QED
      BY <2>2, <2>5
  <2>4. conns' \in [Addresses -> Nat] /\ opened' \in [Addresses -> Nat]
    BY <1>2, <2>1, <1>f DEF MakeConn
  <2> QED
    BY <1>2, <2>3, <2>4 DEF MakeConn
<1>3. CASE GiveUp(q)
  BY <1>3, <1>c, <1>e, <1>f, Small DEF GiveUp, ClientGoes
<1>4. CASE Result(q)
  <2> DEFINE to == IF serving[q].at = "answered" /\ Decodes(serving[q].answer.payload)
                   THEN "returned" ELSE "failed"
  <2>1. to \in Sides \ {"unused"} /\ call' = [call EXCEPT ![q].at = to]
    BY <1>4, <1>c DEF Result, ClientGoes
  <2> QED
    BY <1>4, <2>1, <1>e, <1>f, Small DEF Result
<1> QED
  BY <1>1, <1>2, <1>3, <1>4

\* States of an actor and of a server's goroutine after each of their steps.
Boxed(s, q) == [s EXCEPT !.box = Append(@, q)]
Taken(s, q, ask) ==
  [at |-> "handling", box |-> Tail(s.box), message |-> q,
   replyFn |-> IF ask THEN q ELSE s.replyFn, prev |-> s.replyFn, replies |-> 0]
Replying(s) == [s EXCEPT !.at = "replying", !.replies = @ + 1]
Moved(s, to) == [s EXCEPT !.at = to]
Returned(s, ask) == [s EXCEPT !.at = "idle", !.replyFn = IF ask THEN s.prev ELSE @]

\* What they change, and what they keep: a message is put into the mailbox,
LEMMA BoxedIs ==
  ASSUME NEW s \in ActorState, NEW q \in Calls
  PROVE  /\ Boxed(s, q) \in ActorState /\ Boxed(s, q).box = Append(s.box, q)
         /\ Boxed(s, q).at = s.at /\ Boxed(s, q).message = s.message
         /\ Boxed(s, q).replyFn = s.replyFn /\ Boxed(s, q).prev = s.prev
         /\ Boxed(s, q).replies = s.replies
<1>1. Append(s.box, q) \in Seq(Calls)
  BY DEF ActorState
<1> QED
  BY <1>1 DEF Boxed, ActorState

\* the first is taken,
LEMMA TakenIs ==
  ASSUME NEW s \in ActorState, NEW q \in Calls, NEW ask \in BOOLEAN, s.box # <<>>
  PROVE  Taken(s, q, ask) \in ActorState
<1>1. Tail(s.box) \in Seq(Calls) /\ 0 \in 0..MaxReplies
  BY CallsAssumption DEF ActorState
<1> QED
  BY <1>1 DEF Taken, ActorState, Phases

\* the handler replies,
LEMMA ReplyingIs ==
  ASSUME NEW s \in ActorState, s.replies < MaxReplies
  PROVE  /\ Replying(s) \in ActorState /\ Replying(s).at = "replying"
         /\ Replying(s).replies = s.replies + 1 /\ Replying(s).box = s.box
         /\ Replying(s).message = s.message /\ Replying(s).replyFn = s.replyFn
         /\ Replying(s).prev = s.prev
<1>1. s.replies + 1 \in 0..MaxReplies
  BY CallsAssumption DEF ActorState
<1> QED
  BY <1>1 DEF Replying, ActorState, Phases

\* goes on or ends,
LEMMA MovedIs ==
  ASSUME NEW s \in ActorState, NEW to \in Phases
  PROVE  /\ Moved(s, to) \in ActorState /\ Moved(s, to).at = to
         /\ Moved(s, to).replies = s.replies /\ Moved(s, to).box = s.box
         /\ Moved(s, to).message = s.message /\ Moved(s, to).replyFn = s.replyFn
         /\ Moved(s, to).prev = s.prev
BY DEF Moved, ActorState

\* or returns.
LEMMA ReturnedIs ==
  ASSUME NEW s \in ActorState, NEW ask \in BOOLEAN
  PROVE  /\ Returned(s, ask) \in ActorState /\ Returned(s, ask).at = "idle"
         /\ Returned(s, ask).replies = s.replies /\ Returned(s, ask).box = s.box
         /\ Returned(s, ask).message = s.message /\ Returned(s, ask).prev = s.prev
         /\ Returned(s, ask).replyFn = IF ask THEN s.prev ELSE s.replyFn
BY DEF Returned, ActorState, Phases

\* The steps in these words.
LEMMA ActorSteps ==
  ASSUME CallsTypeOK, NEW a \in Addresses
  PROVE  /\ \A q \in Calls : Enqueued(a, q) \in {actor, [actor EXCEPT ![a] = Boxed(actor[a], q)]}
         /\ TakeCall(a) =>
              actor' = [actor EXCEPT ![a] = Taken(actor[a], Head(actor[a].box), IsAsk(Head(actor[a].box)))]
         /\ Reply(a) => actor' = [actor EXCEPT ![a] = Replying(actor[a])]
         /\ PutReply(a) => actor' = [actor EXCEPT ![a] = Moved(actor[a], "handling")]
         /\ Handled(a) => actor' = [actor EXCEPT ![a] = Returned(actor[a], IsAsk(actor[a].message))]
         /\ Panic(a) => \E to \in {"idle", "ended"} : actor' = [actor EXCEPT ![a] = Moved(actor[a], to)]
         /\ StopActor(a) => actor' = [actor EXCEPT ![a] = Moved(actor[a], "ended")]
<1>1. \A q \in Calls : Enqueued(a, q) \in {actor, [actor EXCEPT ![a] = Boxed(actor[a], q)]}
  BY Zenon DEF Enqueued, Boxed
<1>2. TakeCall(a) =>
        actor' = [actor EXCEPT ![a] = Taken(actor[a], Head(actor[a].box), IsAsk(Head(actor[a].box)))]
  BY DEF TakeCall, Taken
<1>3. Reply(a) => actor' = [actor EXCEPT ![a] = Replying(actor[a])]
  BY Zenon DEF Reply, Replying
<1>4. PutReply(a) => actor' = [actor EXCEPT ![a] = Moved(actor[a], "handling")]
  BY Zenon DEF PutReply, Moved
<1>5. Handled(a) => actor' = [actor EXCEPT ![a] = Returned(actor[a], IsAsk(actor[a].message))]
  BY Zenon DEF Handled, Returned
<1>6. Panic(a) => \E to \in {"idle", "ended"} : actor' = [actor EXCEPT ![a] = Moved(actor[a], to)]
  BY Zenon DEF Panic, Moved
<1>7. StopActor(a) => actor' = [actor EXCEPT ![a] = Moved(actor[a], "ended")]
  BY Zenon DEF StopActor, Moved
<1> QED
  BY <1>1, <1>2, <1>3, <1>4, <1>5, <1>6, <1>7

-----------------------------------------------------------------------------
(* The invariant. *)

In(s, q) == \E i \in 1..Len(s) : s[i] = q
Once(s) == \A i, j \in 1..Len(s) : s[i] = s[j] => i = j

\* How a mailbox changes when a call is put in or taken out.
LEMMA BoxFacts ==
  ASSUME NEW s \in Seq(Calls), NEW q \in Calls
  PROVE  /\ \A p \in Calls : In(Append(s, q), p) <=> (In(s, p) \/ p = q)
         /\ (Once(s) /\ ~In(s, q)) => Once(Append(s, q))
         /\ (s # <<>>) => /\ Head(s) \in Calls /\ In(s, Head(s))
                          /\ \A p \in Calls : In(Tail(s), p) => In(s, p)
                          /\ Once(s) => (Once(Tail(s)) /\ ~In(Tail(s), Head(s)))
         /\ \A p : In(s, p) => p \in Calls
<1>1. \A p \in Calls : In(Append(s, q), p) <=> (In(s, p) \/ p = q)
  BY DEF In
<1>2. (Once(s) /\ ~In(s, q)) => Once(Append(s, q))
  BY DEF In, Once
<1>3. ASSUME s # <<>>
      PROVE  /\ Head(s) \in Calls /\ In(s, Head(s))
             /\ \A p \in Calls : In(Tail(s), p) => In(s, p)
             /\ Once(s) => (Once(Tail(s)) /\ ~In(Tail(s), Head(s)))
  BY <1>3 DEF In, Once
<1>4. \A p : In(s, p) => p \in Calls
  BY DEF In
<1> QED
  BY <1>1, <1>2, <1>3, <1>4

Active(a) == actor[a].at \in {"handling", "replying"}

\* what reaches the server has been sent
Begun == \A q \in Calls : call[q].at = "unused" => call[q].conn = NoConn /\ serving[q].at = "none"

\* a call is in one mailbox, once, or being handled, and has reached the server
InOnePlace ==
  \A a \in Addresses :
    /\ Once(actor[a].box)
    /\ \A q \in Calls : In(actor[a].box, q) => (serving[q].at # "none" /\ call[q].to = a)
    /\ Active(a) => /\ actor[a].message \in Calls
                    /\ serving[actor[a].message].at # "none" /\ call[actor[a].message].to = a
                    /\ ~In(actor[a].box, actor[a].message)

Left == derailed \cup {NoCall}

\* whose reply function an actor has
Directed ==
  \A a \in Addresses :
    /\ (actor[a].at = "idle") => actor[a].replyFn \in Left
    /\ (Active(a) /\ IsAsk(actor[a].message)) =>
         (actor[a].replyFn = actor[a].message /\ actor[a].prev \in Left)
    /\ (Active(a) /\ ~IsAsk(actor[a].message)) => actor[a].replyFn \in Left
    /\ (actor[a].at = "replying") => (actor[a].replyFn # NoCall /\ actor[a].replies >= 1)

\* answers on their way, and those taken, are of their question
Answered ==
  \A q \in Calls \ derailed :
    /\ (replyCh[q] # <<>>) => (Len(replyCh[q]) = 1 /\ Head(replyCh[q]).of = q)
    /\ AnswersOwnQuestion(q)

\* an answer waits only for a question whose handler has replied
Replied ==
  \A q \in Calls \ derailed : (replyCh[q] # <<>>) =>
    /\ serving[q].at # "none"
    /\ \A a \in Addresses :
         /\ ~In(actor[a].box, q)
         /\ (actor[a].at = "handling" /\ actor[a].message = q) => actor[a].replies >= 1
         /\ (actor[a].at = "replying" /\ actor[a].message = q) => actor[a].replies >= 2

CallsInv == CallsTypeOK /\ Begun /\ InOnePlace /\ Directed /\ Answered /\ Replied

\* The invariant is what was to be shown of the questions, and more.
LEMMA InvIsEnough == CallsInv => QuestionsAreKeptApart
<1> SUFFICES ASSUME CallsInv PROVE QuestionsAreKeptApart
  OBVIOUS
<1>1. \A q \in Calls \ derailed : AnswersOwnQuestion(q)
  BY DEF CallsInv, Answered
<1>2. ASSUME NEW a \in Addresses, Stuck(a), actor[a].replyFn \notin derailed
      PROVE  actor[a].replies > 1
  <2>1. /\ actor[a].at = "replying" /\ Active(a) /\ actor[a].replyFn = actor[a].message
        /\ actor[a].message \in Calls \ derailed /\ replyCh[actor[a].message] # <<>>
    BY <1>2 DEF Stuck, CallsInv, Active, Directed, InOnePlace, Left
  <2>2. actor[a].replies >= 2 /\ actor[a].replies \in Nat
    BY <2>1, TypeIs DEF CallsInv, Replied, ActorState
  <2> QED
    BY <2>2
<1> QED
  BY <1>1, <1>2 DEF QuestionsAreKeptApart

\* The invariant holds at first.
LEMMA InvAtFirst == CallsInit => CallsInv
<1> SUFFICES ASSUME CallsInit PROVE CallsInv
  OBVIOUS
<1>1. CallsTypeOK
  BY TypesAtFirst, CallsAssumption
<1>2. Begun /\ InOnePlace /\ Directed
  BY Small DEF CallsInit, Begun, InOnePlace, Directed, Active, Once, In, Left
<1>3. Answered /\ Replied
  BY DEF CallsInit, Answered, Replied, AnswersOwnQuestion, NoAnswer
<1> QED
  BY <1>1, <1>2, <1>3 DEF CallsInv

-----------------------------------------------------------------------------
(* The steps. *)

\* The calling goroutines leave what the server has alone.
LEMMA ClientKeeps ==
  ASSUME CallsInv, NEW q \in Calls, Begin(q) \/ MakeConn(q) \/ GiveUp(q) \/ Result(q)
  PROVE  CallsInv'
<1>0. /\ CallsTypeOK /\ call \in [Calls -> Call] /\ serving \in [Calls -> Serving]
      /\ actor \in [Addresses -> ActorState]
  BY TypeIs DEF CallsInv
<1>1. /\ call' \in [Calls -> Call] /\ call'[q].at # "unused"
      /\ \A p \in Calls \ {q} : call'[p] = call[p]
      /\ (call[q].at # "unused") => (call'[q].to = call[q].to /\ call'[q].kind = call[q].kind)
      /\ conns' \in [Addresses -> Nat] /\ opened' \in [Addresses -> Nat]
      /\ UNCHANGED <<serving, actor, replyCh, derailed>>
  BY <1>0, ClientSteps
<1>2. CallsTypeOK'
  BY <1>0, <1>1, TypeIs DEF CallsTypeOK, Call, Serving, ActorState, Sides, Phases
<1>3. \A p \in Calls : (serving[p].at # "none") => (call'[p].to = call[p].to /\ call'[p].kind = call[p].kind)
  BY <1>1 DEF CallsInv, Begun
<1>4. Begun'
  BY <1>1 DEF CallsInv, Begun
<1>5. InOnePlace'
  BY <1>1, <1>3 DEF CallsInv, InOnePlace, Active
<1>6. Directed'
  <2>1. \A a \in Addresses : Active(a) => (IsAsk(actor[a].message)' <=> IsAsk(actor[a].message))
    BY <1>1, <1>3 DEF CallsInv, InOnePlace, Active, IsAsk
  <2> QED
    BY <1>1, <2>1 DEF CallsInv, Directed, Active, Left
<1>7. Answered' /\ Replied'
  BY <1>1 DEF CallsInv, Answered, Replied, AnswersOwnQuestion
<1> QED
  BY <1>2, <1>4, <1>5, <1>6, <1>7 DEF CallsInv

\* What a step leaves of the types, when it leaves the calls alone.
LEMMA ServerTypes ==
  ASSUME CallsTypeOK, UNCHANGED <<call, conns, opened>>,
         serving' \in [Calls -> Serving], actor' \in [Addresses -> ActorState],
         replyCh' \in [Calls -> Seq(Answers)], derailed' \subseteq Calls
  PROVE  CallsTypeOK'
BY TypeIs DEF CallsTypeOK, Call, Serving, ActorState, Sides, Phases

\* A request that arrives goes to one mailbox, behind what is there.
LEMMA ServeKeeps ==
  ASSUME CallsInv, NEW q \in Calls, Serve(q) PROVE CallsInv'
<1> DEFINE a == call[q].to
           to == IF ~(actor[a].at # "ended" /\ Decodes(call[q].payload)) THEN "refused"
                 ELSE IF call[q].kind = "Ask" THEN "asking" ELSE "answered"
<1>0. /\ CallsTypeOK /\ call \in [Calls -> Call] /\ serving \in [Calls -> Serving]
      /\ actor \in [Addresses -> ActorState] /\ a \in Addresses /\ actor[a] \in ActorState
      /\ actor[a].box \in Seq(Calls) /\ derailed \subseteq Calls /\ replyCh \in [Calls -> Seq(Answers)]
  BY TypeIs DEF CallsInv, Call, ActorState
<1>1. /\ serving[q].at = "none" /\ call[q].conn # NoConn
      /\ serving' = [serving EXCEPT ![q].at = to]
      /\ actor' \in {actor, Enqueued(a, q)}
      /\ UNCHANGED <<call, conns, opened, replyCh, derailed>>
  BY DEF Serve
<1>2. actor' \in {actor, [actor EXCEPT ![a] = Boxed(actor[a], q)]}
  BY <1>0, <1>1, ActorSteps
<1>3. /\ serving' \in [Calls -> Serving] /\ serving'[q].at # "none"
      /\ serving'[q].answer = serving[q].answer
      /\ \A p \in Calls \ {q} : serving'[p] = serving[p]
  <2>1. to \in {"asking", "answered", "refused"}
    OBVIOUS
  <2> HIDE DEF to
  <2> QED
    BY <1>0, <1>1, <2>1 DEF Serving
<1>4. /\ actor' \in [Addresses -> ActorState]
      /\ \A b \in Addresses : /\ actor'[b].at = actor[b].at /\ actor'[b].message = actor[b].message
                              /\ actor'[b].replyFn = actor[b].replyFn /\ actor'[b].prev = actor[b].prev
                              /\ actor'[b].replies = actor[b].replies
                              /\ actor'[b].box # actor[b].box =>
                                   (b = a /\ actor'[b].box = Append(actor[b].box, q))
  <2>1. CASE actor' = actor
    BY <1>0, <2>1
  <2>2. CASE actor' = [actor EXCEPT ![a] = Boxed(actor[a], q)]
    <3>1. /\ Boxed(actor[a], q) \in ActorState /\ Boxed(actor[a], q).box = Append(actor[a].box, q)
          /\ Boxed(actor[a], q).at = actor[a].at /\ Boxed(actor[a], q).message = actor[a].message
          /\ Boxed(actor[a], q).replyFn = actor[a].replyFn /\ Boxed(actor[a], q).prev = actor[a].prev
          /\ Boxed(actor[a], q).replies = actor[a].replies
      BY <1>0, BoxedIs
    <3> QED
      BY <1>0, <2>2, <3>1
  <2> QED
    BY <1>2, <2>1, <2>2
<1>5. CallsTypeOK'
  BY <1>0, <1>1, <1>3, <1>4, ServerTypes
<1>6. Begun'
  BY <1>1, <1>3 DEF CallsInv, Begun
<1>7. \A b \in Addresses : ~In(actor[b].box, q) /\ (Active(b) => actor[b].message # q)
  BY <1>1 DEF CallsInv, InOnePlace
<1>8. \A b \in Addresses : /\ Once(actor'[b].box)
                           /\ \A p \in Calls : In(actor'[b].box, p) => (In(actor[b].box, p) \/ (p = q /\ b = a))
  <2> TAKE b \in Addresses
  <2>1. CASE actor'[b].box = actor[b].box
    BY <2>1 DEF CallsInv, InOnePlace
  <2>2. CASE actor'[b].box # actor[b].box
    <3>1. b = a /\ actor'[b].box = Append(actor[a].box, q) /\ Once(actor[a].box)
      BY <1>4, <2>2 DEF CallsInv, InOnePlace
    <3>2. /\ \A p \in Calls : In(Append(actor[a].box, q), p) <=> (In(actor[a].box, p) \/ p = q)
          /\ (Once(actor[a].box) /\ ~In(actor[a].box, q)) => Once(Append(actor[a].box, q))
      BY <1>0, BoxFacts
    <3> HIDE DEF a
    <3> QED
      BY <1>0, <1>7, <3>1, <3>2
  <2> QED
    BY <2>1, <2>2
<1>9. InOnePlace'
  BY <1>1, <1>3, <1>4, <1>7, <1>8 DEF CallsInv, InOnePlace, Active
<1>10. Directed'
  BY <1>1, <1>4 DEF CallsInv, Directed, Active, Left, IsAsk
<1>11. Answered'
  BY <1>1, <1>3 DEF CallsInv, Answered, AnswersOwnQuestion
<1>12. Replied'
  BY <1>1, <1>3, <1>4, <1>8 DEF CallsInv, Replied
<1> QED
  BY <1>5, <1>6, <1>9, <1>10, <1>11, <1>12 DEF CallsInv

\* An answer that is taken, or no longer waited for.
LEMMA AskEnds ==
  ASSUME CallsInv, NEW q \in Calls, TakeAnswer(q) \/ AskTimeout(q) PROVE CallsInv'
<1>0. /\ CallsTypeOK /\ serving \in [Calls -> Serving] /\ derailed \subseteq Calls
      /\ actor \in [Addresses -> ActorState] /\ replyCh \in [Calls -> Seq(Answers)]
  BY TypeIs DEF CallsInv
<1>1. /\ UNCHANGED <<call, conns, opened, actor, derailed>> /\ serving[q].at = "asking"
      /\ serving' \in [Calls -> Serving] /\ serving'[q].at # "none"
      /\ \A p \in Calls \ {q} : serving'[p] = serving[p]
      /\ replyCh' \in [Calls -> Seq(Answers)] /\ replyCh'[q] \in {replyCh[q], <<>>}
      /\ \A p \in Calls \ {q} : replyCh'[p] = replyCh[p]
      /\ \/ serving'[q].answer \in {serving[q].answer, NoAnswer}
         \/ replyCh[q] # <<>> /\ serving'[q].answer = Head(replyCh[q])
  <2>1. CASE TakeAnswer(q)
    <3> DEFINE s == IF Encodes(Head(replyCh[q]).payload) THEN [at |-> "answered", answer |-> Head(replyCh[q])]
                    ELSE [at |-> "refused", answer |-> NoAnswer]
    <3>1. /\ serving[q].at = "asking" /\ replyCh[q] # <<>> /\ serving' = [serving EXCEPT ![q] = s]
          /\ replyCh' = [replyCh EXCEPT ![q] = <<>>] /\ UNCHANGED <<call, conns, opened, actor, derailed>>
      BY <2>1 DEF TakeAnswer
    <3>2. Head(replyCh[q]) \in Answers /\ <<>> \in Seq(Answers)
      BY <1>0, <3>1
    <3>3. s \in Serving /\ s.at # "none" /\ s.answer \in {NoAnswer, Head(replyCh[q])}
      BY <3>2, Small DEF Serving
    <3> HIDE DEF s
    <3> QED
      BY <1>0, <3>1, <3>2, <3>3
  <2>2. CASE AskTimeout(q)
    <3>1. /\ serving[q].at = "asking" /\ serving' = [serving EXCEPT ![q].at = "refused"]
          /\ UNCHANGED <<call, conns, opened, actor, replyCh, derailed>>
      BY <2>2 DEF AskTimeout
    <3> QED
      BY <1>0, <3>1 DEF Serving
  <2> QED
    BY <2>1, <2>2
<1>2. CallsTypeOK'
  BY <1>0, <1>1, ServerTypes
<1>6. Begun'
  BY <1>1 DEF CallsInv, Begun
<1>7. InOnePlace'
  <2>1. \A p \in Calls : (serving[p].at # "none") => (serving'[p].at # "none")
    BY <1>1
  <2>2. actor' = actor /\ call' = call
    BY <1>1
  <2> QED
    BY <2>1, <2>2 DEF CallsInv, InOnePlace, Active
<1>8. Directed'
  BY <1>1 DEF CallsInv, Directed, Active, Left, IsAsk
<1>4. Answered'
  BY <1>1 DEF CallsInv, Answered, AnswersOwnQuestion, NoAnswer
<1>5. Replied'
  BY <1>1 DEF CallsInv, Replied
<1> QED
  BY <1>2, <1>4, <1>5, <1>6, <1>7, <1>8 DEF CallsInv

\* What a step of the actor at a must keep, when it leaves calls and server alone.
ActorKeeps(a) ==
  /\ UNCHANGED <<call, conns, opened, serving>>
  /\ actor' \in [Addresses -> ActorState] /\ \A b \in Addresses \ {a} : actor'[b] = actor[b]

\* Then the others are as they were.
LEMMA OthersStay ==
  ASSUME CallsInv, NEW a \in Addresses, ActorKeeps(a), derailed \subseteq derailed',
         /\ Once(actor'[a].box)
         /\ \A q \in Calls : In(actor'[a].box, q) => (serving[q].at # "none" /\ call[q].to = a)
         /\ Active(a)' => /\ actor'[a].message \in Calls
                          /\ serving[actor'[a].message].at # "none" /\ call[actor'[a].message].to = a
                          /\ ~In(actor'[a].box, actor'[a].message),
         /\ (actor'[a].at = "idle") => actor'[a].replyFn \in Left'
         /\ (Active(a)' /\ IsAsk(actor'[a].message)) =>
              (actor'[a].replyFn = actor'[a].message /\ actor'[a].prev \in Left')
         /\ (Active(a)' /\ ~IsAsk(actor'[a].message)) => actor'[a].replyFn \in Left'
         /\ (actor'[a].at = "replying") => (actor'[a].replyFn # NoCall /\ actor'[a].replies >= 1)
  PROVE  Begun' /\ InOnePlace' /\ Directed'
<1>1. /\ UNCHANGED <<call, conns, opened, serving>> /\ Left \subseteq Left'
      /\ \A b \in Addresses \ {a} : actor'[b] = actor[b]
  BY DEF ActorKeeps, Left
<1>2. Begun'
  BY <1>1 DEF CallsInv, Begun
<1>3. InOnePlace'
  <2> SUFFICES ASSUME NEW b \in Addresses
               PROVE  /\ Once(actor'[b].box)
                      /\ \A q \in Calls : In(actor'[b].box, q) => (serving[q].at # "none" /\ call[q].to = b)
                      /\ Active(b)' => /\ actor'[b].message \in Calls
                                       /\ serving[actor'[b].message].at # "none"
                                       /\ call[actor'[b].message].to = b
                                       /\ ~In(actor'[b].box, actor'[b].message)
    BY <1>1 DEF InOnePlace
  <2>1. CASE b = a
    BY <2>1
  <2>2. CASE b # a
    BY <1>1, <2>2 DEF CallsInv, InOnePlace, Active
  <2> QED
    BY <2>1, <2>2
<1>4. Directed'
  <2> SUFFICES ASSUME NEW b \in Addresses
               PROVE  /\ (actor'[b].at = "idle") => actor'[b].replyFn \in Left'
                      /\ (Active(b)' /\ IsAsk(actor'[b].message)) =>
                           (actor'[b].replyFn = actor'[b].message /\ actor'[b].prev \in Left')
                      /\ (Active(b)' /\ ~IsAsk(actor'[b].message)) => actor'[b].replyFn \in Left'
                      /\ (actor'[b].at = "replying") =>
                           (actor'[b].replyFn # NoCall /\ actor'[b].replies >= 1)
    BY <1>1 DEF Directed, IsAsk
  <2>1. CASE b = a
    BY <2>1
  <2>2. CASE b # a
    BY <1>1, <2>2 DEF CallsInv, Directed, Active
  <2> QED
    BY <2>1, <2>2
<1> QED
  BY <1>2, <1>3, <1>4

\* Taking a message: its question has no answer yet.
LEMMA TakeCallKeeps ==
  ASSUME CallsInv, NEW a \in Addresses, TakeCall(a) PROVE CallsInv'
<1> DEFINE q == Head(actor[a].box)
           s == Taken(actor[a], q, IsAsk(q))
<1>0. /\ CallsTypeOK /\ serving \in [Calls -> Serving] /\ derailed \subseteq Calls
      /\ actor \in [Addresses -> ActorState] /\ replyCh \in [Calls -> Seq(Answers)]
      /\ actor[a] \in ActorState /\ actor[a].box \in Seq(Calls)
  BY TypeIs DEF CallsInv, ActorState
<1>1. /\ actor[a].at = "idle" /\ actor[a].box # <<>>
      /\ UNCHANGED <<call, serving, conns, opened, replyCh, derailed>>
  BY DEF TakeCall
<1>2. actor' = [actor EXCEPT ![a] = s]
  BY <1>0, ActorSteps
<1>3. /\ q \in Calls /\ In(actor[a].box, q)
      /\ \A p \in Calls : In(Tail(actor[a].box), p) => In(actor[a].box, p)
      /\ Once(Tail(actor[a].box)) /\ ~In(Tail(actor[a].box), q)
  BY <1>0, <1>1, BoxFacts DEF CallsInv, InOnePlace
<1>4. s \in ActorState
  BY <1>0, <1>1, <1>3, TakenIs DEF IsAsk
<1>5. /\ s.at = "handling" /\ s.box = Tail(actor[a].box) /\ s.message = q /\ s.replies = 0
      /\ s.prev = actor[a].replyFn /\ s.replyFn = IF IsAsk(q) THEN q ELSE actor[a].replyFn
  BY DEF Taken
<1> HIDE DEF s, q
<1>6. actor' \in [Addresses -> ActorState] /\ actor'[a] = s /\ \A b \in Addresses \ {a} : actor'[b] = actor[b]
  BY <1>0, <1>2, <1>4
<1>7. CallsTypeOK'
  BY <1>0, <1>1, <1>6, ServerTypes
<1>8. Begun' /\ InOnePlace' /\ Directed'
  <2>1. ActorKeeps(a) /\ derailed \subseteq derailed' /\ Left' = Left
    BY <1>1, <1>6 DEF ActorKeeps, Left
  <2>2. /\ Once(s.box)
        /\ \A p \in Calls : In(s.box, p) => (serving[p].at # "none" /\ call[p].to = a)
        /\ s.message \in Calls /\ serving[s.message].at # "none" /\ call[s.message].to = a
        /\ ~In(s.box, s.message)
    BY <1>3, <1>5 DEF CallsInv, InOnePlace
  <2>3. /\ IsAsk(s.message) => (s.replyFn = s.message /\ s.prev \in Left)
        /\ ~IsAsk(s.message) => s.replyFn \in Left
    BY <1>1, <1>5 DEF CallsInv, Directed
  <2> QED
    BY <1>5, <1>6, <2>1, <2>2, <2>3, OthersStay
<1>9. Answered'
  BY <1>1 DEF CallsInv, Answered, AnswersOwnQuestion
<1>10. Replied'
  <2>1. (q \notin derailed) => replyCh[q] = <<>>
    BY <1>3 DEF CallsInv, Replied
  <2>2. \A p \in Calls : In(s.box, p) => In(actor[a].box, p)
    BY <1>3, <1>5
  <2> QED
    BY <1>1, <1>5, <1>6, <2>1, <2>2 DEF CallsInv, Replied
<1> QED
  BY <1>7, <1>8, <1>9, <1>10 DEF CallsInv

\* A reply is begun.
LEMMA ReplyKeeps ==
  ASSUME CallsInv, NEW a \in Addresses, Reply(a) PROVE CallsInv'
<1> DEFINE s == Replying(actor[a])
<1>0. /\ CallsTypeOK /\ serving \in [Calls -> Serving] /\ derailed \subseteq Calls
      /\ actor \in [Addresses -> ActorState] /\ replyCh \in [Calls -> Seq(Answers)]
      /\ actor[a] \in ActorState
  BY TypeIs DEF CallsInv
<1>1. /\ actor[a].at = "handling" /\ actor[a].replyFn # NoCall /\ actor[a].replies < MaxReplies
      /\ UNCHANGED <<call, serving, conns, opened, replyCh, derailed>>
  BY DEF Reply
<1>2. actor' = [actor EXCEPT ![a] = s]
  BY <1>0, ActorSteps
<1>3. /\ s \in ActorState /\ s.at = "replying" /\ s.replies = actor[a].replies + 1 /\ s.box = actor[a].box
      /\ s.message = actor[a].message /\ s.replyFn = actor[a].replyFn /\ s.prev = actor[a].prev
      /\ actor[a].replies \in Nat
  BY <1>0, <1>1, ReplyingIs, CallsAssumption DEF ActorState
<1> HIDE DEF s
<1>4. actor' \in [Addresses -> ActorState] /\ actor'[a] = s /\ \A b \in Addresses \ {a} : actor'[b] = actor[b]
  BY <1>0, <1>2, <1>3
<1>5. CallsTypeOK'
  BY <1>0, <1>1, <1>4, ServerTypes
<1>6. Begun' /\ InOnePlace' /\ Directed'
  <2>1. ActorKeeps(a) /\ derailed \subseteq derailed' /\ Left' = Left /\ Active(a)
    BY <1>1, <1>4 DEF ActorKeeps, Left, Active
  <2>2. /\ Once(s.box)
        /\ \A p \in Calls : In(s.box, p) => (serving[p].at # "none" /\ call[p].to = a)
        /\ s.message \in Calls /\ serving[s.message].at # "none" /\ call[s.message].to = a
        /\ ~In(s.box, s.message)
    BY <1>3, <2>1 DEF CallsInv, InOnePlace
  <2>3. /\ IsAsk(s.message) => (s.replyFn = s.message /\ s.prev \in Left)
        /\ ~IsAsk(s.message) => s.replyFn \in Left
    BY <1>1, <1>3, <2>1 DEF CallsInv, Directed
  <2>4. s.replyFn # NoCall /\ s.replies >= 1
    BY <1>1, <1>3
  <2> QED
    BY <1>3, <1>4, <2>1, <2>2, <2>3, <2>4, OthersStay
<1>7. Answered'
  BY <1>1 DEF CallsInv, Answered, AnswersOwnQuestion
<1>8. Replied'
  BY <1>1, <1>3, <1>4 DEF CallsInv, Replied
<1> QED
  BY <1>5, <1>6, <1>7, <1>8 DEF CallsInv

\* The answer is put where the asker looks for it.
LEMMA PutReplyKeeps ==
  ASSUME CallsInv, NEW a \in Addresses, PutReply(a) PROVE CallsInv'
<1> DEFINE s == Moved(actor[a], "handling")
           q == actor[a].replyFn
<1>0. /\ CallsTypeOK /\ serving \in [Calls -> Serving] /\ derailed \subseteq Calls
      /\ actor \in [Addresses -> ActorState] /\ replyCh \in [Calls -> Seq(Answers)]
      /\ actor[a] \in ActorState
  BY TypeIs DEF CallsInv
<1>1. /\ actor[a].at = "replying" /\ UNCHANGED <<call, serving, conns, opened, derailed>>
      /\ replyCh[q] = <<>>
  BY DEF PutReply
<1>x. PICK m \in Payloads : replyCh' = [replyCh EXCEPT ![q] = <<[of |-> actor[a].message, payload |-> m]>>]
  BY DEF PutReply
<1>2. actor' = [actor EXCEPT ![a] = s]
  BY <1>0, ActorSteps
<1>3. /\ s \in ActorState /\ s.at = "handling" /\ s.replies = actor[a].replies /\ s.box = actor[a].box
      /\ s.message = actor[a].message /\ s.replyFn = actor[a].replyFn /\ s.prev = actor[a].prev
  BY <1>0, MovedIs DEF Phases
<1>4. /\ Active(a) /\ q # NoCall /\ q \in Calls /\ actor[a].replies >= 1 /\ actor[a].message \in Calls
      /\ (q \notin derailed) => q = actor[a].message
  BY <1>0, <1>1 DEF CallsInv, Directed, Active, ActorState, InOnePlace, Left
<1>5. /\ replyCh' \in [Calls -> Seq(Answers)] /\ \A p \in Calls \ {q} : replyCh'[p] = replyCh[p]
      /\ Len(replyCh'[q]) = 1 /\ Head(replyCh'[q]).of = actor[a].message
  <2>1. [of |-> actor[a].message, payload |-> m] \in Answers
    BY <1>4 DEF Answers
  <2> QED
    BY <1>0, <1>x, <1>4, <2>1
<1> HIDE DEF s
<1>6. actor' \in [Addresses -> ActorState] /\ actor'[a] = s /\ \A b \in Addresses \ {a} : actor'[b] = actor[b]
  BY <1>0, <1>2, <1>3
<1>7. CallsTypeOK'
  BY <1>0, <1>1, <1>5, <1>6, ServerTypes
<1>8. Begun' /\ InOnePlace' /\ Directed'
  <2>1. ActorKeeps(a) /\ derailed \subseteq derailed' /\ Left' = Left
    BY <1>1, <1>6 DEF ActorKeeps, Left
  <2>2. /\ Once(s.box)
        /\ \A p \in Calls : In(s.box, p) => (serving[p].at # "none" /\ call[p].to = a)
        /\ s.message \in Calls /\ serving[s.message].at # "none" /\ call[s.message].to = a
        /\ ~In(s.box, s.message)
    BY <1>3, <1>4 DEF CallsInv, InOnePlace
  <2>3. /\ IsAsk(s.message) => (s.replyFn = s.message /\ s.prev \in Left)
        /\ ~IsAsk(s.message) => s.replyFn \in Left
    BY <1>3, <1>4 DEF CallsInv, Directed
  <2> QED
    BY <1>3, <1>6, <2>1, <2>2, <2>3, OthersStay
<1>9. Answered'
  BY <1>1, <1>4, <1>5 DEF CallsInv, Answered, AnswersOwnQuestion
<1>10. Replied'
  <2> SUFFICES ASSUME NEW p \in Calls \ derailed, replyCh'[p] # <<>>
               PROVE  /\ serving[p].at # "none"
                      /\ \A b \in Addresses :
                           /\ ~In(actor'[b].box, p)
                           /\ (actor'[b].at = "handling" /\ actor'[b].message = p) => actor'[b].replies >= 1
                           /\ (actor'[b].at = "replying" /\ actor'[b].message = p) => actor'[b].replies >= 2
    BY <1>1 DEF Replied
  <2>1. CASE p = q
    <3>1. /\ p = actor[a].message /\ serving[p].at # "none" /\ call[p].to = a /\ ~In(actor[a].box, p)
      BY <1>4, <2>1 DEF CallsInv, InOnePlace
    <3>2. \A b \in Addresses \ {a} : ~In(actor[b].box, p) /\ (Active(b) => actor[b].message # p)
      BY <3>1 DEF CallsInv, InOnePlace
    <3> QED
      BY <1>3, <1>4, <1>6, <3>1, <3>2 DEF Active
  <2>2. CASE p # q
    <3>1. replyCh[p] # <<>>
      BY <1>5, <2>2
    <3>2. /\ serving[p].at # "none"
          /\ \A b \in Addresses :
               /\ ~In(actor[b].box, p)
               /\ (actor[b].at = "handling" /\ actor[b].message = p) => actor[b].replies >= 1
               /\ (actor[b].at = "replying" /\ actor[b].message = p) => actor[b].replies >= 2
      BY <3>1 DEF CallsInv, Replied
    <3> QED
      BY <1>3, <1>4, <1>6, <3>2
  <2> QED
    BY <2>1, <2>2
<1> QED
  BY <1>7, <1>8, <1>9, <1>10 DEF CallsInv

\* A handler returns, panics, or is not called any more.
LEMMA HandlerEnds ==
  ASSUME CallsInv, NEW a \in Addresses, Handled(a) \/ Panic(a) \/ StopActor(a) PROVE CallsInv'
<1>0. /\ CallsTypeOK /\ serving \in [Calls -> Serving] /\ derailed \subseteq Calls
      /\ actor \in [Addresses -> ActorState] /\ replyCh \in [Calls -> Seq(Answers)]
      /\ actor[a] \in ActorState
  BY TypeIs DEF CallsInv
<1>1. /\ UNCHANGED <<call, serving, conns, opened, replyCh>>
      /\ derailed \subseteq derailed' /\ derailed' \subseteq Calls
  <2>1. (actor[a].at = "handling") => actor[a].message \in Calls
    BY DEF CallsInv, InOnePlace, Active
  <2> QED
    BY <1>0, <2>1 DEF Handled, Panic, StopActor
<1>2. PICK s \in ActorState :
        /\ actor' = [actor EXCEPT ![a] = s] /\ s.at \in {"idle", "ended"} /\ s.box = actor[a].box
        /\ (s.at = "idle") => s.replyFn \in Left'
  <2>1. CASE Handled(a)
    <3> DEFINE r == Returned(actor[a], IsAsk(actor[a].message))
    <3>1. actor' = [actor EXCEPT ![a] = r] /\ Left' = Left /\ Active(a)
      BY <1>0, <2>1, ActorSteps DEF Handled, Left, Active
    <3>2. /\ r \in ActorState /\ r.at = "idle" /\ r.box = actor[a].box
          /\ r.replyFn = IF IsAsk(actor[a].message) THEN actor[a].prev ELSE actor[a].replyFn
      BY <1>0, ReturnedIs DEF IsAsk
    <3>3. r.replyFn \in Left
      BY <3>1, <3>2 DEF CallsInv, Directed
    <3> HIDE DEF r
    <3> QED
      BY <3>1, <3>2, <3>3
  <2>2. CASE Panic(a)
    <3>1. PICK to \in {"idle", "ended"} : actor' = [actor EXCEPT ![a] = Moved(actor[a], to)]
      BY <1>0, <2>2, ActorSteps
    <3>2. /\ Moved(actor[a], to) \in ActorState /\ Moved(actor[a], to).at = to
          /\ Moved(actor[a], to).box = actor[a].box /\ Moved(actor[a], to).replyFn = actor[a].replyFn
      BY <1>0, MovedIs DEF Phases
    <3>3. actor[a].replyFn \in Left'
      BY <2>2 DEF Panic, CallsInv, Directed, Active, Left
    <3> QED
      BY <3>1, <3>2, <3>3
  <2>3. CASE StopActor(a)
    <3>1. actor' = [actor EXCEPT ![a] = Moved(actor[a], "ended")]
      BY <1>0, <2>3, ActorSteps
    <3>2. /\ Moved(actor[a], "ended") \in ActorState /\ Moved(actor[a], "ended").at = "ended"
          /\ Moved(actor[a], "ended").box = actor[a].box
      BY <1>0, MovedIs DEF Phases
    <3> QED
      BY <3>1, <3>2
  <2> QED
    BY <2>1, <2>2, <2>3
<1>3. actor' \in [Addresses -> ActorState] /\ actor'[a] = s /\ \A b \in Addresses \ {a} : actor'[b] = actor[b]
  BY <1>0, <1>2
<1>4. CallsTypeOK'
  BY <1>0, <1>1, <1>3, ServerTypes
<1>5. Begun' /\ InOnePlace' /\ Directed'
  <2>1. ActorKeeps(a) /\ ~Active(a)' /\ s.at # "replying"
    BY <1>1, <1>2, <1>3 DEF ActorKeeps, Active
  <2>2. /\ Once(s.box)
        /\ \A p \in Calls : In(s.box, p) => (serving[p].at # "none" /\ call[p].to = a)
    BY <1>2 DEF CallsInv, InOnePlace
  <2> QED
    BY <1>1, <1>2, <1>3, <2>1, <2>2, OthersStay
<1>6. Answered'
  BY <1>1 DEF CallsInv, Answered, AnswersOwnQuestion
<1>7. Replied'
  BY <1>1, <1>2, <1>3 DEF CallsInv, Replied
<1> QED
  BY <1>4, <1>5, <1>6, <1>7 DEF CallsInv

-----------------------------------------------------------------------------

\* Every step keeps the invariant.
LEMMA InvIsKept == CallsInv /\ [CallsNext]_callVars => CallsInv'
<1> SUFFICES ASSUME CallsInv, [CallsNext]_callVars PROVE CallsInv'
  OBVIOUS
<1>1. CASE CallsNext
  <2>1. ASSUME NEW q \in Calls, Begin(q) \/ MakeConn(q) \/ GiveUp(q) \/ Result(q) PROVE CallsInv'
    BY <2>1, ClientKeeps
  <2>2. ASSUME NEW q \in Calls, Serve(q) PROVE CallsInv'
    BY <2>2, ServeKeeps
  <2>3. ASSUME NEW q \in Calls, TakeAnswer(q) \/ AskTimeout(q) PROVE CallsInv'
    BY <2>3, AskEnds
  <2>4. ASSUME NEW a \in Addresses, TakeCall(a) PROVE CallsInv'
    BY <2>4, TakeCallKeeps
  <2>5. ASSUME NEW a \in Addresses, Reply(a) PROVE CallsInv'
    BY <2>5, ReplyKeeps
  <2>6. ASSUME NEW a \in Addresses, PutReply(a) PROVE CallsInv'
    BY <2>6, PutReplyKeeps
  <2>7. ASSUME NEW a \in Addresses, Handled(a) \/ Panic(a) \/ StopActor(a) PROVE CallsInv'
    BY <2>7, HandlerEnds
  <2> QED
    BY <1>1, <2>1, <2>2, <2>3, <2>4, <2>5, <2>6, <2>7 DEF CallsNext
<1>2. CASE UNCHANGED callVars
  BY <1>2 DEF callVars, CallsInv, CallsTypeOK, Begun, InOnePlace, Active, Directed, Left, IsAsk,
              Answered, AnswersOwnQuestion, Replied
<1> QED
  BY <1>1, <1>2

\* The variables have their types, whatever the calls, the replies and the panics.
THEOREM CallsTypeCorrect == CallsSpec => []CallsTypeOK
<1>1. CallsInv => CallsTypeOK
  BY DEF CallsInv
<1> QED
  BY <1>1, InvAtFirst, InvIsKept, PTL DEF CallsSpec

\* Questions are kept apart (localActorRef.Ask, dispatch, Reply, RemoteServer.Ask):
\* however many callers, messages, timeouts and panics there are, no caller is
\* given another one's answer and no Reply blocks an actor for ever, except to a
\* question whose handler has panicked or replied more than once.
THEOREM QuestionsAreAlwaysKeptApart == CallsSpec => []QuestionsAreKeptApart
BY InvAtFirst, InvIsKept, InvIsEnough, PTL DEF CallsSpec

-----------------------------------------------------------------------------
(* Connections. *)

\* what was created was kept, and every call uses what is kept
PoolInv ==
  /\ opened = conns /\ \A a \in Addresses : conns[a] \in {NoConn, 1}
  /\ \A q \in Calls : call[q].conn \in {NoConn, conns[call[q].to]}

\* A call that keeps its address and connection, or gets those of the pool.
LEMMA PoolStep ==
  ASSUME CallsTypeOK, CallsTypeOK', PoolInv, NEW q \in Calls,
         opened' = conns', \A a \in Addresses : conns'[a] \in {NoConn, 1},
         \A a \in Addresses : (conns[a] # NoConn) => (conns'[a] = conns[a]),
         \A p \in Calls \ {q} : call'[p] = call[p],
         call'[q].conn \in {NoConn, conns'[call'[q].to]}
  PROVE  PoolInv'
<1>1. \A p \in Calls : call[p].to \in Addresses /\ call'[p].to \in Addresses
  BY TypeIs DEF CallsTypeOK
<1>2. ASSUME NEW p \in Calls PROVE call'[p].conn \in {NoConn, conns'[call'[p].to]}
  <2>1. CASE p = q
    BY <2>1
  <2>2. CASE p # q
    BY <1>1, <2>2 DEF PoolInv
  <2> QED
    BY <2>1, <2>2
<1> QED
  BY <1>2 DEF PoolInv

\* Every step keeps the pool right.
LEMMA PoolIsKept == CallsTypeOK /\ CallsTypeOK' /\ PoolInv /\ [CallsNext]_callVars => PoolInv'
<1> SUFFICES ASSUME CallsTypeOK, CallsTypeOK', PoolInv, [CallsNext]_callVars PROVE PoolInv'
  OBVIOUS
<1>0. /\ call \in [Calls -> Call] /\ conns \in [Addresses -> Nat]
      /\ \A q \in Calls : call[q] \in Call /\ call[q].to \in Addresses
  BY TypeIs DEF Call
<1>1. ASSUME NEW q \in Calls, Begin(q) PROVE PoolInv'
  <2>1. /\ UNCHANGED <<conns, opened>> /\ \A p \in Calls \ {q} : call'[p] = call[p]
        /\ call'[q].conn \in {NoConn, conns[call'[q].to]}
    <3>1. CASE call' = [call EXCEPT ![q].at = "failed"]
      <4>1. call' = [call EXCEPT ![q] = At(call[q], "failed")]
        BY <3>1, Zenon DEF At
      <4> QED
        BY <1>0, <1>1, <4>1, CallWith, Small DEF Begin, PoolInv, Sides
    <3>2. CASE call' # [call EXCEPT ![q].at = "failed"]
      <4>1. PICK m \in Payloads, k \in {"Tell", "Ask"}, a \in Addresses :
              call' = [call EXCEPT ![q] = [at |-> IF conns[a] # NoConn THEN "sent" ELSE "locking",
                                           kind |-> k, to |-> a, payload |-> m, conn |-> conns[a]]]
        BY <1>1, <3>2 DEF Begin
      <4> DEFINE c == [at |-> IF conns[a] # NoConn THEN "sent" ELSE "locking",
                       kind |-> k, to |-> a, payload |-> m, conn |-> conns[a]]
      <4>2. c.conn = conns[a] /\ c.to = a
        OBVIOUS
      <4> HIDE DEF c
      <4>3. call' = [call EXCEPT ![q] = c]
        BY <4>1 DEF c
      <4> QED
        BY <1>0, <1>1, <4>2, <4>3 DEF Begin
    <3> QED
      BY <3>1, <3>2
  <2> QED
    BY <2>1, PoolStep DEF PoolInv
<1>2. ASSUME NEW q \in Calls, MakeConn(q) PROVE PoolInv'
  <2> DEFINE a == call[q].to
  <2>1. CASE call' = [call EXCEPT ![q].at = "failed"] /\ UNCHANGED <<conns, opened>>
    <3>1. call' = [call EXCEPT ![q] = At(call[q], "failed")]
      BY <2>1, Zenon DEF At
    <3>2. \A p \in Calls \ {q} : call'[p] = call[p]
      BY <1>0, <3>1
    <3>3. call'[q].conn \in {NoConn, conns[call'[q].to]}
      BY <1>0, <3>1, CallWith, Small DEF PoolInv, Sides
    <3> QED
      BY <2>1, <3>2, <3>3, PoolStep DEF PoolInv
  <2>2. ASSUME NEW n \in Nat, call' = [call EXCEPT ![q].at = "sent", ![q].conn = n],
               conns'[a] = n, opened' = conns', \A b \in Addresses : conns'[b] \in {NoConn, 1},
               \A b \in Addresses : (conns[b] # NoConn) => (conns'[b] = conns[b])
        PROVE  PoolInv'
    <3>1. call' = [call EXCEPT ![q] = AtOn(call[q], "sent", n)]
      BY <2>2, Zenon DEF AtOn
    <3>2. \A p \in Calls \ {q} : call'[p] = call[p]
      BY <1>0, <3>1
    <3>3. call'[q].conn = conns'[call'[q].to]
      BY <1>0, <2>2, <3>1, CallWith DEF Sides
    <3> QED
      BY <2>2, <3>2, <3>3, PoolStep
  <2>3. CASE call' = [call EXCEPT ![q].at = "sent", ![q].conn = conns[a]] /\ UNCHANGED <<conns, opened>>
    BY <1>0, <2>2, <2>3 DEF PoolInv
  <2>4. CASE /\ conns[a] = NoConn
             /\ opened' = [opened EXCEPT ![a] = @ + 1] /\ conns' = [conns EXCEPT ![a] = opened'[a]]
             /\ call' = [call EXCEPT ![q].at = "sent", ![q].conn = opened'[a]]
    <3>1. opened'[a] = 1 /\ opened \in [Addresses -> Nat]
      BY <1>0, <2>4 DEF PoolInv, NoConn
    <3>2. conns'[a] = 1 /\ opened' = conns' /\ \A b \in Addresses \ {a} : conns'[b] = conns[b]
      BY <1>0, <2>4, <3>1 DEF PoolInv
    <3>3. call' = [call EXCEPT ![q].at = "sent", ![q].conn = 1]
      BY <2>4, <3>1
    <3>4. /\ \A b \in Addresses : conns'[b] \in {NoConn, 1}
          /\ \A b \in Addresses : (conns[b] # NoConn) => (conns'[b] = conns[b])
      BY <2>4, <3>2 DEF PoolInv
    <3> QED
      BY <2>2, <3>2, <3>3, <3>4
  <2> QED
    BY <1>2, <2>1, <2>3, <2>4 DEF MakeConn
<1>3. ASSUME NEW q \in Calls, NEW to \in Sides, call' = [call EXCEPT ![q].at = to],
             UNCHANGED <<conns, opened>>
      PROVE  PoolInv'
  <2>1. call' = [call EXCEPT ![q] = At(call[q], to)]
    BY <1>3, Zenon DEF At
  <2>2. \A p \in Calls \ {q} : call'[p] = call[p]
    BY <1>0, <2>1
  <2>3. call'[q].conn \in {NoConn, conns[call'[q].to]}
    <3>1. At(call[q], to).to = call[q].to /\ At(call[q], to).conn = call[q].conn
      BY <1>0, CallWith, Small
    <3>2. call'[q] = At(call[q], to)
      BY <1>0, <2>1
    <3> QED
      BY <3>1, <3>2 DEF PoolInv
  <2> QED
    BY <1>3, <2>2, <2>3, PoolStep DEF PoolInv
<1>4. ASSUME NEW q \in Calls, GiveUp(q) \/ Result(q) PROVE PoolInv'
  <2>1. PICK to \in Sides : call' = [call EXCEPT ![q].at = to]
    BY <1>4 DEF GiveUp, Result, ClientGoes, Sides
  <2>2. UNCHANGED <<conns, opened>>
    BY <1>4 DEF GiveUp, Result
  <2> QED
    BY <1>3, <2>1, <2>2
<1>5. ASSUME UNCHANGED <<call, conns, opened>> PROVE PoolInv'
  BY <1>5 DEF PoolInv
<1> QED
  BY <1>1, <1>2, <1>4, <1>5
     DEF CallsNext, callVars, Serve, TakeAnswer, AskTimeout, TakeCall, Reply, PutReply, Handled, Panic, StopActor

\* One connection per address (ConnectionPool.get), however many goroutines find
\* none at the same time.
THEOREM OneConnectionIsEnough == CallsSpec => []OneConnectionPerAddress
<1>1. CallsInit => PoolInv
  BY DEF CallsInit, PoolInv, NoConn
<1>2. PoolInv => OneConnectionPerAddress
  BY DEF PoolInv, OneConnectionPerAddress, NoConn
<1>3. CallsSpec => []PoolInv
  BY <1>1, CallsTypeCorrect, PoolIsKept, PTL DEF CallsSpec
<1> QED
  BY <1>2, <1>3, PTL

-----------------------------------------------------------------------------
(* The components together.                                                *)

\* Each component, of which at most one is at work, behaves as by itself.
THEOREM ComponentsAreThemselves ==
  FairSpec => BoxSpec /\ CallsSpec /\ TrackerSpec /\ RingSpec /\ KMeansSpec /\ ShardsSpec
<1>1. Init => BoxInit /\ CallsInit /\ TrackerInit /\ RingInit /\ KMeansInit /\ ShardsInit
  BY DEF Init
<1>2. [Next]_vars => [BoxNext]_boxVars /\ [CallsNext]_callVars
  BY DEF Next, vars
<1>3. [Next]_vars => [TrackerNext]_trackerVars /\ [RingNext]_ringVars
  BY DEF Next, vars
<1>4. [Next]_vars => [KMeansNext]_kmeansVars /\ [ShardsNext]_shardVars
  BY DEF Next, vars
<1> QED BY <1>1, <1>2, <1>3, <1>4, PTL
    DEF FairSpec, BoxSpec, CallsSpec, TrackerSpec, RingSpec, KMeansSpec, ShardsSpec

\* Every variable of every component has its type, whichever is at work.
THEOREM ComponentsTypeCorrect == FairSpec => []TypeOK
<1>1. /\ BoxTypeOK /\ CallsTypeOK /\ TrackerTypeOK /\ RingTypeOK /\ KMeansTypeOK /\ ShardsTypeOK
      => TypeOK
  BY DEF TypeOK
<1> QED BY <1>1, ComponentsAreThemselves, BoxTypeCorrect, CallsTypeCorrect, TrackerTypeCorrect,
           RingTypeCorrect, KMeansTypeCorrect, ShardsTypeCorrect, PTL

=============================================================================
