----------------------------- MODULE CRDTProofs -----------------------------
(***************************************************************************)
(* Proofs about CRDT, for any number of replicas, updates and states under *)
(* way: the types, and that what can be read of a set, a register or a     *)
(* counter is determined by the updates that have reached it.              *)
(*                                                                         *)
(* The invariants speak of every copy, the replicas' and those under way.  *)
(***************************************************************************)
EXTENDS CRDT, Sums, TLAPS

Copies == {object[r] : r \in Replicas} \cup sent

-----------------------------------------------------------------------------
(* Types. *)

\* Every update that can be issued next is one of Updates.
LEMMA UpdateType ==
  ASSUME TypeOK, issued < MaxUpdates, NEW r \in Replicas,
         NEW op \in {"increment", "add", "remove", "set"},
         NEW arg \in Elems \cup Nat, NEW time \in {0} \cup Times
  PROVE  Update(r, op, arg, time) \in Updates /\ issued + 1 \in Tags
<1>1. issued + 1 \in Tags
  BY CRDTAssumption DEF TypeOK, Tags
<1>2. \A u \in object[r].seen : u.id \in Tags
  BY DEF TypeOK, Objects, Updates
<1> QED BY <1>1, <1>2 DEF Update, Updates

\* Merging two copies gives a copy.
LEMMA MergedType ==
  ASSUME NEW a \in Objects, NEW b \in Objects
  PROVE  Merged(a, b) \in Objects
BY DEF Objects, Merged, Later, Higher, Union

\* A replica that issues an update keeps a well-formed copy.
LEMMA IssueType ==
  ASSUME TypeOK, NEW r \in Replicas, NEW o \in Objects, NEW u \in Updates, Issue(r, o, u)
  PROVE  TypeOK'
<1>1. [o EXCEPT !.seen = @ \cup {u}] \in Objects
  BY DEF Objects
<1>2. issued' \in 0..MaxUpdates
  BY CRDTAssumption DEF TypeOK, Issue
<1> QED BY <1>1, <1>2 DEF TypeOK, Issue

\* Every action keeps the types.
LEMMA TypeStep == TypeOK /\ [Next]_vars => TypeOK'
<1> SUFFICES ASSUME TypeOK, [Next]_vars PROVE TypeOK'
  OBVIOUS
<1>0. \A r \in Replicas : object[r] \in Objects
  BY DEF TypeOK
<1>1. ASSUME NEW r \in Replicas, NEW n \in Amounts, IncrementBy(r, n) PROVE TypeOK'
  <2> DEFINE o == [object[r] EXCEPT !.counts[r] = @ + n]
  <2>1. n \in Nat
    BY CRDTAssumption
  <2>2. o \in Objects
    <3>1. object[r].counts \in [Replicas -> Nat]
      BY <1>0 DEF Objects
    <3>2. [object[r].counts EXCEPT ![r] = @ + n] \in [Replicas -> Nat]
      BY <2>1, <3>1
    <3>3. o = [object[r] EXCEPT !.counts = [object[r].counts EXCEPT ![r] = @ + n]]
      BY <1>0 DEF Objects
    <3> QED BY <1>0, <3>2, <3>3 DEF Objects
  <2>3. Issue(r, o, Update(r, "increment", n, 0)) /\ issued < MaxUpdates
    BY <1>1 DEF IncrementBy, Issue
  <2>4. Update(r, "increment", n, 0) \in Updates
    BY <2>1, <2>3, UpdateType
  <2> QED BY <2>2, <2>3, <2>4, IssueType
<1>2. ASSUME NEW r \in Replicas, NEW e \in Elems, GSetAdd(r, e) PROVE TypeOK'
  <2> DEFINE o == [object[r] EXCEPT !.set = @ \cup {e}]
  <2>1. o \in Objects
    BY <1>0 DEF Objects
  <2>2. Issue(r, o, Update(r, "add", e, 0)) /\ issued < MaxUpdates
    BY <1>2 DEF GSetAdd, Issue
  <2>3. Update(r, "add", e, 0) \in Updates
    BY <2>2, UpdateType
  <2> QED BY <2>1, <2>2, <2>3, IssueType
<1>3. ASSUME NEW r \in Replicas, NEW e \in Elems, ORSetAdd(r, e) PROVE TypeOK'
  <2> DEFINE o == [object[r] EXCEPT !.added[e] = @ \cup {issued + 1}]
  <2>1. Issue(r, o, Update(r, "add", e, 0)) /\ issued < MaxUpdates
    BY <1>3 DEF ORSetAdd, Issue
  <2>2. Update(r, "add", e, 0) \in Updates /\ issued + 1 \in Tags
    BY <2>1, UpdateType
  <2>3. o \in Objects
    BY <1>0, <2>2 DEF Objects
  <2> QED BY <2>1, <2>2, <2>3, IssueType
<1>4. ASSUME NEW r \in Replicas, NEW e \in Elems, ORSetRemove(r, e) PROVE TypeOK'
  <2>1. Erased(object[r], e) \in Objects
    BY <1>0 DEF Objects, Erased
  <2>2. Issue(r, Erased(object[r], e), Update(r, "remove", e, 0)) /\ issued < MaxUpdates
    BY <1>4 DEF ORSetRemove, Issue
  <2>3. Update(r, "remove", e, 0) \in Updates
    BY <2>2, UpdateType
  <2> QED BY <2>1, <2>2, <2>3, IssueType
<1>5. ASSUME NEW r \in Replicas, NEW v \in Elems, NEW t \in Times, Set(r, v, t)
      PROVE  TypeOK'
  <2> DEFINE o == [object[r] EXCEPT !.value = v, !.timestamp = t]
  <2>1. o \in Objects
    BY <1>0 DEF Objects
  <2>2. Issue(r, o, Update(r, "set", v, t)) /\ issued < MaxUpdates
    BY <1>5 DEF Set, Issue
  <2>3. Update(r, "set", v, t) \in Updates
    BY <2>2, UpdateType
  <2> QED BY <2>1, <2>2, <2>3, IssueType
<1>6. ASSUME NEW r \in Replicas, Send(r) PROVE TypeOK'
  BY <1>0, <1>6 DEF TypeOK, Send
<1>7. ASSUME NEW r \in Replicas, NEW o \in sent, Merge(r, o) PROVE TypeOK'
  <2>1. Merged(object[r], o) \in Objects
    BY <1>0, MergedType DEF TypeOK
  <2> QED BY <1>7, <2>1 DEF TypeOK, Merge
<1>8. ASSUME NEW o \in sent, Lose(o) PROVE TypeOK'
  BY <1>8 DEF TypeOK, Lose
<1>9. CASE UNCHANGED vars
  BY <1>9 DEF TypeOK, vars
<1> QED BY <1>1, <1>2, <1>3, <1>4, <1>5, <1>6, <1>7, <1>8, <1>9 DEF Next

\* Copies and states under way keep their types, whatever is merged with what.
THEOREM TypeCorrect == Spec => []TypeOK
<1>1. Init => TypeOK
  BY CRDTAssumption DEF Init, TypeOK, Fresh, Objects
<1> QED BY <1>1, TypeStep, PTL DEF Spec

-----------------------------------------------------------------------------
(* Histories. *)

\* Numbers tell updates apart, in all copies together, and a copy that has seen
\* an update has seen all that the update was issued after.
Numbered ==
  /\ \A o, p \in Copies : \A u \in o.seen, w \in p.seen : u.id = w.id => u = w
  /\ \A o \in Copies : \A u \in o.seen : u.id <= issued
Causal(o) == \A u \in o.seen : \A t \in u.after : \E w \in o.seen : w.id = t
Histories == Numbered /\ \A o \in Copies : Causal(o)

\* What one step makes of the copies: a merge of two of them, an update of one
\* of them, or nothing new.
Issuing(o, p, u) ==
  \/ /\ type = "GCounter" /\ p.set = o.set /\ p.added = o.added /\ p.removed = o.removed
     /\ u.op = "increment" /\ p.value = o.value /\ p.timestamp = o.timestamp
     /\ u.arg \in Nat /\ p.counts = [o.counts EXCEPT ![u.by] = @ + u.arg]
  \/ /\ type = "GSet" /\ p.set = o.set \cup {u.arg} /\ u.op = "add"
  \/ /\ type = "LWWRegister" /\ p.value = u.arg /\ p.timestamp = u.time
     /\ u.op = "set" /\ u.time \in Times
  \/ /\ type = "ORSet" /\ u.op = "add" /\ p.removed = o.removed /\ u.arg \in Elems
     /\ p.added = [o.added EXCEPT ![u.arg] = @ \cup {u.id}]
  \/ /\ type = "ORSet" /\ u.op = "remove" /\ p.added = o.added /\ u.arg \in Elems
     /\ p.removed = o.removed \cup o.added[u.arg]

Issued(o, p, u) ==
  /\ p.seen = o.seen \cup {u}
  /\ u.id = issued + 1 /\ issued' = issued + 1
  /\ u.after = {w.id : w \in o.seen}
  /\ u.by \in Replicas /\ o = object[u.by] /\ object' = [object EXCEPT ![u.by] = p]
  /\ Issuing(o, p, u)

NewCopy(p) ==
  \/ \E a, b \in Copies :
       /\ p = Merged(a, b) /\ issued' = issued
       /\ \E r \in Replicas : a = object[r] /\ object' = [object EXCEPT ![r] = p]
  \/ \E o \in Copies : \E u \in Updates : Issued(o, p, u)

\* At most one copy is new, and of one of these two kinds.
LEMMA StepEffect ==
  ASSUME TypeOK, [Next]_vars
  PROVE  /\ type' = type /\ issued' \in {issued, issued + 1}
         /\ \/ Copies' \subseteq Copies /\ object' = object
            \/ \E p \in Objects : NewCopy(p) /\ Copies' \subseteq Copies \cup {p}
<1>0. \A r \in Replicas : object[r] \in Objects /\ object[r] \in Copies
  BY DEF TypeOK, Copies
<1> DEFINE Effect ==
       /\ type' = type /\ issued' \in {issued, issued + 1}
       /\ \/ Copies' \subseteq Copies /\ object' = object
          \/ \E p \in Objects : NewCopy(p) /\ Copies' \subseteq Copies \cup {p}
<1>1. ASSUME NEW r \in Replicas, NEW o, NEW u \in Updates, Issue(r, o, u),
             NEW p, p = [o EXCEPT !.seen = @ \cup {u}], Issued(object[r], p, u)
      PROVE  Effect
  <2>1. object' = [object EXCEPT ![r] = p] /\ sent' = sent /\ type' = type
    BY <1>1 DEF Issue
  <2>2. issued' = issued + 1
    BY <1>1 DEF Issue
  <2>3. p \in Objects
    BY <2>1, TypeStep DEF TypeOK
  <2>4. Copies' \subseteq Copies \cup {p}
    BY <2>1 DEF Copies, TypeOK
  <2>5. NewCopy(p)
    BY <1>0, <1>1 DEF NewCopy
  <2> QED BY <2>1, <2>2, <2>3, <2>4, <2>5
<1>2. ASSUME NEW r \in Replicas, NEW n \in Amounts, IncrementBy(r, n) PROVE Effect
  <2> DEFINE o == [object[r] EXCEPT !.counts[r] = @ + n]
             u == Update(r, "increment", n, 0)
             p == [o EXCEPT !.seen = @ \cup {u}]
  <2>1. /\ Issue(r, o, u) /\ issued < MaxUpdates /\ issued' = issued + 1
        /\ object' = [object EXCEPT ![r] = p]
    BY <1>2 DEF IncrementBy, Issue
  <2>2. u \in Updates
    BY <2>1, UpdateType, CRDTAssumption
  <2>3. Issued(object[r], p, u)
    <3>1. n \in Nat /\ type = "GCounter"
      BY <1>2, CRDTAssumption DEF IncrementBy
    <3>2. /\ p.seen = object[r].seen \cup {u} /\ p.set = object[r].set
          /\ p.added = object[r].added /\ p.removed = object[r].removed
          /\ p.value = object[r].value /\ p.timestamp = object[r].timestamp
          /\ p.counts = [object[r].counts EXCEPT ![r] = @ + n]
      BY <1>0 DEF Objects
    <3>3. /\ u.id = issued + 1 /\ u.op = "increment" /\ u.by = r /\ u.arg = n
          /\ u.after = {w.id : w \in object[r].seen}
      BY DEF Update
    <3> HIDE DEF u, p, o
    <3> QED BY <2>1, <3>1, <3>2, <3>3 DEF Issued, Issuing
  <2> QED BY <1>1, <2>1, <2>2, <2>3
<1>3. ASSUME NEW r \in Replicas, NEW e \in Elems, GSetAdd(r, e) PROVE Effect
  <2> DEFINE o == [object[r] EXCEPT !.set = @ \cup {e}]
             u == Update(r, "add", e, 0)
             p == [o EXCEPT !.seen = @ \cup {u}]
  <2>1. /\ Issue(r, o, u) /\ issued < MaxUpdates /\ issued' = issued + 1
        /\ object' = [object EXCEPT ![r] = p]
    BY <1>3 DEF GSetAdd, Issue
  <2>2. u \in Updates
    BY <2>1, UpdateType, CRDTAssumption
  <2>3. Issued(object[r], p, u)
    BY <1>0, <1>3, <2>1 DEF Issued, Issuing, Update, GSetAdd, Objects
  <2> QED BY <1>1, <2>1, <2>2, <2>3
<1>4. ASSUME NEW r \in Replicas, NEW e \in Elems, ORSetAdd(r, e) PROVE Effect
  <2> DEFINE o == [object[r] EXCEPT !.added[e] = @ \cup {issued + 1}]
             u == Update(r, "add", e, 0)
             p == [o EXCEPT !.seen = @ \cup {u}]
  <2>1. /\ Issue(r, o, u) /\ issued < MaxUpdates /\ issued' = issued + 1
        /\ object' = [object EXCEPT ![r] = p]
    BY <1>4 DEF ORSetAdd, Issue
  <2>2. u \in Updates
    BY <2>1, UpdateType, CRDTAssumption
  <2>3. Issued(object[r], p, u)
    BY <1>0, <1>4, <2>1 DEF Issued, Issuing, Update, ORSetAdd, Objects
  <2> QED BY <1>1, <2>1, <2>2, <2>3
<1>5. ASSUME NEW r \in Replicas, NEW e \in Elems, ORSetRemove(r, e) PROVE Effect
  <2> DEFINE o == [object[r] EXCEPT !.removed = @ \cup object[r].added[e]]
             u == Update(r, "remove", e, 0)
             p == [o EXCEPT !.seen = @ \cup {u}]
  <2>1. /\ Issue(r, o, u) /\ issued < MaxUpdates /\ issued' = issued + 1
        /\ object' = [object EXCEPT ![r] = p]
    BY <1>5 DEF ORSetRemove, Issue, Erased
  <2>2. u \in Updates
    BY <2>1, UpdateType, CRDTAssumption
  <2>3. Issued(object[r], p, u)
    BY <1>0, <1>5, <2>1 DEF Issued, Issuing, Update, ORSetRemove, Objects
  <2> QED BY <1>1, <2>1, <2>2, <2>3
<1>6. ASSUME NEW r \in Replicas, NEW v \in Elems, NEW t \in Times, Set(r, v, t) PROVE Effect
  <2> DEFINE o == [object[r] EXCEPT !.value = v, !.timestamp = t]
             u == Update(r, "set", v, t)
             p == [o EXCEPT !.seen = @ \cup {u}]
  <2>1. /\ Issue(r, o, u) /\ issued < MaxUpdates /\ issued' = issued + 1
        /\ object' = [object EXCEPT ![r] = p]
    BY <1>6 DEF Set, Issue
  <2>2. u \in Updates
    BY <2>1, UpdateType, CRDTAssumption
  <2>3. Issued(object[r], p, u)
    BY <1>0, <1>6, <2>1 DEF Issued, Issuing, Update, Set, Objects
  <2> QED BY <1>1, <2>1, <2>2, <2>3
<1>7. ASSUME NEW r \in Replicas, Send(r) PROVE Effect
  <2>1. Copies' \subseteq Copies
    BY <1>7 DEF Send, Copies
  <2> QED BY <1>7, <2>1 DEF Send
<1>8. ASSUME NEW r \in Replicas, NEW o \in sent, Merge(r, o) PROVE Effect
  <2> DEFINE p == Merged(object[r], o)
  <2>1. object' = [object EXCEPT ![r] = p] /\ sent' = sent
        /\ type' = type /\ issued' = issued
    BY <1>8 DEF Merge
  <2>2. o \in Copies /\ o \in Objects
    BY DEF Copies, TypeOK
  <2>3. p \in Objects
    BY <1>0, <2>2, MergedType
  <2> HIDE DEF p
  <2>4. Copies' \subseteq Copies \cup {p}
    BY <2>1 DEF Copies, TypeOK
  <2>5. NewCopy(p)
    BY <1>0, <2>1, <2>2 DEF NewCopy, p
  <2> QED BY <2>1, <2>3, <2>4, <2>5
<1>9. ASSUME NEW o \in sent, Lose(o) PROVE Effect
  BY <1>9 DEF Lose, Copies
<1>10. CASE UNCHANGED vars
  BY <1>10 DEF vars, Copies
<1> QED BY <1>1, <1>2, <1>3, <1>4, <1>5, <1>6, <1>7, <1>8, <1>9, <1>10 DEF Next

\* No step confuses two updates or separates an update from what it was issued after.
LEMMA HistoriesStep ==
  ASSUME TypeOK, [Next]_vars, Histories
  PROVE  Histories'
<1>0. issued \in Int /\ \A o \in Copies : \A u \in o.seen : u.id \in Int
  BY CRDTAssumption DEF TypeOK, Copies, Objects, Updates, Tags
<1>1. CASE Copies' \subseteq Copies
  <2>1. issued' \in {issued, issued + 1}
    BY StepEffect
  <2>2. \A o \in Copies : \A u \in o.seen : u.id <= issued'
    BY <1>0, <2>1 DEF Histories, Numbered
  <2> QED BY <1>1, <2>2 DEF Histories, Numbered, Causal
<1>2. ASSUME NEW p \in Objects, Copies' \subseteq Copies \cup {p}, NEW a \in Copies,
             NEW b \in Copies, p = Merged(a, b), issued' = issued
      PROVE  Histories'
  <2>1. p.seen = a.seen \cup b.seen
    BY <1>2 DEF Merged
  <2>2. Causal(p)
    BY <2>1 DEF Histories, Causal
  <2>3. Numbered'
    BY <1>2, <2>1 DEF Histories, Numbered
  <2> QED BY <1>2, <2>2, <2>3 DEF Histories, Causal
<1>3. ASSUME NEW p \in Objects, Copies' \subseteq Copies \cup {p}, NEW o \in Copies,
             NEW u \in Updates, Issued(o, p, u)
      PROVE  Histories'
  <2>1. /\ p.seen = o.seen \cup {u} /\ u.id = issued + 1 /\ issued' = issued + 1
        /\ u.after = {w.id : w \in o.seen}
    BY <1>3 DEF Issued
  <2>2. Causal(p)
    <3>1. \A t \in u.after : \E w \in p.seen : w.id = t
      BY <2>1
    <3>2. \A v \in o.seen : \A t \in v.after : \E w \in p.seen : w.id = t
      BY <2>1 DEF Histories, Causal
    <3> QED BY <2>1, <3>1, <3>2 DEF Causal
  <2>3. \A c \in Copies : \A w \in c.seen : w.id \in Int /\ w.id <= issued
    BY <1>0 DEF Histories, Numbered
  <2>4. \A c \in Copies' : \A w \in c.seen : w = u \/ \E k \in Copies : w \in k.seen
    BY <1>3, <2>1
  <2>5. Numbered'
    <3>1. \A c \in Copies' : \A w \in c.seen : w.id <= issued'
      BY <1>0, <2>1, <2>3, <2>4
    <3>2. \A c, k \in Copies' : \A v \in c.seen, w \in k.seen : v.id = w.id => v = w
      <4> TAKE c, k \in Copies'
      <4> TAKE v \in c.seen, w \in k.seen
      <4> HAVE v.id = w.id
      <4>1. CASE v = u
        BY <1>0, <2>1, <2>3, <2>4, <4>1
      <4>2. CASE w = u
        BY <1>0, <2>1, <2>3, <2>4, <4>2
      <4>3. CASE v # u /\ w # u
        BY <2>4, <4>3 DEF Histories, Numbered
      <4> QED BY <4>1, <4>2, <4>3
    <3> QED BY <3>1, <3>2 DEF Numbered
  <2> QED BY <1>3, <2>2, <2>5 DEF Histories, Causal
<1> QED BY <1>1, <1>2, <1>3, StepEffect DEF NewCopy

-----------------------------------------------------------------------------
(* The grow-only set. *)

SetIsRight(o) == type = "GSet" => o.set = {u.arg : u \in o.seen}

\* Grow-only sets stay right.
LEMMA SetStep ==
  ASSUME TypeOK, [Next]_vars, \A o \in Copies : SetIsRight(o)
  PROVE  (\A o \in Copies : SetIsRight(o))'
<1>1. ASSUME NEW p \in Objects, NewCopy(p) PROVE SetIsRight(p)
  <2>1. CASE \E a, b \in Copies : p = Merged(a, b)
    BY <2>1 DEF SetIsRight, Merged, Union
  <2>2. CASE \E o \in Copies : \E u \in Updates : Issued(o, p, u)
    BY <2>2 DEF SetIsRight, Issued, Issuing
  <2> QED BY <1>1, <2>1, <2>2 DEF NewCopy
<1> QED BY <1>1, StepEffect DEF SetIsRight

\* A grow-only set holds exactly what the updates that reached it have added.
THEOREM GSetCorrect == Spec => []HoldsWhatWasAdded
<1> DEFINE Right == \A o \in Copies : SetIsRight(o)
<1>1. Init => Right
  BY DEF Init, Copies, SetIsRight, Fresh
<1>2. TypeOK /\ Right /\ [Next]_vars => Right'
  BY SetStep
<1>3. Right => HoldsWhatWasAdded
  BY DEF HoldsWhatWasAdded, SetIsRight, Copies
<1> HIDE DEF Right
<1> QED BY <1>1, <1>2, <1>3, TypeCorrect, PTL DEF Spec

-----------------------------------------------------------------------------
(* The register. *)

\* It is as new, or holds one of the writes it has seen; and the latest.
Held(o) ==
  /\ \A w \in o.seen : w.time \in Times
  /\ (o.seen = {} /\ o.timestamp = 0)
       \/ \E w \in o.seen : w.time = o.timestamp /\ w.arg = o.value
Latest(o) ==
  InOrder(o.seen) => \A w \in o.seen :
    w.time <= o.timestamp /\ (w.time = o.timestamp => w.arg = o.value)
RegisterIsRight(o) == type = "LWWRegister" => Held(o) /\ Latest(o)

\* Merging two registers that are right gives one that is right.
LEMMA MergedRegister ==
  ASSUME NEW a \in Objects, NEW b \in Objects, Held(a), Latest(a), Held(b), Latest(b)
  PROVE  Held(Merged(a, b)) /\ Latest(Merged(a, b))
<1> DEFINE p == Merged(a, b)
<1>1. p.seen = a.seen \cup b.seen
  BY DEF Merged
<1>2. \/ b.timestamp > a.timestamp /\ p.timestamp = b.timestamp /\ p.value = b.value
      \/ ~(b.timestamp > a.timestamp) /\ p.timestamp = a.timestamp /\ p.value = a.value
  BY DEF Merged, Later
<1>3. a.timestamp \in Nat /\ b.timestamp \in Nat /\ 0 \notin Times /\ Times \subseteq Nat
  <2>1. a.timestamp \in {0} \cup Times /\ b.timestamp \in {0} \cup Times
    BY DEF Objects
  <2>2. 0 \notin Times /\ Times \subseteq Nat
    BY CRDTAssumption
  <2>3. \A t \in {0} \cup Times : t \in Nat
    BY <2>2
  <2> QED BY ONLY <2>1, <2>2, <2>3
<1> HIDE DEF p
<1>4. Held(p)
  BY <1>1, <1>2, <1>3 DEF Held
<1>5. Latest(p)
  <2> SUFFICES ASSUME InOrder(p.seen), NEW w \in p.seen
               PROVE  w.time <= p.timestamp /\ (w.time = p.timestamp => w.arg = p.value)
    BY DEF Latest
  <2>1. InOrder(a.seen) /\ InOrder(b.seen)
    BY <1>1 DEF InOrder
  <2>2. w.time \in Nat \ {0}
    BY <1>3, <1>4 DEF Held
  <2>3. CASE w \in a.seen
    BY <1>2, <1>3, <2>1, <2>2, <2>3 DEF Latest
  <2>4. CASE w \in b.seen
    <3>1. w.time <= b.timestamp /\ (w.time = b.timestamp => w.arg = b.value)
      BY <2>1, <2>4 DEF Latest
    <3>2. CASE b.timestamp > a.timestamp
      BY <1>2, <1>3, <2>2, <3>1, <3>2
    <3>3. CASE ~(b.timestamp > a.timestamp)
      <4>1. w.time <= p.timestamp /\ p.timestamp = a.timestamp /\ p.value = a.value
        BY <1>2, <1>3, <2>2, <3>1, <3>3
      <4>2. ASSUME w.time = a.timestamp PROVE w.arg = a.value
        <5>1. PICK v \in a.seen : v.time = a.timestamp /\ v.arg = a.value
          BY <2>2, <4>2 DEF Held
        <5>2. v = w
          BY <1>1, <4>2, <5>1 DEF InOrder
        <5> QED BY <5>1, <5>2
      <4> QED BY <4>1, <4>2
    <3> QED BY <3>2, <3>3
  <2> QED BY <1>1, <2>3, <2>4
<1> QED BY <1>4, <1>5 DEF p

\* A register that is written is right: the write is later than all it has seen.
LEMMA WrittenRegister ==
  ASSUME TypeOK, NEW o \in Objects, NEW p \in Objects, NEW u \in Updates,
         type = "LWWRegister", Issued(o, p, u), Held(o)
  PROVE  Held(p) /\ Latest(p)
<1>1. /\ p.seen = o.seen \cup {u} /\ p.value = u.arg /\ p.timestamp = u.time
      /\ u.time \in Times /\ u.after = {w.id : w \in o.seen}
  BY DEF Issued, Issuing
<1>2. Held(p)
  BY <1>1 DEF Held
<1>3. Latest(p)
  <2> SUFFICES ASSUME InOrder(p.seen), NEW w \in p.seen
               PROVE  w.time <= p.timestamp /\ (w.time = p.timestamp => w.arg = p.value)
    BY DEF Latest
  <2>1. w.time \in Nat /\ u.time \in Nat
    BY <1>1, <1>2, CRDTAssumption DEF Held
  <2>2. CASE w = u
    BY <1>1, <2>1, <2>2
  <2>3. CASE w \in o.seen
    <3>1. w.time < u.time
      BY <1>1, <2>3 DEF InOrder
    <3> QED BY <1>1, <2>1, <3>1
  <2> QED BY <1>1, <2>2, <2>3
<1> QED BY <1>2, <1>3

\* Registers stay right.
LEMMA RegisterStep ==
  ASSUME TypeOK, [Next]_vars, \A o \in Copies : RegisterIsRight(o)
  PROVE  (\A o \in Copies : RegisterIsRight(o))'
<1>0. \A o \in Copies : o \in Objects
  BY DEF TypeOK, Copies
<1>1. ASSUME NEW p \in Objects, NewCopy(p) PROVE RegisterIsRight(p)
  <2>1. CASE \E a, b \in Copies : p = Merged(a, b)
    BY <1>0, <2>1, MergedRegister DEF RegisterIsRight
  <2>2. CASE \E o \in Copies : \E u \in Updates : Issued(o, p, u)
    BY <1>0, <2>2, WrittenRegister DEF RegisterIsRight
  <2> QED BY <1>1, <2>1, <2>2 DEF NewCopy
<1>2. \A o \in Objects : RegisterIsRight(o)' <=> RegisterIsRight(o)
  BY StepEffect DEF RegisterIsRight
<1>3. Copies' \subseteq Objects
  BY TypeStep DEF TypeOK, Copies
<1> QED BY <1>1, <1>2, <1>3, StepEffect

\* A register holds the latest of the writes that have reached it, as long as
\* the clocks kept them in order.
THEOREM RegisterCorrect == Spec => []LatestWriteWins
<1> DEFINE Right == \A o \in Copies : RegisterIsRight(o)
<1>1. Init => Right
  BY DEF Init, Copies, RegisterIsRight, Fresh, Held, Latest
<1>2. TypeOK /\ Right /\ [Next]_vars => Right'
  BY RegisterStep
<1>3. Right => LatestWriteWins
  BY DEF LatestWriteWins, RegisterIsRight, Latest, Copies
<1> HIDE DEF Right
<1> QED BY <1>1, <1>2, <1>3, TypeCorrect, PTL DEF Spec

-----------------------------------------------------------------------------
(* The observed-remove set. *)

\* Its tags are those of the adds it has seen, and the removed ones are those
\* that a remove it has seen was issued after.
Tagged(o) == \A u \in o.seen : u.op = "add" => u.arg \in Elems /\ u.id \in o.added[u.arg]
Added(o) == \A e \in Elems : \A t \in o.added[e] :
  \E u \in o.seen : u.op = "add" /\ u.arg = e /\ u.id = t
Undone(d, a) == d.op = "remove" /\ a.op = "add" /\ a.arg = d.arg /\ a.id \in d.after
Removed(o) == \A t \in o.removed : \E d, a \in o.seen : Undone(d, a) /\ a.id = t
Hidden(o) == \A d, a \in o.seen : Undone(d, a) => a.id \in o.removed
ORSetIsRight(o) == type = "ORSet" => Tagged(o) /\ Added(o) /\ Removed(o) /\ Hidden(o)

\* Merging two observed-remove sets that are right gives one that is right.
LEMMA MergedORSet ==
  ASSUME Histories, NEW a \in Copies, NEW b \in Copies,
         Tagged(a), Added(a), Removed(a), Hidden(a),
         Tagged(b), Added(b), Removed(b), Hidden(b)
  PROVE  LET p == Merged(a, b) IN Tagged(p) /\ Added(p) /\ Removed(p) /\ Hidden(p)
<1> DEFINE p == Merged(a, b)
<1>1. /\ p.seen = a.seen \cup b.seen /\ p.removed = a.removed \cup b.removed
      /\ \A e \in Elems : p.added[e] = a.added[e] \cup b.added[e]
  BY DEF Merged
<1> HIDE DEF p
<1>2. Tagged(p)
  BY <1>1 DEF Tagged
<1>3. Added(p)
  <2> SUFFICES ASSUME NEW e \in Elems, NEW t \in p.added[e]
               PROVE  \E u \in p.seen : u.op = "add" /\ u.arg = e /\ u.id = t
    BY DEF Added
  <2>1. CASE t \in a.added[e]
    BY <1>1, <2>1 DEF Added
  <2>2. CASE t \in b.added[e]
    BY <1>1, <2>2 DEF Added
  <2> QED BY <1>1, <2>1, <2>2
<1>4. Removed(p)
  BY <1>1 DEF Removed
<1>5. Hidden(p)
  <2>1. ASSUME NEW o \in Copies, NEW k \in Copies, Hidden(o),
               NEW d \in o.seen, NEW x \in k.seen, Undone(d, x)
        PROVE  x.id \in o.removed
    <3>1. PICK w \in o.seen : w.id = x.id
      BY <2>1 DEF Histories, Causal, Undone
    <3>2. w = x
      BY <3>1 DEF Histories, Numbered
    <3> QED BY <2>1, <3>2 DEF Hidden
  <2>2. \A d, x \in p.seen : Undone(d, x) => x.id \in a.removed \/ x.id \in b.removed
    BY <1>1, <2>1
  <2> QED BY <1>1, <2>2 DEF Hidden
<1> QED BY <1>2, <1>3, <1>4, <1>5 DEF p

\* Adding to and removing from one that is right gives one that is right.
LEMMA UpdatedORSet ==
  ASSUME TypeOK, Histories, NEW o \in Copies, NEW p \in Objects, NEW u \in Updates,
         type = "ORSet", Issued(o, p, u),
         Tagged(o), Added(o), Removed(o), Hidden(o)
  PROVE  Tagged(p) /\ Added(p) /\ Removed(p) /\ Hidden(p)
<1>1. /\ p.seen = o.seen \cup {u} /\ u.id = issued + 1 /\ u.after = {w.id : w \in o.seen}
      /\ u.arg \in Elems
  BY DEF Issued, Issuing
<1>2. \A w \in o.seen : u.id # w.id /\ u.id \notin w.after
  <2>1. issued \in Int /\ o \in Objects
    BY CRDTAssumption DEF TypeOK, Copies
  <2>2. \A w \in o.seen : w.id \in Int /\ w.id <= issued
    BY <2>1 DEF Histories, Numbered, Objects, Updates, Tags
  <2>3. \A w \in o.seen : u.id # w.id
    BY <1>1, <2>1, <2>2
  <2> QED BY <2>3 DEF Histories, Causal
<1>3. o.added \in [Elems -> SUBSET Tags]
  BY DEF TypeOK, Copies, Objects
<1>4. u.id \notin u.after
  BY <1>1, <1>2
<1>5. CASE u.op = "add"
  <2>1. p.removed = o.removed /\ p.added = [o.added EXCEPT ![u.arg] = @ \cup {u.id}]
    BY <1>5 DEF Issued, Issuing
  <2>2. p.added[u.arg] = o.added[u.arg] \cup {u.id}
        /\ \A e \in Elems \ {u.arg} : p.added[e] = o.added[e]
    BY <1>1, <1>3, <2>1
  <2>3. Tagged(p)
    BY <1>1, <2>2 DEF Tagged
  <2>4. Added(p)
    <3> SUFFICES ASSUME NEW e \in Elems, NEW t \in p.added[e]
                 PROVE  \E w \in p.seen : w.op = "add" /\ w.arg = e /\ w.id = t
      BY DEF Added
    <3>1. CASE t \in o.added[e]
      BY <1>1, <3>1 DEF Added
    <3>2. CASE t \notin o.added[e]
      BY <1>1, <1>5, <2>2, <3>2
    <3> QED BY <3>1, <3>2
  <2>5. Removed(p)
    BY <1>1, <2>1 DEF Removed
  <2>6. Hidden(p)
    BY <1>1, <1>2, <1>5, <2>1 DEF Hidden, Undone
  <2> QED BY <2>3, <2>4, <2>5, <2>6
<1>6. CASE u.op = "remove"
  <2>1. p.removed = o.removed \cup o.added[u.arg] /\ p.added = o.added
    BY <1>6 DEF Issued, Issuing
  <2>2. Tagged(p) /\ Added(p)
    BY <1>1, <1>6, <2>1 DEF Tagged, Added
  <2>3. Removed(p)
    <3>1. ASSUME NEW t \in o.added[u.arg]
          PROVE  \E a \in p.seen : Undone(u, a) /\ a.id = t
      <4>1. PICK a \in o.seen : a.op = "add" /\ a.arg = u.arg /\ a.id = t
        BY <1>1 DEF Added
      <4> QED BY <1>1, <1>6, <4>1 DEF Undone
    <3>2. \A t \in o.removed : \E d, a \in p.seen : Undone(d, a) /\ a.id = t
      BY <1>1 DEF Removed
    <3>3. u \in p.seen
      BY <1>1
    <3> QED BY <2>1, <3>1, <3>2, <3>3 DEF Removed
  <2>4. Hidden(p)
    <3> SUFFICES ASSUME NEW d \in p.seen, NEW a \in p.seen, Undone(d, a)
                 PROVE  a.id \in p.removed
      BY DEF Hidden
    <3>1. a \in o.seen
      BY <1>1, <1>6 DEF Undone
    <3>2. CASE d \in o.seen
      BY <2>1, <3>1, <3>2 DEF Hidden
    <3>3. CASE d = u
      BY <2>1, <3>1, <3>3 DEF Tagged, Undone
    <3> QED BY <1>1, <3>2, <3>3
  <2> QED BY <2>2, <2>3, <2>4
<1> QED BY <1>5, <1>6 DEF Issued, Issuing

\* Observed-remove sets stay right.
LEMMA ORSetStep ==
  ASSUME TypeOK, [Next]_vars, Histories, \A o \in Copies : ORSetIsRight(o)
  PROVE  (\A o \in Copies : ORSetIsRight(o))'
<1>1. ASSUME NEW p \in Objects, NewCopy(p) PROVE ORSetIsRight(p)
  <2>1. CASE \E a, b \in Copies : p = Merged(a, b)
    BY <2>1, MergedORSet DEF ORSetIsRight
  <2>2. CASE \E o \in Copies : \E u \in Updates : Issued(o, p, u)
    BY <2>2, UpdatedORSet DEF ORSetIsRight
  <2> QED BY <1>1, <2>1, <2>2 DEF NewCopy
<1>2. \A o : ORSetIsRight(o)' <=> ORSetIsRight(o)
  BY StepEffect DEF ORSetIsRight
<1> QED BY <1>1, <1>2, StepEffect

\* An element is in an observed-remove set exactly if an add of it has arrived
\* that none of the removes that have arrived had seen.
THEOREM ORSetCorrect == Spec => []AddWins
<1> DEFINE Right == Histories /\ \A o \in Copies : ORSetIsRight(o)
<1>1. Init => Right
  BY DEF Init, Copies, Histories, Numbered, Causal, ORSetIsRight, Fresh,
         Tagged, Added, Removed, Hidden
<1>2. TypeOK /\ Right /\ [Next]_vars => Right'
  BY HistoriesStep, ORSetStep
<1>3. Right => AddWins
  <2> SUFFICES ASSUME Right, type = "ORSet", NEW r \in Replicas, NEW e \in Elems
               PROVE  Contains(object[r], e) <=>
                        \E a \in object[r].seen : /\ a.op = "add" /\ a.arg = e
                          /\ \A d \in object[r].seen :
                               d.op = "remove" /\ d.arg = e => a.id \notin d.after
    BY DEF AddWins
  <2> DEFINE o == object[r]
  <2>1. o \in Copies /\ Tagged(o) /\ Added(o) /\ Removed(o) /\ Hidden(o)
    BY DEF Copies, ORSetIsRight
  <2>2. Contains(o, e) <=> \E t \in o.added[e] : t \notin o.removed
    BY DEF Contains
  <2> HIDE DEF o
  <2>3. ASSUME NEW t \in o.added[e], t \notin o.removed
        PROVE  \E a \in o.seen : /\ a.op = "add" /\ a.arg = e
                 /\ \A d \in o.seen : d.op = "remove" /\ d.arg = e => a.id \notin d.after
    <3>1. PICK a \in o.seen : a.op = "add" /\ a.arg = e /\ a.id = t
      BY <2>1 DEF Added
    <3> QED BY <2>1, <2>3, <3>1 DEF Hidden, Undone
  <2>4. ASSUME NEW a \in o.seen, a.op = "add", a.arg = e,
               \A d \in o.seen : d.op = "remove" /\ d.arg = e => a.id \notin d.after
        PROVE  \E t \in o.added[e] : t \notin o.removed
    <3>1. a.id \in o.added[e]
      BY <2>1, <2>4 DEF Tagged
    <3>2. \A w \in o.seen : w.id = a.id => w = a
      BY <2>1 DEF Histories, Numbered
    <3>3. a.id \notin o.removed
      BY <2>1, <2>4, <3>2 DEF Removed, Undone
    <3> QED BY <3>1, <3>3
  <2> QED BY <2>2, <2>3, <2>4 DEF o
<1> HIDE DEF Right
<1> QED BY <1>1, <1>2, <1>3, TypeCorrect, PTL DEF Spec

-----------------------------------------------------------------------------
(* The counter. *)

\* What is summed over a set of updates is the table of their arguments.
LEMMA SumOfArguments ==
  ASSUME NEW f, NEW S, IsFiniteSet(S), \A u \in S : f[u] = u.arg, NEW h, Table(h, f, S)
  PROVE  MapThenSumSet(LAMBDA u : u.arg, S) = h[S]
<1> DEFINE Is(g) == g = [T \in SUBSET S |-> IF T = {} THEN 0 ELSE Pick(T).arg + g[T \ {Pick(T)}]]
           t == CHOOSE g : Is(g)
<1>1. MapThenSumSet(LAMBDA u : u.arg, S) = t[S]
  BY DEF MapThenSumSet, MapThenFoldSet, Pick
<1>2. ASSUME NEW T \in SUBSET S, T # {} PROVE f[Pick(T)] = Pick(T).arg
  <2>1. Pick(T) \in T
    BY <1>2 DEF Pick
  <2> QED BY <2>1
<1>3. \A g : Table(g, f, S) <=> Is(g)
  <2> SUFFICES ASSUME NEW g PROVE
        [T \in SUBSET S |-> IF T = {} THEN 0 ELSE f[Pick(T)] + g[T \ {Pick(T)}]]
        = [T \in SUBSET S |-> IF T = {} THEN 0 ELSE Pick(T).arg + g[T \ {Pick(T)}]]
    BY Zenon DEF Table
  <2>1. \A T \in SUBSET S : (IF T = {} THEN 0 ELSE f[Pick(T)] + g[T \ {Pick(T)}])
                            = (IF T = {} THEN 0 ELSE Pick(T).arg + g[T \ {Pick(T)}])
    BY <1>2
  <2> QED BY <2>1, Zenon
<1> HIDE DEF Is
<1>4. Is(t)
  BY <1>3
<1> HIDE DEF t
<1> QED BY <1>1, <1>3, <1>4, TablesAgree

Args == [u \in Updates |-> u.arg]
By(o, q) == {u \in o.seen : u.by = q}
Own(q) == By(object[q], q)

\* Of what replica q has issued, a copy has seen the first updates, up to some number.
First(s, all) == s \subseteq all /\ \A u \in s, w \in all : w.id <= u.id => w \in s

\* A counter holds, for every replica, the sum of what it has seen of it.
Counted(o) ==
  /\ \A u \in o.seen : u.arg \in Nat
  /\ \A q \in Replicas : o.counts[q] = UnitCount(Args, By(o, q))
CounterIsRight(o) ==
  /\ IsFiniteSet(o.seen)
  /\ \A q \in Replicas : First(By(o, q), Own(q))
  /\ type = "GCounter" => Counted(o)

\* What can be summed of a copy whose arguments are numbers.
LEMMA SeenIsSummable ==
  ASSUME NEW o \in Objects, IsFiniteSet(o.seen), \A u \in o.seen : u.arg \in Nat,
         NEW s \in SUBSET o.seen
  PROVE  Summable(Args, s) /\ \A u \in s : Args[u] = u.arg
<1>1. o.seen \subseteq Updates
  BY DEF Objects
<1>2. IsFiniteSet(s)
  BY FS_Subset
<1> QED BY <1>1, <1>2 DEF Args, Summable

\* Two first parts of the same are one in the other.
LEMMA FirstsAreNested ==
  ASSUME NEW all, \A u \in all : u.id \in Int, NEW s, NEW t, First(s, all), First(t, all)
  PROVE  s \subseteq t \/ t \subseteq s
<1> SUFFICES ASSUME NEW u \in s, u \notin t, NEW w \in t, w \notin s PROVE FALSE
  OBVIOUS
<1>1. u.id \in Int /\ w.id \in Int /\ u \in all /\ w \in all
  BY DEF First
<1>2. u.id <= w.id \/ w.id <= u.id
  BY <1>1
<1> QED BY <1>1, <1>2 DEF First

\* The higher of two counts is that of what both copies have seen together.
LEMMA MergedCounts ==
  ASSUME NEW a \in Objects, NEW b \in Objects, NEW q \in Replicas,
         IsFiniteSet(a.seen), IsFiniteSet(b.seen), Counted(a), Counted(b),
         By(a, q) \subseteq By(b, q) \/ By(b, q) \subseteq By(a, q)
  PROVE  Higher(a.counts[q], b.counts[q]) = UnitCount(Args, By(Merged(a, b), q))
<1>1. By(Merged(a, b), q) = By(a, q) \cup By(b, q)
  BY DEF By, Merged
<1>2. Summable(Args, By(a, q)) /\ Summable(Args, By(b, q))
  BY SeenIsSummable DEF Counted, By
<1>3. a.counts[q] = UnitCount(Args, By(a, q)) /\ b.counts[q] = UnitCount(Args, By(b, q))
  BY DEF Counted
<1>4. UnitCount(Args, By(a, q)) \in Nat /\ UnitCount(Args, By(b, q)) \in Nat
  BY <1>2, UnitsAreFinite
<1>5. CASE By(a, q) \subseteq By(b, q)
  <2>1. UnitCount(Args, By(a, q)) <= UnitCount(Args, By(b, q)) /\ By(Merged(a, b), q) = By(b, q)
    BY <1>1, <1>2, <1>5, SizesGrow
  <2> QED BY <1>3, <1>4, <2>1 DEF Higher
<1>6. CASE By(b, q) \subseteq By(a, q)
  <2>1. UnitCount(Args, By(b, q)) <= UnitCount(Args, By(a, q)) /\ By(Merged(a, b), q) = By(a, q)
    BY <1>1, <1>2, <1>6, SizesGrow
  <2> QED BY <1>3, <1>4, <2>1 DEF Higher
<1> QED BY <1>5, <1>6

\* Merging two counters that are right gives one that is right.
LEMMA MergedCounter ==
  ASSUME NEW a \in Objects, NEW b \in Objects, CounterIsRight(a), CounterIsRight(b),
         \A q \in Replicas : object[q] \in Objects
  PROVE  CounterIsRight(Merged(a, b))
<1> DEFINE p == Merged(a, b)
<1>1. p.seen = a.seen \cup b.seen
      /\ \A q \in Replicas : p.counts[q] = Higher(a.counts[q], b.counts[q])
  BY DEF Merged
<1>2. IsFiniteSet(p.seen)
  BY <1>1, FS_Union DEF CounterIsRight
<1>3. \A q \in Replicas : First(By(p, q), Own(q))
  <2>1. \A q \in Replicas : By(p, q) = By(a, q) \cup By(b, q)
    BY <1>1 DEF By
  <2> HIDE DEF p
  <2> QED BY <2>1 DEF CounterIsRight, First
<1>4. ASSUME type = "GCounter" PROVE Counted(p)
  <2>1. Counted(a) /\ Counted(b)
    BY <1>4 DEF CounterIsRight
  <2>2. \A u \in p.seen : u.arg \in Nat
    BY <1>1, <2>1 DEF Counted
  <2>3. ASSUME NEW q \in Replicas PROVE p.counts[q] = UnitCount(Args, By(p, q))
    <3>1. \A u \in Own(q) : u.id \in Int
      BY DEF Own, By, Objects, Updates, Tags
    <3>2. By(a, q) \subseteq By(b, q) \/ By(b, q) \subseteq By(a, q)
      BY <3>1, FirstsAreNested DEF CounterIsRight
    <3> QED BY <1>1, <2>1, <3>2, MergedCounts DEF CounterIsRight
  <2> HIDE DEF p
  <2> QED BY <2>2, <2>3 DEF Counted
<1> HIDE DEF p
<1>5. CounterIsRight(p)
  BY <1>2, <1>3, <1>4 DEF CounterIsRight
<1> QED BY <1>5 DEF p

\* Counting on gives a counter that is right, and is the last of its replica's updates.
LEMMA UpdatedCounter ==
  ASSUME TypeOK, Histories, NEW o \in Copies, NEW p \in Objects, NEW u \in Updates,
         Issued(o, p, u), CounterIsRight(o)
  PROVE  /\ IsFiniteSet(p.seen)
         /\ \A q \in Replicas \ {u.by} : By(p, q) = By(o, q)
         /\ By(p, u.by) = By(o, u.by) \cup {u}
         /\ type = "GCounter" => Counted(p)
<1>1. p.seen = o.seen \cup {u} /\ u.id = issued + 1 /\ u.by \in Replicas
  BY DEF Issued
<1>2. IsFiniteSet(p.seen)
  BY <1>1, FS_AddElement DEF CounterIsRight
<1>3. /\ \A q \in Replicas \ {u.by} : By(p, q) = By(o, q)
      /\ By(p, u.by) = By(o, u.by) \cup {u}
  BY <1>1 DEF By
<1>4. u \notin o.seen
  <2>1. issued \in Int /\ ~(issued + 1 <= issued)
    BY CRDTAssumption DEF TypeOK
  <2> QED BY <1>1, <2>1 DEF Histories, Numbered
<1>5. ASSUME type = "GCounter" PROVE Counted(p)
  <2>1. Counted(o) /\ u.arg \in Nat /\ p.counts = [o.counts EXCEPT ![u.by] = @ + u.arg]
    BY <1>5 DEF CounterIsRight, Issued, Issuing
  <2>2. \A w \in p.seen : w.arg \in Nat
    BY <1>1, <2>1 DEF Counted
  <2>3. o \in Objects /\ o.counts \in [Replicas -> Nat]
    BY DEF TypeOK, Copies, Objects
  <2>4. UnitCount(Args, By(p, u.by)) = UnitCount(Args, By(o, u.by)) + u.arg
    <3>1. Summable(Args, By(o, u.by)) /\ Summable(Args, {u}) /\ Args[u] = u.arg
      <4>1. Summable(Args, By(o, u.by))
        BY <2>1, <2>3, SeenIsSummable DEF By, Counted, CounterIsRight
      <4>2. Summable(Args, {u}) /\ Args[u] = u.arg
        BY <1>1, <1>2, <2>2, SeenIsSummable
      <4> QED BY <4>1, <4>2
    <3>2. By(o, u.by) \cap {u} = {}
      BY <1>4 DEF By
    <3>3. UnitCount(Args, By(p, u.by)) = UnitCount(Args, By(o, u.by)) + UnitCount(Args, {u})
      BY <1>3, <3>1, <3>2, SizesAdd
    <3>4. UnitCount(Args, {u}) = u.arg
      BY <2>1, <3>1, UnitsOfOne
    <3> QED BY <3>3, <3>4
  <2>5. ASSUME NEW q \in Replicas PROVE p.counts[q] = UnitCount(Args, By(p, q))
    <3>1. CASE q = u.by
      BY <1>1, <2>1, <2>3, <2>4, <3>1 DEF Counted
    <3>2. CASE q # u.by
      BY <1>1, <1>3, <2>1, <2>3, <3>2 DEF Counted
    <3> QED BY <3>1, <3>2
  <2> QED BY <2>2, <2>5 DEF Counted
<1> QED BY <1>2, <1>3, <1>5

\* Counters stay right.
LEMMA CounterStep ==
  ASSUME TypeOK, TypeOK', [Next]_vars, Histories, \A o \in Copies : CounterIsRight(o)
  PROVE  (\A o \in Copies : CounterIsRight(o))'
<1>0. /\ \A o \in Copies : o \in Objects
      /\ \A q \in Replicas : object[q] \in Copies /\ object[q] \in Objects
      /\ type' = type
  BY StepEffect DEF TypeOK, Copies
<1>1. ASSUME \A q \in Replicas : Own(q)' = Own(q), NEW o, CounterIsRight(o)
      PROVE  CounterIsRight(o)'
  BY <1>0, <1>1 DEF CounterIsRight
<1>2. CASE Copies' \subseteq Copies /\ object' = object
  <2>1. \A q \in Replicas : Own(q)' = Own(q)
    BY <1>2 DEF Own
  <2> QED BY <1>1, <1>2, <2>1
<1>3. ASSUME NEW p \in Objects, Copies' \subseteq Copies \cup {p}, NEW b \in Copies,
             NEW r \in Replicas, p = Merged(object[r], b), object' = [object EXCEPT ![r] = p]
      PROVE  \A o \in Copies' : CounterIsRight(o)'
  <2>1. CounterIsRight(p)
    BY <1>0, <1>3, MergedCounter
  <2>2. ASSUME NEW q \in Replicas PROVE Own(q)' = Own(q)
    <3>1. CASE q = r
      <4>1. object'[q] = p
        BY <1>3, <3>1 DEF TypeOK
      <4>2. By(p, q) = Own(q) \cup By(b, q)
        BY <1>3, <3>1 DEF Merged, By, Own
      <4>3. By(b, q) \subseteq Own(q)
        BY DEF CounterIsRight, First
      <4> QED BY <4>1, <4>2, <4>3 DEF Own
    <3>2. CASE q # r
      <4>1. object'[q] = object[q]
        BY <1>3, <3>2 DEF TypeOK
      <4> QED BY <4>1 DEF Own
    <3> QED BY <3>1, <3>2
  <2> QED BY <1>1, <1>3, <2>1, <2>2
<1>4. ASSUME NEW p \in Objects, Copies' \subseteq Copies \cup {p}, NEW o \in Copies,
             NEW u \in Updates, Issued(o, p, u)
      PROVE  \A c \in Copies' : CounterIsRight(c)'
  <2>1. /\ IsFiniteSet(p.seen)
        /\ \A q \in Replicas \ {u.by} : By(p, q) = By(o, q)
        /\ By(p, u.by) = By(o, u.by) \cup {u}
        /\ type = "GCounter" => Counted(p)
    BY <1>4, UpdatedCounter
  <2>2. u.by \in Replicas /\ o = object[u.by] /\ object' = [object EXCEPT ![u.by] = p]
    BY <1>4 DEF Issued
  <2>3. /\ Own(u.by)' = Own(u.by) \cup {u} /\ Own(u.by)' = By(p, u.by)
        /\ \A q \in Replicas \ {u.by} : Own(q)' = Own(q)
    BY <2>1, <2>2 DEF Own, TypeOK
  <2>4. ASSUME NEW c \in Copies PROVE CounterIsRight(c)'
    <3>1. \A w \in c.seen : ~(u.id <= w.id)
      <4>1. \A w \in c.seen : w.id \in Int /\ w.id <= issued
        BY <1>0 DEF Histories, Numbered, Objects, Updates, Tags
      <4>2. u.id = issued + 1 /\ issued \in Int
        BY <1>4, CRDTAssumption DEF Issued, TypeOK
      <4> QED BY <4>1, <4>2
    <3>2. First(By(c, u.by), Own(u.by) \cup {u})
      BY <2>2, <3>1 DEF CounterIsRight, First, By
    <3>3. \A q \in Replicas : First(By(c, q), Own(q)')
      BY <2>3, <3>2 DEF CounterIsRight
    <3> QED BY <1>0, <3>3 DEF CounterIsRight
  <2>5. CounterIsRight(p)'
    <3>1. ASSUME NEW q \in Replicas PROVE First(By(p, q), Own(q)')
      <4>1. CASE q = u.by
        BY <2>3, <4>1 DEF First
      <4>2. CASE q # u.by
        BY <1>0, <2>1, <2>2, <2>3, <4>2 DEF CounterIsRight
      <4> QED BY <4>1, <4>2
    <3> QED BY <1>0, <2>1, <3>1 DEF CounterIsRight
  <2> QED BY <1>4, <2>4, <2>5
<1> QED BY <1>2, <1>3, <1>4, StepEffect DEF NewCopy

\* The counts of a counter that is right add up to what it has seen.
LEMMA CountsAddUp ==
  ASSUME NEW o \in Objects, IsFiniteSet(o.seen), Counted(o)
  PROVE  Value(o) = MapThenSumSet(LAMBDA u : u.arg, o.seen)
<1> DEFINE Of(R) == {u \in o.seen : u.by \in R}
           h == [R \in SUBSET Replicas |-> UnitCount(Args, Of(R))]
           t == [s \in SUBSET o.seen |-> UnitCount(Args, s)]
<1>1. \A s \in SUBSET o.seen : Summable(Args, s)
  BY SeenIsSummable DEF Counted
<1>2. MapThenSumSet(LAMBDA u : u.arg, o.seen) = UnitCount(Args, o.seen)
  <2>1. Table(t, Args, o.seen) /\ t[o.seen] = UnitCount(Args, o.seen)
    BY <1>1, SizesAreSums
  <2>2. \A u \in o.seen : Args[u] = u.arg
    BY SeenIsSummable DEF Counted
  <2> HIDE DEF t
  <2> QED BY <2>1, <2>2, SumOfArguments
<1>3. ASSUME NEW R \in SUBSET Replicas
      PROVE  h[R] = IF R = {} THEN 0 ELSE o.counts[Pick(R)] + h[R \ {Pick(R)}]
  <2>1. CASE R = {}
    <3>1. Of(R) = {}
      BY <2>1
    <3>2. UnitCount(Args, {}) = 0
      BY <1>1, SizesGrow
    <3> QED BY <2>1, <3>1, <3>2
  <2>2. CASE R # {}
    <3>1. PICK q \in R : q = Pick(R)
      BY <2>2 DEF Pick
    <3>2. Of(R) = Of(R \ {q}) \cup By(o, q) /\ Of(R \ {q}) \cap By(o, q) = {}
      BY DEF By
    <3>3. Of(R \ {q}) \in SUBSET o.seen /\ By(o, q) \in SUBSET o.seen
      BY DEF By
    <3>4. UnitCount(Args, Of(R)) = UnitCount(Args, Of(R \ {q})) + UnitCount(Args, By(o, q))
      BY <1>1, <3>2, <3>3, SizesAdd
    <3>5. UnitCount(Args, Of(R \ {q})) \in Nat /\ UnitCount(Args, By(o, q)) \in Nat
      BY <1>1, <3>3, UnitsAreFinite
    <3>6. o.counts[q] = UnitCount(Args, By(o, q))
      BY DEF Counted
    <3>7. h[R] = UnitCount(Args, Of(R)) /\ h[R \ {q}] = UnitCount(Args, Of(R \ {q}))
      OBVIOUS
    <3> HIDE DEF h, Of
    <3> QED BY <2>2, <3>1, <3>4, <3>5, <3>6, <3>7
  <2> QED BY <2>1, <2>2
<1>4. Of(Replicas) = o.seen /\ h[Replicas] = UnitCount(Args, Of(Replicas))
  BY DEF Objects, Updates
<1>5. h = [R \in SUBSET Replicas |-> h[R]]
  OBVIOUS
<1> DEFINE counts == o.counts
<1> HIDE DEF h, Of
<1>6. Table(h, counts, Replicas)
  BY <1>3, <1>5 DEF Table
<1> HIDE DEF counts
<1>7. SumOver(counts, Replicas) = h[Replicas]
  BY <1>6, SumOfFunction, CRDTAssumption
<1>8. Value(o) = SumOver(counts, Replicas)
  BY Zenon DEF Value, SumOver, counts
<1> QED BY <1>2, <1>4, <1>7, <1>8

\* A counter reads the sum of the increments that have reached it, each once: of every
\* replica a copy has seen the first ones, so that of two copies the one with
\* the higher count has seen whatever the other has.
THEOREM CounterCorrect == Spec => []CountsEachUpdateOnce
<1> DEFINE Right == Histories /\ \A o \in Copies : CounterIsRight(o)
<1>1. Init => Right
  <2> SUFFICES ASSUME Init PROVE Right
    OBVIOUS
  <2>1. \A o \in Copies : o = Fresh
    BY DEF Init, Copies
  <2>2. Fresh.seen = {} /\ \A q \in Replicas : Fresh.counts[q] = 0
    BY DEF Fresh
  <2>3. \A q : By(Fresh, q) = {}
    BY <2>2 DEF By
  <2>4. Units(Args, {}) = {} /\ UnitCount(Args, {}) = 0
    BY FS_EmptySet DEF Units, UnitCount
  <2>5. CounterIsRight(Fresh)
    BY <2>2, <2>3, <2>4, FS_EmptySet DEF CounterIsRight, First, Counted
  <2>6. Histories
    BY <2>1, <2>2 DEF Histories, Numbered, Causal
  <2> QED BY <2>1, <2>5, <2>6
<1>2. TypeOK /\ TypeOK' /\ Right /\ [Next]_vars => Right'
  BY HistoriesStep, CounterStep
<1>3. TypeOK /\ Right => CountsEachUpdateOnce
  <2> SUFFICES ASSUME TypeOK, Right, type = "GCounter", NEW r \in Replicas
               PROVE  Value(object[r]) = MapThenSumSet(LAMBDA u : u.arg, object[r].seen)
    BY DEF CountsEachUpdateOnce
  <2>1. object[r] \in Objects /\ object[r] \in Copies
    BY DEF TypeOK, Copies
  <2>2. IsFiniteSet(object[r].seen) /\ Counted(object[r])
    BY <2>1 DEF CounterIsRight
  <2> QED BY <2>1, <2>2, CountsAddUp
<1> HIDE DEF Right
<1> QED BY <1>1, <1>2, <1>3, TypeCorrect, PTL DEF Spec
=============================================================================
