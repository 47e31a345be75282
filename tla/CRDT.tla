-------------------------------- MODULE CRDT --------------------------------
(***************************************************************************)
(* The replicated data types of actor-framework/crdt: G-Counter, G-Set,    *)
(* LWW register and OR-Set.  Each replica of an object updates its own     *)
(* copy and merges states of others.  A state is a snapshot taken under    *)
(* the other's lock (Merge) or marshalled (MarshalJSON, UnmarshalAndMerge):*)
(* it is merged any time later, or never, or again, and after newer ones.  *)
(*                                                                         *)
(* The replicas of one behaviour are of one type.  With its data an object *)
(* carries seen, the updates that have reached it: what the types promise  *)
(* is that seen alone determines what can be read, however it was reached. *)
(***************************************************************************)
EXTENDS Integers, FiniteSets, FiniteSetsExt

CONSTANTS
  Types,       \* the types of objects, of those below
  Replicas,
  Elems,       \* elements of the sets, values of the register
  Amounts,     \* what IncrementBy is called with (Increment: 1)
  Times,       \* readings of the replicas' clocks, which may differ
  Initial,     \* the zero value of a register
  MaxUpdates,  \* bound on the updates
  MaxSent      \* bound on the states under way at the same time

AllTypes == {"GCounter", "GSet", "LWWRegister", "ORSet"}

ASSUME CRDTAssumption ==
  /\ Types \subseteq AllTypes /\ Replicas # {} /\ IsFiniteSet(Replicas)
  /\ Amounts \subseteq Nat /\ Times \subseteq Nat \ {0} /\ Initial \notin Elems
  /\ MaxUpdates \in Nat /\ MaxSent \in Nat

VARIABLES
  type,    \* the type of the object
  object,  \* object[r]: the copy of replica r
  issued,  \* updates so far: an update's number is its uuid in the OR-Set
  sent     \* states that may still be merged

vars == <<type, object, issued, sent>>

Tags == 1..MaxUpdates

Fresh ==
  [counts |-> [q \in Replicas |-> 0], set |-> {},
   value |-> Initial, timestamp |-> 0,
   added |-> [e \in Elems |-> {}], removed |-> {}, seen |-> {}]

Init ==
  /\ type \in Types
  /\ object = [r \in Replicas |-> Fresh]
  /\ issued = 0
  /\ sent = {}

-----------------------------------------------------------------------------
(* Updates.  An update remembers which ones its replica had seen.          *)

Update(r, op, arg, time) ==
  [id |-> issued + 1, op |-> op, by |-> r, arg |-> arg, time |-> time,
   after |-> {u.id : u \in object[r].seen}]

\* replica r's copy becomes o, and has seen u
Issue(r, o, u) ==
  /\ issued < MaxUpdates
  /\ issued' = issued + 1
  /\ object' = [object EXCEPT ![r] = [o EXCEPT !.seen = @ \cup {u}]]
  /\ UNCHANGED <<type, sent>>

IncrementBy(r, n) ==
  /\ type = "GCounter"
  /\ Issue(r, [object[r] EXCEPT !.counts[r] = @ + n], Update(r, "increment", n, 0))

GSetAdd(r, e) ==
  /\ type = "GSet"
  /\ Issue(r, [object[r] EXCEPT !.set = @ \cup {e}], Update(r, "add", e, 0))

\* the clock of r reads t, whatever the register's timestamp
Set(r, v, t) ==
  /\ type = "LWWRegister"
  /\ Issue(r, [object[r] EXCEPT !.value = v, !.timestamp = t], Update(r, "set", v, t))

ORSetAdd(r, e) ==
  /\ type = "ORSet"
  /\ Issue(r, [object[r] EXCEPT !.added[e] = @ \cup {issued + 1}], Update(r, "add", e, 0))

\* Faulty: the tags are taken out of the element instead of being remembered.
Erased_Tags(o, e) == [o EXCEPT !.added[e] = {}]

\* Faulty: the element is remembered as removed instead of its tags.
Erased_Element(o, e) == [o EXCEPT !.removed = @ \cup {e}]

\* every tag the element has here is marked as removed
Erased(o, e) == [o EXCEPT !.removed = @ \cup o.added[e]]

ORSetRemove(r, e) ==
  /\ type = "ORSet"
  /\ Issue(r, Erased(object[r], e), Update(r, "remove", e, 0))

-----------------------------------------------------------------------------
(* Reading. *)

Value(o) == MapThenSumSet(LAMBDA q : o.counts[q], Replicas)
Contains(o, e) == o.added[e] \ o.removed # {}

-----------------------------------------------------------------------------
(* Merging. *)

\* Faulty: the counts of the other state are added to the own ones.
Higher_Added(a, b) == a + b

Higher(a, b) == IF b > a THEN b ELSE a

\* the elements of b entered in a
Union(a, b) == a \cup b

\* Faulty: the state merged wins, whatever the timestamps.
Later_Always(a, b) == TRUE

Later(a, b) == b.timestamp > a.timestamp

\* what is left in copy a when state b has been merged into it
Merged(a, b) ==
  LET register == IF Later(a, b) THEN b ELSE a IN
  [counts |-> [q \in Replicas |-> Higher(a.counts[q], b.counts[q])],
   set |-> Union(a.set, b.set),
   value |-> register.value, timestamp |-> register.timestamp,
   added |-> [e \in Elems |-> a.added[e] \cup b.added[e]],
   removed |-> a.removed \cup b.removed,
   seen |-> a.seen \cup b.seen]

\* a state is taken (MarshalJSON, or the first half of Merge)
Send(r) ==
  /\ Cardinality(sent) < MaxSent
  /\ sent' = sent \cup {object[r]}
  /\ UNCHANGED <<type, object, issued>>

\* and merged (UnmarshalAndMerge, or the second half); it may come once more
Merge(r, o) ==
  /\ o \in sent
  /\ object' = [object EXCEPT ![r] = Merged(@, o)]
  /\ UNCHANGED <<type, issued, sent>>

\* a state is lost, or will not come again
Lose(o) ==
  /\ o \in sent
  /\ sent' = sent \ {o}
  /\ UNCHANGED <<type, object, issued>>

Next ==
  \/ \E r \in Replicas :
       \/ \E n \in Amounts : IncrementBy(r, n)
       \/ \E e \in Elems : GSetAdd(r, e) \/ ORSetAdd(r, e) \/ ORSetRemove(r, e)
       \/ \E v \in Elems, t \in Times : Set(r, v, t)
       \/ Send(r)
       \/ \E o \in sent : Merge(r, o)
  \/ \E o \in sent : Lose(o)

Spec == Init /\ [][Next]_vars

-----------------------------------------------------------------------------
(* Properties. *)

Updates ==
  [id : Tags, op : {"increment", "add", "remove", "set"}, by : Replicas,
   arg : Elems \cup Nat, time : {0} \cup Times, after : SUBSET Tags]

Objects ==
  [counts : [Replicas -> Nat], set : SUBSET Elems,
   value : Elems \cup {Initial}, timestamp : {0} \cup Times,
   added : [Elems -> SUBSET Tags], removed : SUBSET Tags, seen : SUBSET Updates]

TypeOK ==
  /\ type \in Types
  /\ object \in [Replicas -> Objects]
  /\ issued \in 0..MaxUpdates
  /\ sent \subseteq Objects

\* A counter reads the sum of the increments that have reached it, each counted
\* once, whatever states were lost, repeated, late or came by a third replica.
CountsEachUpdateOnce ==
  type = "GCounter" => \A r \in Replicas :
    Value(object[r]) = MapThenSumSet(LAMBDA u : u.arg, object[r].seen)

\* A grow-only set holds what was added by the updates that have reached it: an
\* older state merged late takes nothing away.
HoldsWhatWasAdded ==
  type = "GSet" => \A r \in Replicas : object[r].set = {u.arg : u \in object[r].seen}

\* The observed-remove set: an element is in it exactly if some add has reached
\* the replica that no remove which has reached it had seen.  A remove never
\* undoes an add it did not know of, and no late state brings back what it did.
AddWins ==
  type = "ORSet" => \A r \in Replicas, e \in Elems :
    LET of(op) == {u \in object[r].seen : u.op = op /\ u.arg = e} IN
    Contains(object[r], e) <=>
      \E a \in of("add") : \A d \in of("remove") : a.id \notin d.after

\* The writes of a replica's history are in order when no two of them have the
\* same time and none has an earlier time than a write its replica had seen.
InOrder(writes) ==
  \A u, w \in writes : (u # w => u.time # w.time) /\ (u.id \in w.after => u.time < w.time)

\* A register holds the latest write that has reached it, as long as clocks kept
\* those writes in order; where they did not, replicas that have seen the same
\* writes may hold different values for ever.
LatestWriteWins ==
  type = "LWWRegister" => \A r \in Replicas :
    LET writes == object[r].seen IN
    InOrder(writes) => \A w \in writes :
      /\ w.time <= object[r].timestamp
      /\ w.time = object[r].timestamp => w.arg = object[r].value
=============================================================================
