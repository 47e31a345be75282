-------------------------- MODULE ActorSystemProofs --------------------------
(***************************************************************************)
(* Proofs about the actor runtime: its types, that the registry holds the  *)
(* living, each under its name, and that what a stopped actor's mailbox    *)
(* accepted has been handled.  Most steps change one cell, or two, and     *)
(* nothing that other cells or the registry depend on: Kept says what they *)
(* all have in common.  Only a spawn and a return do more.                 *)
(*   The second part bounds restarts.  Most steps are calm: nobody owes    *)
(* more starts than before.  Two kinds of account say who may: an actor's  *)
(* own restarts, and the pairs (sibling, number of its restart) that have  *)
(* told it to restart, each of them once.                                  *)
(***************************************************************************)
EXTENDS ActorSystem, SequenceTheorems, FiniteSetTheorems, TLAPS

Cell == [name : Names \cup {NoName}, parent : Cells \cup {NoCell},
         at : Places, box : Seq(Messages), closed : BOOLEAN,
         stop : BOOLEAN, children : Seq(Cells), todo : Seq(Cells),
         starts : 0..MaxStarts]

Hidden == {"none", "listed", "done"}
Ending == {"returning", "done"}

\* what is true of a cell whatever the others are
Sound(s) ==
  /\ s.at # "none" => (s.name \in Names)
  /\ s.closed => (s.at \in Ending \cup {"draining"})
  /\ (s.closed /\ s.at \in Ending) => (s.box = <<>>)

\* t is what s may become while its actor is neither published nor ended
Same(s, t) ==
  /\ t.name = s.name /\ t.parent = s.parent
  /\ s.at \in Hidden <=> t.at \in Hidden
  /\ s.at \in Hidden => (t.at = s.at)

\* What the code does to one cell.
Put(s, m) == [s EXCEPT !.box = Append(s.box, m)]
Moved(s, to) == [s EXCEPT !.at = to]
Taken(s, to) == [s EXCEPT !.box = Tail(s.box), !.at = to]
Begun(s) == [s EXCEPT !.at = "loop", !.starts = IF s.starts < MaxStarts THEN s.starts + 1 ELSE s.starts]
Copied(s, q) == [s EXCEPT !.todo = q, !.at = "telling"]
Told(s) == [s EXCEPT !.todo = Tail(s.todo)]
Shut(s) == [s EXCEPT !.closed = TRUE, !.at = "draining"]
Stopped(s) == [s EXCEPT !.stop = TRUE]
Bore(s, c) == [s EXCEPT !.children = Append(s.children, c)]

\* a sequence that Append or Tail makes of a field
LEMMA Longer ==
  ASSUME NEW S, NEW q \in Seq(S), NEW e \in S
  PROVE  Append(q, e) \in Seq(S)
  OBVIOUS

\* a sequence that is not empty loses its head and keeps its type
LEMMA Shorter ==
  ASSUME NEW S, NEW q \in Seq(S), q # <<>>
  PROVE  Tail(q) \in Seq(S) /\ Head(q) \in S
  OBVIOUS

\* starts are counted up to their bound
LEMMA Counted ==
  ASSUME NEW k \in 0..MaxStarts
  PROVE  (IF k < MaxStarts THEN k + 1 ELSE k) \in 0..MaxStarts
  BY SystemAssumption

\* an enqueued message changes nothing but the mailbox
LEMMA PutIs ==
  ASSUME NEW s \in Cell, NEW m \in Messages
  PROVE  /\ Put(s, m) \in Cell
         /\ Put(s, m).at = s.at
         /\ Put(s, m).closed = s.closed
         /\ Put(s, m).name = s.name
         /\ Put(s, m).parent = s.parent
         /\ Put(s, m).todo = s.todo
  <1>1. s.box \in Seq(Messages)
    BY DEF Cell
  <1>2. Append(s.box, m) \in Seq(Messages)
    BY <1>1, Longer
  <1> QED BY <1>1, <1>2 DEF Cell, Put

\* going on in runActor changes nothing but the place
LEMMA MovedIs ==
  ASSUME NEW s \in Cell, NEW to \in Places
  PROVE  /\ Moved(s, to) \in Cell
         /\ Moved(s, to).at = to
         /\ Moved(s, to).closed = s.closed
         /\ Moved(s, to).name = s.name
         /\ Moved(s, to).parent = s.parent
         /\ Moved(s, to).box = s.box
  BY DEF Cell, Moved

\* taking a message shortens the mailbox
LEMMA TakenIs ==
  ASSUME NEW s \in Cell, NEW to \in Places, s.box # <<>>
  PROVE  /\ Taken(s, to) \in Cell
         /\ Taken(s, to).at = to
         /\ Taken(s, to).closed = s.closed
         /\ Taken(s, to).name = s.name
         /\ Taken(s, to).parent = s.parent
  <1>1. s.box \in Seq(Messages)
    BY DEF Cell
  <1>2. Tail(s.box) \in Seq(Messages)
    BY <1>1, Shorter
  <1> QED BY <1>1, <1>2 DEF Cell, Taken

\* OnStart counts a start and enters the loop
LEMMA BegunIs ==
  ASSUME NEW s \in Cell
  PROVE  /\ Begun(s) \in Cell
         /\ Begun(s).at = "loop"
         /\ Begun(s).closed = s.closed
         /\ Begun(s).name = s.name
         /\ Begun(s).parent = s.parent
  <1>1. s.starts \in 0..MaxStarts
    BY DEF Cell
  <1>2. (IF s.starts < MaxStarts THEN s.starts + 1 ELSE s.starts) \in 0..MaxStarts
    BY <1>1, Counted
  <1> QED BY <1>1, <1>2 DEF Cell, Begun, Places

\* the siblings to be told are copied from the parent's list
LEMMA CopiedIs ==
  ASSUME NEW s \in Cell, NEW q \in Seq(Cells)
  PROVE  /\ Copied(s, q) \in Cell
         /\ Copied(s, q).at = "telling"
         /\ Copied(s, q).closed = s.closed
         /\ Copied(s, q).name = s.name
         /\ Copied(s, q).parent = s.parent
  BY DEF Cell, Copied, Places

\* one sibling less to be told
LEMMA ToldIs ==
  ASSUME NEW s \in Cell, s.todo # <<>>
  PROVE  /\ Told(s) \in Cell
         /\ Told(s).at = s.at
         /\ Told(s).closed = s.closed
         /\ Told(s).name = s.name
         /\ Told(s).parent = s.parent
         /\ Told(s).box = s.box
  <1>1. s.todo \in Seq(Cells)
    BY DEF Cell
  <1>2. Tail(s.todo) \in Seq(Cells)
    BY <1>1, Shorter
  <1> QED BY <1>1, <1>2 DEF Cell, Told

\* the mailbox is closed, and what it holds is drained next
LEMMA ShutIs ==
  ASSUME NEW s \in Cell
  PROVE  /\ Shut(s) \in Cell
         /\ Shut(s).at = "draining"
         /\ Shut(s).name = s.name
         /\ Shut(s).parent = s.parent
  BY DEF Cell, Shut, Places

\* closing stopCh moves nobody
LEMMA StoppedIs ==
  ASSUME NEW s \in Cell
  PROVE  /\ Stopped(s) \in Cell
         /\ Stopped(s).at = s.at
         /\ Stopped(s).closed = s.closed
         /\ Stopped(s).name = s.name
         /\ Stopped(s).parent = s.parent
         /\ Stopped(s).box = s.box
  BY DEF Cell, Stopped

\* a parent's list gets longer
LEMMA BoreIs ==
  ASSUME NEW s \in Cell, NEW c \in Cells
  PROVE  /\ Bore(s, c) \in Cell
         /\ Bore(s, c).at = s.at
         /\ Bore(s, c).closed = s.closed
         /\ Bore(s, c).name = s.name
         /\ Bore(s, c).parent = s.parent
         /\ Bore(s, c).box = s.box
  <1>1. s.children \in Seq(Cells)
    BY DEF Cell
  <1>2. Append(s.children, c) \in Seq(Cells)
    BY <1>1, Longer
  <1> QED BY <1>1, <1>2 DEF Cell, Bore

-----------------------------------------------------------------------------
(* What a step leaves as it is. *)

Fine(f) == f \in [Cells -> Cell] /\ \A d \in Cells : Sound(f[d])

\* g is f after a step that publishes and ends no actor
Kept(f, g) == Fine(g) /\ \A d \in Cells : Same(f[d], g[d])

\* One cell changes, to a sound one of the same name and standing.
LEMMA OneChanges ==
  ASSUME NEW f, Fine(f), NEW c \in Cells, NEW r \in Cell,
         Sound(r), Same(f[c], r), NEW g, g = [f EXCEPT ![c] = r]
  PROVE  Kept(f, g)
  <1>1. g \in [Cells -> Cell] /\ g[c] = r /\ \A d \in Cells : d # c => g[d] = f[d]
    BY DEF Fine
  <1>2. \A d \in Cells : Same(f[d], f[d])
    BY DEF Same
  <1> QED BY <1>1, <1>2, Zenon DEF Kept, Fine

\* two steps that publish and end nobody, one after the other
LEMMA KeptTwice ==
  ASSUME NEW f, NEW g, NEW h, Kept(f, g), Kept(g, h)
  PROVE  Kept(f, h)
  <1>1. \A d \in Cells : Same(f[d], g[d]) /\ Same(g[d], h[d])
    BY DEF Kept
  <1>2. \A d \in Cells : Same(f[d], h[d])
    BY <1>1 DEF Same
  <1> QED BY <1>2 DEF Kept

\* A message to any actor, at any time: a closed or a full mailbox drops it, an
\* open one takes it, and nobody moves.
LEMMA EnqueueKeeps ==
  ASSUME NEW f, Fine(f), NEW d \in Cells, NEW m \in Messages
  PROVE  /\ Kept(f, Enqueue(f, d, m))
         /\ \A c \in Cells : /\ Enqueue(f, d, m)[c].at = f[c].at
                             /\ Enqueue(f, d, m)[c].closed = f[c].closed
                             /\ Enqueue(f, d, m)[c].todo = f[c].todo
  <1> DEFINE g == Enqueue(f, d, m)
             r == Put(f[d], m)
  <1>1. CASE ~f[d].closed /\ Len(f[d].box) < MailboxCap
    <2>1. g = [f EXCEPT ![d] = r]
      BY <1>1, Zenon DEF Enqueue, Put
    <2>2. f[d] \in Cell /\ Sound(f[d]) /\ f \in [Cells -> Cell]
      BY DEF Fine
    <2>3. r \in Cell /\ r.at = f[d].at /\ r.closed = f[d].closed /\ r.name = f[d].name
            /\ r.parent = f[d].parent /\ r.todo = f[d].todo
      BY <2>2, PutIs
    <2> HIDE DEF g, r
    <2>4. Sound(r) /\ Same(f[d], r)
      BY <1>1, <2>2, <2>3 DEF Sound, Same
    <2>5. Kept(f, g)
      BY <2>1, <2>3, <2>4, OneChanges
    <2>6. \A c \in Cells : g[c].at = f[c].at /\ g[c].closed = f[c].closed /\ g[c].todo = f[c].todo
      BY <2>1, <2>2, <2>3
    <2> QED BY <2>5, <2>6 DEF g
  <1>2. CASE ~(~f[d].closed /\ Len(f[d].box) < MailboxCap)
    <2>1. g = f
      BY <1>2 DEF Enqueue
    <2> QED BY <2>1 DEF Kept, Same
  <1> QED BY <1>1, <1>2

\* an actor that has not returned goes on to another place before its return
LEMMA MoveKeeps ==
  ASSUME NEW f, Fine(f), NEW c \in Cells, NEW to \in Places \ Hidden,
         f[c].at \notin Hidden, ~f[c].closed \/ (f[c].box = <<>> /\ to = "returning"),
         NEW g, g = [f EXCEPT ![c] = Moved(f[c], to)]
  PROVE  Kept(f, g)
  <1> DEFINE r == Moved(f[c], to)
  <1>1. f[c] \in Cell /\ Sound(f[c])
    BY DEF Fine
  <1>2. r \in Cell /\ r.at = to /\ r.closed = f[c].closed /\ r.box = f[c].box
          /\ r.name = f[c].name /\ r.parent = f[c].parent
    BY <1>1, MovedIs
  <1> HIDE DEF r
  <1>3. Sound(r) /\ Same(f[c], r)
    BY <1>1, <1>2 DEF Sound, Same, Ending, Hidden
  <1> QED BY <1>2, <1>3, OneChanges DEF r

-----------------------------------------------------------------------------
(* The steps of an actor, one by one. *)

\* the goroutine of the actor begins
LEMMA SpawnGoKeeps ==
  ASSUME Fine(cell), NEW c \in Cells, SpawnGo(c)
  PROVE  Kept(cell, cell')
  <1>1. cell' = [cell EXCEPT ![c] = Moved(cell[c], "starting")]
    BY Zenon DEF SpawnGo, Goes, Moved
  <1>2. cell[c].at = "published" /\ Sound(cell[c])
    BY DEF SpawnGo, Goes, Fine
  <1> QED BY <1>1, <1>2, MoveKeeps DEF Sound, Ending, Hidden, Places

\* OnStart, and Started into its own mailbox
LEMMA StartKeeps ==
  ASSUME Fine(cell), NEW c \in Cells, Start(c)
  PROVE  Kept(cell, cell')
  <1> DEFINE f == Enqueue(cell, c, "Started")
             r == Begun(f[c])
  <1>1. cell' = [f EXCEPT ![c] = r]
    BY Zenon DEF Start, Begun
  <1>2. Kept(cell, f) /\ f[c].at = cell[c].at
    BY EnqueueKeeps DEF Messages
  <1>3. cell[c].at = "starting"
    BY DEF Start
  <1> HIDE DEF f
  <1>4. Fine(f) /\ f[c] \in Cell /\ Sound(f[c])
    BY <1>2 DEF Kept, Fine
  <1>5. r \in Cell /\ r.at = "loop" /\ r.closed = f[c].closed
          /\ r.name = f[c].name /\ r.parent = f[c].parent
    BY <1>4, BegunIs
  <1> HIDE DEF r
  <1>6. Sound(r) /\ Same(f[c], r)
    BY <1>2, <1>3, <1>4, <1>5 DEF Sound, Same, Ending, Hidden
  <1>7. Kept(f, cell')
    BY <1>1, <1>4, <1>5, <1>6, OneChanges
  <1> QED BY <1>2, <1>7, KeptTwice

\* the first message leaves the mailbox, in the loop or in the drain
LEMMA TakeKeeps ==
  ASSUME Fine(cell), NEW c \in Cells, NEW to \in Places \ Hidden,
         cell[c].at \notin Hidden, cell[c].box # <<>>,
         ~cell[c].closed \/ to = "draining",
         cell' = Takes(c, to)
  PROVE  Kept(cell, cell')
  <1> DEFINE r == Taken(cell[c], to)
  <1>1. cell' = [cell EXCEPT ![c] = r]
    BY Zenon DEF Takes, Taken
  <1>2. cell[c] \in Cell /\ Sound(cell[c])
    BY DEF Fine
  <1>3. r \in Cell /\ r.at = to /\ r.closed = cell[c].closed
          /\ r.name = cell[c].name /\ r.parent = cell[c].parent
    BY <1>2, TakenIs
  <1> HIDE DEF r
  <1>4. Sound(r) /\ Same(cell[c], r)
    BY <1>2, <1>3 DEF Sound, Same, Ending, Hidden
  <1> QED BY <1>1, <1>3, <1>4, OneChanges

\* a message is handled, or its handler panics
LEMMA TakeMessageKeeps ==
  ASSUME Fine(cell), NEW c \in Cells, TakeMessage(c)
  PROVE  Kept(cell, cell')
  <1>1. cell[c].at = "loop" /\ cell[c].box # <<>> /\ Sound(cell[c])
    BY DEF TakeMessage, Fine
  <1>2. PICK to \in {"starting", "loop", "failed"} : cell' = Takes(c, to)
    BY Zenon DEF TakeMessage
  <1> QED BY <1>1, <1>2, TakeKeeps DEF Sound, Ending, Hidden, Places

\* a message left at the stop is handled
LEMMA DrainKeeps ==
  ASSUME Fine(cell), NEW c \in Cells, Drain(c)
  PROVE  Kept(cell, cell')
  BY TakeKeeps DEF Drain, Hidden, Places

\* a panic without a supervisor ends the actor, its mailbox left open
LEMMA DieUnsupervisedKeeps ==
  ASSUME Fine(cell), NEW c \in Cells, DieUnsupervised(c)
  PROVE  Kept(cell, cell')
  <1>1. cell' = [cell EXCEPT ![c] = Moved(cell[c], "returning")]
    BY Zenon DEF DieUnsupervised, Goes, Moved
  <1>2. cell[c].at = "failed" /\ Sound(cell[c])
    BY DEF DieUnsupervised, Goes, Fine
  <1> QED BY <1>1, <1>2, MoveKeeps DEF Sound, Ending, Hidden, Places

\* a message to anyone, and then a move: Escalated, Restarting, Stopping
LEMMA EnqueueMoveKeeps ==
  ASSUME Fine(cell), NEW c \in Cells, NEW d \in Cells, NEW m \in Messages,
         NEW to \in Places \ Hidden, cell[c].at \notin Hidden, ~cell[c].closed,
         NEW g, g = [Enqueue(cell, d, m) EXCEPT ![c].at = to]
  PROVE  Kept(cell, g)
  <1> DEFINE f == Enqueue(cell, d, m)
  <1>1. g = [f EXCEPT ![c] = Moved(f[c], to)]
    BY Zenon DEF Moved
  <1>2. Kept(cell, f) /\ f[c].at = cell[c].at /\ f[c].closed = cell[c].closed
    BY EnqueueKeeps
  <1> HIDE DEF f
  <1>3. Kept(f, g)
    BY <1>1, <1>2, MoveKeeps DEF Kept
  <1> QED BY <1>2, <1>3, KeptTwice

\* the parent is told, and the actor ends
LEMMA EscalatedKeeps ==
  ASSUME Fine(cell), NEW c \in Cells, cell[c].at = "failed"
  PROVE  Kept(cell, Escalated(c))
  <1>1. cell[c] \in Cell /\ Sound(cell[c])
    BY DEF Fine
  <1>2. ~cell[c].closed /\ cell[c].at \notin Hidden
    BY <1>1 DEF Sound, Ending, Hidden
  <1>3. CASE cell[c].parent = NoCell
    <2>1. Escalated(c) = [cell EXCEPT ![c] = Moved(cell[c], "returning")]
      BY <1>3, Zenon DEF Escalated, Moved
    <2> QED BY <1>2, <2>1, MoveKeeps DEF Hidden, Places
  <1>4. CASE cell[c].parent # NoCell
    <2>1. Escalated(c) = [Enqueue(cell, cell[c].parent, "ActorFailed") EXCEPT ![c].at = "returning"]
      BY <1>4, Zenon DEF Escalated
    <2>2. cell[c].parent \in Cells
      BY <1>1, <1>4 DEF Cell
    <2> QED BY <1>2, <2>1, <2>2, EnqueueMoveKeeps DEF Hidden, Places, Messages
  <1> QED BY <1>3, <1>4

\* each of the supervisor's answers keeps registry and names
LEMMA SuperviseKeeps ==
  ASSUME Fine(cell), NEW c \in Cells, Supervise(c)
  PROVE  Kept(cell, cell')
  <1>1. cell[c].at = "failed" /\ Sound(cell[c])
    BY DEF Supervise, Fine
  <1>2. ~cell[c].closed /\ cell[c].at \notin Hidden
    BY <1>1 DEF Sound, Ending, Hidden
  <1>3. \/ cell' = Escalated(c)
        \/ \E to \in {"loop", "returning"} : cell' = [cell EXCEPT ![c].at = to]
        \/ cell' = [Enqueue(cell, c, "Restarting") EXCEPT ![c].at = "restarting"]
    BY Zenon DEF Supervise, AnswerRestart, Answer
  <1>4. CASE cell' = Escalated(c)
    BY <1>1, <1>4, EscalatedKeeps
  <1>5. ASSUME NEW to \in {"loop", "returning"}, cell' = [cell EXCEPT ![c].at = to]
        PROVE  Kept(cell, cell')
    <2>1. cell' = [cell EXCEPT ![c] = Moved(cell[c], to)]
      BY <1>5, Zenon DEF Moved
    <2> QED BY <1>2, <2>1, MoveKeeps DEF Hidden, Places
  <1>6. CASE cell' = [Enqueue(cell, c, "Restarting") EXCEPT ![c].at = "restarting"]
    BY <1>2, <1>6, EnqueueMoveKeeps DEF Hidden, Places, Messages
  <1> QED BY <1>3, <1>4, <1>5, <1>6

\* whoever is a parent has been spawned
Parented == \A c \in Cells : cell[c].parent # NoCell => (cell[cell[c].parent].at # "none")

\* the siblings are cells, if the parent's name still leads to a cell
LEMMA SiblingsAre ==
  ASSUME Fine(cell), Parented, registry \in [Names -> Cells \cup {NoCell}], NEW c \in Cells
  PROVE  Siblings(c) \in Seq(Cells)
  <1> DEFINE p == cell[c].parent
             d == registry[cell[p].name]
  <1>1. CASE OneForAll /\ p # NoCell /\ d # NoCell
    <2>1. cell[c] \in Cell
      BY DEF Fine
    <2>2. p \in Cells
      BY <1>1, <2>1 DEF Cell
    <2>3. cell[p].name \in Names
      BY <1>1, <2>2, Zenon DEF Fine, Sound, Parented
    <2>4. d \in Cells
      BY <1>1, <2>3
    <2> HIDE DEF d
    <2>5. cell[d] \in Cell
      BY <2>4 DEF Fine
    <2>6. cell[d].children \in Seq(Cells)
      BY <2>5 DEF Cell
    <2> QED BY <1>1, <2>6 DEF Siblings, d
  <1>2. CASE ~(OneForAll /\ p # NoCell /\ d # NoCell)
    BY <1>2 DEF Siblings
  <1> QED BY <1>1, <1>2

\* the list of siblings is copied under the parent's lock
LEMMA CopySiblingsKeeps ==
  ASSUME Fine(cell), Parented, registry \in [Names -> Cells \cup {NoCell}],
         NEW c \in Cells, CopySiblings(c)
  PROVE  Kept(cell, cell')
  <1> DEFINE r == Copied(cell[c], Siblings(c))
  <1>1. cell' = [cell EXCEPT ![c] = r]
    BY Zenon DEF CopySiblings, Copied
  <1>2. cell[c] \in Cell /\ Sound(cell[c]) /\ cell[c].at = "restarting"
    BY DEF Fine, CopySiblings
  <1>3. Siblings(c) \in Seq(Cells)
    BY SiblingsAre
  <1>4. r \in Cell /\ r.at = "telling" /\ r.closed = cell[c].closed
          /\ r.name = cell[c].name /\ r.parent = cell[c].parent
    BY <1>2, <1>3, CopiedIs
  <1> HIDE DEF r
  <1>5. Sound(r) /\ Same(cell[c], r)
    BY <1>2, <1>4 DEF Sound, Same, Ending, Hidden
  <1> QED BY <1>1, <1>4, <1>5, OneChanges

\* forceRestart to one sibling, which may be the failing actor itself
LEMMA TellSiblingKeeps ==
  ASSUME Fine(cell), NEW c \in Cells, TellSibling(c)
  PROVE  Kept(cell, cell')
  <1> DEFINE f == Enqueue(cell, Head(cell[c].todo), "forceRestart")
             r == Told(f[c])
  <1>1. cell[c] \in Cell /\ Sound(cell[c]) /\ cell[c].at = "telling"
    BY DEF Fine, TellSibling
  <1>2. CASE cell[c].todo # <<>>
    <2>1. cell' = [f EXCEPT ![c] = r]
      BY <1>2, Zenon DEF TellSibling, Told
    <2>2. cell[c].todo \in Seq(Cells)
      BY <1>1 DEF Cell
    <2>3. Head(cell[c].todo) \in Cells
      BY <1>2, <2>2, Shorter
    <2>4. Kept(cell, f) /\ f[c].at = cell[c].at /\ f[c].todo = cell[c].todo
      BY <2>3, EnqueueKeeps DEF Messages
    <2> HIDE DEF f
    <2>5. Fine(f) /\ f[c] \in Cell /\ Sound(f[c])
      BY <2>4 DEF Kept, Fine
    <2>6. r \in Cell /\ r.at = f[c].at /\ r.closed = f[c].closed /\ r.box = f[c].box
            /\ r.name = f[c].name /\ r.parent = f[c].parent
      BY <1>2, <2>4, <2>5, ToldIs
    <2> HIDE DEF r
    <2>7. Sound(r) /\ Same(f[c], r)
      BY <2>5, <2>6 DEF Sound, Same
    <2>8. Kept(f, cell')
      BY <2>1, <2>5, <2>6, <2>7, OneChanges
    <2> QED BY <2>4, <2>8, KeptTwice
  <1>3. CASE cell[c].todo = <<>>
    <2>1. cell' = [cell EXCEPT ![c] = Moved(cell[c], "starting")]
      BY <1>3, Zenon DEF TellSibling, Moved
    <2> QED BY <1>1, <2>1, MoveKeeps DEF Sound, Ending, Hidden, Places
  <1> QED BY <1>2, <1>3

\* the stop is taken, Stopping goes into the actor's own mailbox
LEMMA TakeStopKeeps ==
  ASSUME Fine(cell), NEW c \in Cells, TakeStop(c)
  PROVE  Kept(cell, cell')
  <1>1. cell[c].at = "loop" /\ Sound(cell[c])
    BY DEF Fine, TakeStop
  <1>2. cell' = [Enqueue(cell, c, "Stopping") EXCEPT ![c].at = "closing"]
    BY DEF TakeStop
  <1> QED BY <1>1, <1>2, EnqueueMoveKeeps DEF Sound, Ending, Hidden, Places, Messages

\* the mailbox is closed
LEMMA CloseBoxKeeps ==
  ASSUME Fine(cell), NEW c \in Cells, CloseBox(c)
  PROVE  Kept(cell, cell')
  <1> DEFINE r == Shut(cell[c])
  <1>1. cell' = [cell EXCEPT ![c] = r]
    BY Zenon DEF CloseBox, Shut
  <1>2. cell[c] \in Cell /\ Sound(cell[c]) /\ cell[c].at = "closing"
    BY DEF Fine, CloseBox
  <1>3. r \in Cell /\ r.at = "draining" /\ r.name = cell[c].name /\ r.parent = cell[c].parent
    BY <1>2, ShutIs
  <1> HIDE DEF r
  <1>4. Sound(r) /\ Same(cell[c], r)
    BY <1>2, <1>3 DEF Sound, Same, Ending, Hidden
  <1> QED BY <1>1, <1>3, <1>4, OneChanges

\* OnStop, with an empty mailbox: what was accepted has been handled
LEMMA OnStopKeeps ==
  ASSUME Fine(cell), NEW c \in Cells, OnStop(c)
  PROVE  Kept(cell, cell')
  <1>1. cell' = [cell EXCEPT ![c] = Moved(cell[c], "returning")]
    BY Zenon DEF OnStop, Goes, Moved
  <1>2. cell[c].at = "draining" /\ cell[c].box = <<>>
    BY DEF OnStop, Goes
  <1> QED BY <1>1, <1>2, MoveKeeps DEF Hidden, Places

\* a message from outside
LEMMA TellKeeps ==
  ASSUME Fine(cell), NEW c \in Cells, Tell(c)
  PROVE  Kept(cell, cell')
  BY EnqueueKeeps DEF Tell, Messages

\* Stop and Shutdown close stopCh
LEMMA StopKeeps ==
  ASSUME Fine(cell), NEW c \in Cells, cell' = [cell EXCEPT ![c].stop = TRUE]
  PROVE  Kept(cell, cell')
  <1> DEFINE r == Stopped(cell[c])
  <1>1. cell' = [cell EXCEPT ![c] = r]
    BY Zenon DEF Stopped
  <1>2. cell[c] \in Cell /\ Sound(cell[c])
    BY DEF Fine
  <1>3. r \in Cell /\ r.at = cell[c].at /\ r.closed = cell[c].closed /\ r.box = cell[c].box
          /\ r.name = cell[c].name /\ r.parent = cell[c].parent
    BY <1>2, StoppedIs
  <1> HIDE DEF r
  <1>4. Sound(r) /\ Same(cell[c], r)
    BY <1>2, <1>3 DEF Sound, Same
  <1> QED BY <1>1, <1>3, <1>4, OneChanges

-----------------------------------------------------------------------------
(* The invariant. *)

\* the cells not yet given out
Newborn == \A c \in Cells : c > spawned => (cell[c].at = "none")

Rest ==
  /\ spawned \in 0..MaxCells
  /\ restarts \in [Names -> 0..MaxRestarts]
  /\ shutdown \in [at : {"idle", "stopping", "returned"}, todo : SUBSET Cells]
  /\ tells \in 0..MaxTells /\ crashed \in BOOLEAN /\ reused \subseteq Names

RegistryType == registry \in [Names -> Cells \cup {NoCell}]

SystemInv ==
  /\ Fine(cell) /\ Newborn /\ Parented /\ Rest /\ RegistryType
  /\ LookupFindsTheLiving /\ TheLivingAreFound

\* the steps of an actor that leave the registry alone
Quiet(c) ==
  \/ SpawnGo(c) \/ Start(c) \/ TakeMessage(c)
  \/ DieUnsupervised(c) \/ Supervise(c) \/ CopySiblings(c) \/ TellSibling(c)
  \/ TakeStop(c) \/ CloseBox(c) \/ Drain(c) \/ OnStop(c) \/ Tell(c)

\* Whatever an actor does before it returns, and any message to it, leaves the
\* registry, the names and who is published as they are.
LEMMA QuietKeeps ==
  ASSUME SystemInv, NEW c \in Cells, Quiet(c)
  PROVE  Kept(cell, cell')
  <1> USE DEF SystemInv, RegistryType
  <1>1. CASE SpawnGo(c) BY <1>1, SpawnGoKeeps
  <1>2. CASE Start(c) BY <1>2, StartKeeps
  <1>3. CASE TakeMessage(c) BY <1>3, TakeMessageKeeps
  <1>4. CASE DieUnsupervised(c) BY <1>4, DieUnsupervisedKeeps
  <1>5. CASE Supervise(c) BY <1>5, SuperviseKeeps
  <1>6. CASE CopySiblings(c) BY <1>6, CopySiblingsKeeps
  <1>7. CASE TellSibling(c) BY <1>7, TellSiblingKeeps
  <1>8. CASE TakeStop(c) BY <1>8, TakeStopKeeps
  <1>9. CASE CloseBox(c) BY <1>9, CloseBoxKeeps
  <1>10. CASE Drain(c) BY <1>10, DrainKeeps
  <1>11. CASE OnStop(c) BY <1>11, OnStopKeeps
  <1>12. CASE Tell(c) BY <1>12, TellKeeps
  <1> QED BY <1>1, <1>2, <1>3, <1>4, <1>5, <1>6, <1>7, <1>8, <1>9, <1>10, <1>11, <1>12 DEF Quiet

\* the tracker's record is longer than the limit for no longer than Record
LEMMA SuperviseRecords ==
  ASSUME Fine(cell), restarts \in [Names -> 0..MaxRestarts], NEW c \in Cells, Supervise(c)
  PROVE  restarts' \in [Names -> 0..MaxRestarts]
  <1>1. cell[c].at = "failed" /\ Sound(cell[c])
    BY DEF Supervise, Fine
  <1>2. cell[c].name \in Names
    BY <1>1 DEF Sound
  <1>3. CASE UNCHANGED restarts
    BY <1>3
  <1>4. CASE AnswerRestart(c)
    <2> DEFINE n == cell[c].name
    <2>1. PICK k \in Recorded(n) :
            \/ TooMany(k) /\ restarts' = [restarts EXCEPT ![n] = 0]
            \/ ~TooMany(k) /\ restarts' = [restarts EXCEPT ![n] = k]
      BY <1>4 DEF AnswerRestart
    <2>2. restarts[n] \in 0..MaxRestarts
      BY <1>2
    <2>3. k \in Nat
      BY <2>2, SystemAssumption DEF Recorded
    <2>4. TooMany(k) \/ k \in 0..MaxRestarts
      BY <2>3, SystemAssumption DEF TooMany
    <2>5. 0 \in 0..MaxRestarts
      BY SystemAssumption
    <2> QED BY <1>2, <2>1, <2>4, <2>5
  <1> QED BY <1>3, <1>4 DEF Supervise

\* such a step also keeps the counters and the tracker's records in their bounds
LEMMA QuietRest ==
  ASSUME SystemInv, NEW c \in Cells, Quiet(c)
  PROVE  Rest' /\ UNCHANGED <<spawned, registry, reused>>
  <1> USE DEF SystemInv, Rest
  <1>1. CASE Supervise(c)
    BY <1>1, SuperviseRecords DEF Supervise
  <1>2. CASE Drain(c)
    BY <1>2 DEF Drain
  <1>3. CASE Tell(c)
    BY <1>3, SystemAssumption DEF Tell
  <1>4. CASE \/ SpawnGo(c) \/ Start(c) \/ TakeMessage(c)
             \/ DieUnsupervised(c) \/ CopySiblings(c) \/ TellSibling(c)
             \/ TakeStop(c) \/ CloseBox(c) \/ OnStop(c)
    BY <1>4 DEF SpawnGo, Start, TakeMessage, DieUnsupervised, CopySiblings, TellSibling,
                TakeStop, CloseBox, OnStop
  <1> QED BY <1>1, <1>2, <1>3, <1>4 DEF Quiet

\* The invariant holds after any step that leaves registry, names and who is
\* published as they are.
LEMMA KeptInv ==
  ASSUME SystemInv, Kept(cell, cell'), UNCHANGED <<spawned, registry, reused>>, Rest'
  PROVE  SystemInv'
  <1>1. Fine(cell)'
    BY DEF Kept, Fine
  <1>2. \A d \in Cells : /\ cell'[d].name = cell[d].name /\ cell'[d].parent = cell[d].parent
                         /\ cell[d].at \in Hidden <=> (cell'[d].at \in Hidden)
                         /\ cell[d].at \in Hidden => (cell'[d].at = cell[d].at)
    BY DEF Kept, Same
  <1>3. \A d \in Cells : Published(d) <=> Published(d)'
    BY <1>2 DEF Published, Hidden
  <1>4. \A d \in Cells : cell[d].at = "none" <=> (cell'[d].at = "none")
    BY <1>2 DEF Hidden
  <1>5. Newborn'
    BY <1>4 DEF SystemInv, Newborn
  <1>6. Parented'
    <2> SUFFICES ASSUME NEW d \in Cells, cell'[d].parent # NoCell
                 PROVE  cell'[cell'[d].parent].at # "none"
      BY DEF Parented
    <2>1. cell'[d].parent = cell[d].parent /\ cell[d] \in Cell
      BY <1>2 DEF SystemInv, Fine
    <2>2. cell[d].parent \in Cells
      BY <2>1 DEF Cell
    <2> QED BY <1>4, <2>1, <2>2 DEF SystemInv, Parented
  <1>7. LookupFindsTheLiving'
    <2>1. \A n \in Names : registry[n] # NoCell => (registry[n] \in Cells)
      BY DEF SystemInv, RegistryType
    <2> QED BY <1>2, <1>3, <2>1 DEF SystemInv, LookupFindsTheLiving
  <1>8. TheLivingAreFound'
    BY <1>2, <1>3 DEF SystemInv, TheLivingAreFound
  <1> QED BY <1>1, <1>5, <1>6, <1>7, <1>8 DEF SystemInv, RegistryType

-----------------------------------------------------------------------------
(* A spawn and a return. *)

\* a cell just made is of the right type, and sound
LEMMA NewCellIs ==
  ASSUME NEW n \in Names, NEW p \in Cells \cup {NoCell}
  PROVE  /\ NewCell(n, p) \in Cell /\ Sound(NewCell(n, p))
         /\ NewCell(n, p).name = n /\ NewCell(n, p).parent = p /\ NewCell(n, p).at = "listed"
  <1>1. <<>> \in Seq(Cells) /\ <<>> \in Seq(Messages) /\ 0 \in 0..MaxStarts
    BY SystemAssumption
  <1> QED BY <1>1 DEF NewCell, Cell, Sound, Places

\* entering the child in its parent's list
LEMMA ListedKeeps ==
  ASSUME SystemInv, NEW c \in Cells, NEW p \in Cells \cup {NoCell},
         p # NoCell => (cell[p].at # "none")
  PROVE  Kept(cell, Listed(c, p))
  <1> DEFINE d == registry[cell[p].name]
             r == Bore(cell[d], c)
  <1>1. CASE p # NoCell /\ d # NoCell
    <2>1. cell[p].name \in Names
      BY <1>1 DEF SystemInv, Fine, Sound
    <2>2. d \in Cells
      BY <1>1, <2>1 DEF SystemInv, RegistryType
    <2>3. Listed(c, p) = [cell EXCEPT ![d] = r]
      BY <1>1, Zenon DEF Listed, Bore
    <2> HIDE DEF d
    <2>4. cell[d] \in Cell /\ Sound(cell[d])
      BY <2>2 DEF SystemInv, Fine
    <2>5. r \in Cell /\ r.at = cell[d].at /\ r.closed = cell[d].closed /\ r.box = cell[d].box
            /\ r.name = cell[d].name /\ r.parent = cell[d].parent
      BY <2>4, BoreIs
    <2> HIDE DEF r
    <2>6. Sound(r) /\ Same(cell[d], r)
      BY <2>4, <2>5 DEF Sound, Same
    <2> QED BY <2>2, <2>3, <2>5, <2>6, OneChanges DEF SystemInv
  <1>2. CASE ~(p # NoCell /\ d # NoCell)
    BY <1>2 DEF Listed, Kept, Same, SystemInv
  <1> QED BY <1>1, <1>2

\* the first step of a spawn: a cell is made and entered in its parent's list
LEMMA SpawnListInv ==
  ASSUME SystemInv, NEW n \in Names, SpawnList(n)
  PROVE  SystemInv'
  <1> PICK c \in Cells : c = spawned + 1
    BY DEF SpawnList
  <1>1. /\ spawned' = c
        /\ UNCHANGED <<registry, restarts, shutdown, tells, crashed, reused>>
    BY DEF SpawnList
  <1>2. PICK p \in Parents(n) : cell' = [Listed(c, p) EXCEPT ![c] = NewCell(n, p)]
    BY DEF SpawnList
  <1>3. p \in Cells \cup {NoCell} /\ (p # NoCell => (cell[p].at # "none"))
    BY <1>2 DEF Parents, Waited, Published
  <1>4. spawned \in Nat /\ MaxCells \in Nat
    BY SystemAssumption DEF SystemInv, Rest
  <1>5. cell[c].at = "none"
    BY <1>1, <1>4 DEF SystemInv, Newborn
  <1> DEFINE f == Listed(c, p)
             r == NewCell(n, p)
  <1>6. Kept(cell, f)
    BY <1>1, <1>3, ListedKeeps
  <1>7. r \in Cell /\ Sound(r) /\ r.name = n /\ r.parent = p /\ r.at = "listed"
    BY <1>3, NewCellIs
  <1>8. cell' = [f EXCEPT ![c] = r]
    BY <1>2
  <1> HIDE DEF f, r
  <1>9. f \in [Cells -> Cell] /\ \A d \in Cells : Sound(f[d]) /\ Same(cell[d], f[d])
    BY <1>6 DEF Kept, Fine
  <1>10. cell' \in [Cells -> Cell] /\ cell'[c] = r /\ \A d \in Cells : d # c => (cell'[d] = f[d])
    BY <1>1, <1>7, <1>8, <1>9
  <1>11. Fine(cell)'
    BY <1>7, <1>9, <1>10 DEF Fine
  <1>12. \A d \in Cells : d # c =>
           /\ cell'[d].name = cell[d].name /\ cell'[d].parent = cell[d].parent
           /\ cell[d].at \in Hidden <=> (cell'[d].at \in Hidden)
           /\ cell[d].at \in Hidden => (cell'[d].at = cell[d].at)
    BY <1>9, <1>10 DEF Same
  <1>13. \A d \in Cells : Published(d) <=> Published(d)'
    <2>1. ~Published(c) /\ ~Published(c)'
      BY <1>5, <1>7, <1>10 DEF Published
    <2>2. \A d \in Cells : d # c => (Published(d) <=> Published(d)')
      BY <1>12 DEF Published, Hidden
    <2> QED BY <2>1, <2>2
  <1>14. \A d \in Cells : d # c => (cell[d].at = "none" <=> (cell'[d].at = "none"))
    BY <1>12 DEF Hidden
  <1>15. Newborn'
    <2> SUFFICES ASSUME NEW d \in Cells, d > spawned'
                 PROVE  cell'[d].at = "none"
      BY DEF Newborn
    <2>1. d # c /\ d > spawned
      BY <1>1, <1>4 DEF Cells
    <2> QED BY <1>14, <2>1 DEF SystemInv, Newborn
  <1>16. Parented'
    <2> SUFFICES ASSUME NEW d \in Cells, cell'[d].parent # NoCell
                 PROVE  cell'[cell'[d].parent].at # "none"
      BY DEF Parented
    <2>1. CASE d = c
      <3>1. p \in Cells /\ p # c /\ cell'[d].parent = p
        BY <1>3, <1>5, <1>7, <1>10, <2>1
      <3> QED BY <1>3, <1>14, <3>1
    <2>2. CASE d # c
      <3>1. cell'[d].parent = cell[d].parent /\ cell[d] \in Cell
        BY <1>12, <2>2 DEF SystemInv, Fine
      <3>2. cell[d].parent \in Cells
        BY <3>1 DEF Cell
      <3>3. cell[cell[d].parent].at # "none" /\ cell[d].parent # c
        BY <1>5, <3>1 DEF SystemInv, Parented
      <3> QED BY <1>14, <3>1, <3>2, <3>3
    <2> QED BY <2>1, <2>2
  <1>17. LookupFindsTheLiving'
    <2> SUFFICES ASSUME NEW m \in Names, registry[m] # NoCell
                 PROVE  cell'[registry[m]].at \notin Hidden /\ cell'[registry[m]].name = m
      BY <1>1 DEF LookupFindsTheLiving, Published, Hidden
    <2>1. registry[m] \in Cells /\ Published(registry[m]) /\ cell[registry[m]].name = m
      BY DEF SystemInv, RegistryType, LookupFindsTheLiving
    <2>2. registry[m] # c
      BY <1>5, <2>1 DEF Published
    <2> QED BY <1>12, <2>1, <2>2 DEF Published, Hidden
  <1>18. TheLivingAreFound'
    <2> SUFFICES ASSUME NEW d \in Cells, Published(d)', cell'[d].name \notin reused
                 PROVE  registry[cell'[d].name] = d
      BY <1>1 DEF TheLivingAreFound
    <2>1. Published(d) /\ d # c
      BY <1>5, <1>13 DEF Published
    <2> QED BY <1>12, <2>1 DEF SystemInv, TheLivingAreFound
  <1>19. Rest'
    BY <1>1, <1>4 DEF SystemInv, Rest, Cells
  <1> QED BY <1>1, <1>11, <1>15, <1>16, <1>17, <1>18, <1>19 DEF SystemInv, RegistryType

\* a cell goes to another point of runActor, across the border of Hidden
LEMMA MovedAcross ==
  ASSUME SystemInv, NEW c \in Cells, NEW to \in {"published", "done"},
         cell[c].at # "none", to = "published" => (cell[c].at = "listed"),
         to = "done" => (cell[c].at = "returning"),
         cell' = [cell EXCEPT ![c].at = to]
  PROVE  /\ Fine(cell)'
         /\ cell'[c].name = cell[c].name /\ cell'[c].at = to
         /\ \A d \in Cells : d # c => (cell'[d] = cell[d])
         /\ UNCHANGED spawned => (Newborn' /\ Parented')
  <1> DEFINE r == Moved(cell[c], to)
  <1>1. cell' = [cell EXCEPT ![c] = r]
    BY Zenon DEF Moved
  <1>2. cell \in [Cells -> Cell] /\ cell[c] \in Cell /\ \A d \in Cells : Sound(cell[d])
    BY DEF SystemInv, Fine
  <1>3. r \in Cell /\ r.at = to /\ r.closed = cell[c].closed /\ r.box = cell[c].box
          /\ r.name = cell[c].name /\ r.parent = cell[c].parent
    BY <1>2, MovedIs DEF Places
  <1> HIDE DEF r
  <1>4. Sound(r)
    BY <1>2, <1>3 DEF Sound, Ending
  <1>5. cell' \in [Cells -> Cell] /\ cell'[c] = r /\ \A d \in Cells : d # c => (cell'[d] = cell[d])
    BY <1>1, <1>2, <1>3
  <1>6. Fine(cell)'
    BY <1>2, <1>4, <1>5 DEF Fine
  <1>7. ASSUME UNCHANGED spawned PROVE Newborn'
    BY <1>5, <1>7 DEF SystemInv, Newborn
  <1>8. \A d \in Cells : cell'[d].parent = cell[d].parent
    BY <1>3, <1>5
  <1>9. \A d \in Cells : cell[d].at # "none" => (cell'[d].at # "none")
    BY <1>3, <1>5
  <1>10. Parented'
    <2> SUFFICES ASSUME NEW d \in Cells, cell'[d].parent # NoCell
                 PROVE  cell'[cell'[d].parent].at # "none"
      BY DEF Parented
    <2>1. cell'[d].parent = cell[d].parent /\ cell[d] \in Cell
      BY <1>2, <1>8
    <2>2. cell[d].parent \in Cells
      BY <2>1 DEF Cell
    <2> QED BY <1>9, <2>1, <2>2 DEF SystemInv, Parented
  <1> QED BY <1>3, <1>5, <1>6, <1>7, <1>10

\* The second step of a spawn: the registry leads to the new cell, and an older
\* one of the name is found no more.
LEMMA SpawnPublishInv ==
  ASSUME SystemInv, NEW c \in Cells, SpawnPublish(c)
  PROVE  SystemInv'
  <1> DEFINE n == cell[c].name
  <1>1. /\ cell[c].at = "listed" /\ cell' = [cell EXCEPT ![c].at = "published"]
        /\ registry' = [registry EXCEPT ![n] = c]
        /\ UNCHANGED <<spawned, restarts, shutdown, tells, crashed>>
    BY DEF SpawnPublish, Goes
  <1>2. reused' = IF \E d \in Cells : cell[d].name = n /\ Published(d)
                  THEN reused \cup {n} ELSE reused
    BY DEF SpawnPublish
  <1>3. n \in Names
    BY <1>1 DEF SystemInv, Fine, Sound
  <1>4. /\ Fine(cell)' /\ Newborn' /\ Parented'
        /\ cell'[c].name = n /\ cell'[c].at = "published"
        /\ \A d \in Cells : d # c => (cell'[d] = cell[d])
    BY <1>1, MovedAcross
  <1> HIDE DEF n
  <1>5. RegistryType' /\ registry'[n] = c /\ \A m \in Names : m # n => (registry'[m] = registry[m])
    BY <1>1, <1>3 DEF SystemInv, RegistryType
  <1>6. Published(c)' /\ ~Published(c) /\ \A d \in Cells : d # c => (Published(d)' <=> Published(d))
    BY <1>1, <1>4 DEF Published
  <1>7. LookupFindsTheLiving'
    <2> SUFFICES ASSUME NEW m \in Names, registry'[m] # NoCell
                 PROVE  cell'[registry'[m]].at \notin Hidden /\ cell'[registry'[m]].name = m
      BY DEF LookupFindsTheLiving, Published, Hidden
    <2>1. CASE m = n
      BY <1>4, <1>5, <2>1 DEF Hidden
    <2>2. CASE m # n
      <3>1. registry'[m] = registry[m] /\ registry[m] \in Cells
        BY <1>5, <2>2 DEF SystemInv, RegistryType
      <3>2. Published(registry[m]) /\ cell[registry[m]].name = m
        BY <3>1 DEF SystemInv, LookupFindsTheLiving
      <3>3. registry[m] # c
        BY <1>6, <3>2
      <3> QED BY <1>4, <3>1, <3>2, <3>3 DEF Published, Hidden
    <2> QED BY <2>1, <2>2
  <1>8. TheLivingAreFound'
    <2> SUFFICES ASSUME NEW d \in Cells, Published(d)', cell'[d].name \notin reused'
                 PROVE  registry'[cell'[d].name] = d
      BY DEF TheLivingAreFound
    <2>1. CASE d = c
      BY <1>4, <1>5, <2>1
    <2>2. CASE d # c
      <3>1. Published(d) /\ cell'[d].name = cell[d].name /\ cell[d].name \notin reused
        BY <1>2, <1>4, <1>6, <2>2
      <3>2. cell[d].name # n
        BY <1>2, <1>4, <2>2, <3>1
      <3>3. cell[d].name \in Names
        BY <3>1 DEF SystemInv, Fine, Sound, Published
      <3> QED BY <1>5, <3>1, <3>2, <3>3 DEF SystemInv, TheLivingAreFound
    <2> QED BY <2>1, <2>2
  <1>9. Rest'
    BY <1>1, <1>2, <1>3 DEF SystemInv, Rest
  <1> QED BY <1>4, <1>5, <1>7, <1>8, <1>9 DEF SystemInv

\* An actor returns and takes its name out of the registry, though it may by then
\* lead to another cell.
LEMMA ReturnInv ==
  ASSUME SystemInv, NEW c \in Cells, Return(c)
  PROVE  SystemInv'
  <1> DEFINE n == cell[c].name
  <1>1. /\ cell[c].at = "returning" /\ cell' = [cell EXCEPT ![c].at = "done"]
        /\ registry' = [registry EXCEPT ![n] = NoCell]
        /\ UNCHANGED <<spawned, restarts, shutdown, tells, crashed, reused>>
    BY DEF Return, Goes, Deregistered
  <1>2. n \in Names
    BY <1>1 DEF SystemInv, Fine, Sound
  <1>3. /\ Fine(cell)' /\ Newborn' /\ Parented'
        /\ cell'[c].name = n /\ cell'[c].at = "done"
        /\ \A d \in Cells : d # c => (cell'[d] = cell[d])
    BY <1>1, MovedAcross
  <1>4. Published(c) /\ ~Published(c)' /\ \A d \in Cells : d # c => (Published(d)' <=> Published(d))
    BY <1>1, <1>3 DEF Published
  <1> HIDE DEF n
  <1>5. /\ RegistryType' /\ registry'[n] = NoCell
        /\ \A m \in Names : m # n => (registry'[m] = registry[m])
    BY <1>1, <1>2 DEF SystemInv, RegistryType
  <1>6. LookupFindsTheLiving'
    <2> SUFFICES ASSUME NEW m \in Names, registry'[m] # NoCell
                 PROVE  cell'[registry'[m]].at \notin Hidden /\ cell'[registry'[m]].name = m
      BY DEF LookupFindsTheLiving, Published, Hidden
    <2>1. m # n /\ registry'[m] = registry[m] /\ registry[m] \in Cells
      BY <1>5 DEF SystemInv, RegistryType
    <2>2. Published(registry[m]) /\ cell[registry[m]].name = m
      BY <2>1 DEF SystemInv, LookupFindsTheLiving
    <2>3. registry[m] # c
      BY <2>1, <2>2 DEF n
    <2> QED BY <1>3, <2>1, <2>2, <2>3 DEF Published, Hidden
  <1>7. TheLivingAreFound'
    <2> SUFFICES ASSUME NEW d \in Cells, Published(d)', cell'[d].name \notin reused
                 PROVE  registry'[cell'[d].name] = d
      BY <1>1 DEF TheLivingAreFound
    <2>1. d # c /\ Published(d) /\ cell'[d] = cell[d]
      BY <1>3, <1>4
    <2>2. registry[cell[d].name] = d
      BY <2>1 DEF SystemInv, TheLivingAreFound
    <2>3. cell[d].name # n
      BY <1>4, <2>1, <2>2 DEF SystemInv, TheLivingAreFound, n
    <2>4. cell[d].name \in Names
      BY <2>1 DEF SystemInv, Fine, Sound, Published
    <2> QED BY <1>5, <2>1, <2>2, <2>3, <2>4
  <1>8. Rest'
    BY <1>1 DEF SystemInv, Rest
  <1> QED BY <1>3, <1>5, <1>6, <1>7, <1>8 DEF SystemInv

-----------------------------------------------------------------------------
(* The theorems. *)

\* nothing has been spawned
LEMMA InitInv == Init => SystemInv
  <1> SUFFICES ASSUME Init PROVE SystemInv
    OBVIOUS
  <1>1. \A c \in Cells : cell[c] = Unused
    BY DEF Init
  <1>2. <<>> \in Seq(Cells) /\ <<>> \in Seq(Messages) /\ 0 \in 0..MaxStarts /\ 0 \in 0..MaxRestarts
    BY SystemAssumption
  <1>3. Unused \in Cell /\ Sound(Unused) /\ Unused.at = "none" /\ Unused.parent = NoCell
    BY <1>2 DEF Unused, NewCell, Cell, Sound, Places
  <1>4. Fine(cell) /\ Newborn /\ Parented
    BY <1>1, <1>3 DEF Fine, Newborn, Parented, Init
  <1>5. Rest
    <2>1. restarts \in [Names -> 0..MaxRestarts] /\ tells \in 0..MaxTells
      BY <1>2, SystemAssumption DEF Init
    <2>2. shutdown \in [at : {"idle", "stopping", "returned"}, todo : SUBSET Cells]
      <3>1. \A S : {} \in SUBSET S
        OBVIOUS
      <3>2. ASSUME NEW W, NEW T \in W
            PROVE  [at |-> "idle", todo |-> T] \in [at : {"idle", "stopping", "returned"}, todo : W]
        OBVIOUS
      <3> QED BY <3>1, <3>2, Zenon DEF Init
    <2>3. spawned \in 0..MaxCells
      BY SystemAssumption DEF Init
    <2>4. crashed \in BOOLEAN /\ reused \subseteq Names
      BY Zenon DEF Init
    <2> QED BY <2>1, <2>2, <2>3, <2>4 DEF Rest
  <1>6. LookupFindsTheLiving
    BY DEF Init, LookupFindsTheLiving
  <1>7. TheLivingAreFound
    BY <1>1, <1>3 DEF TheLivingAreFound, Published
  <1>8. RegistryType
    BY DEF RegistryType, Init
  <1> QED BY <1>4, <1>5, <1>6, <1>7, <1>8 DEF SystemInv

\* the steps that leave every cell as it is
Still == ShutdownBegin \/ ShutdownReturn \/ (\E c \in Cells : HookPanics(c)) \/ UNCHANGED vars

\* every step keeps the invariant
LEMMA StepInv == SystemInv /\ [Next]_vars => SystemInv'
  <1> SUFFICES ASSUME SystemInv, [Next]_vars PROVE SystemInv'
    OBVIOUS
  <1>0. Fine(cell)
    BY DEF SystemInv
  <1>1. ASSUME NEW n \in Names, SpawnList(n) PROVE SystemInv'
    BY <1>1, SpawnListInv
  <1>2. ASSUME NEW n \in Names, Stop(n) PROVE SystemInv'
    <2>1. registry[n] \in Cells /\ cell' = [cell EXCEPT ![registry[n]].stop = TRUE]
      BY <1>2 DEF Stop, SystemInv, RegistryType
    <2>2. Kept(cell, cell')
      BY <1>0, <2>1, StopKeeps
    <2>3. Rest' /\ UNCHANGED <<spawned, registry, reused>>
      BY <1>2 DEF Stop, SystemInv, Rest
    <2> QED BY <2>2, <2>3, KeptInv
  <1>3. ASSUME NEW c \in Cells, SpawnPublish(c) PROVE SystemInv'
    BY <1>3, SpawnPublishInv
  <1>4. ASSUME NEW c \in Cells, Return(c) PROVE SystemInv'
    BY <1>4, ReturnInv
  <1>5. ASSUME NEW c \in Cells, Quiet(c) PROVE SystemInv'
    BY <1>5, QuietKeeps, QuietRest, KeptInv
  <1>6. ASSUME NEW c \in Cells, ShutdownStop(c) PROVE SystemInv'
    <2>1. Kept(cell, cell')
      BY <1>0, <1>6, StopKeeps DEF ShutdownStop
    <2>2. Rest' /\ UNCHANGED <<spawned, registry, reused>>
      BY <1>6 DEF ShutdownStop, SystemInv, Rest
    <2> QED BY <2>1, <2>2, KeptInv
  <1>7. CASE Still
    <2>1. cell' = cell /\ UNCHANGED <<spawned, registry, reused>>
      BY <1>7 DEF Still, ShutdownBegin, ShutdownReturn, HookPanics, vars
    <2>2. Kept(cell, cell')
      BY <1>0, <2>1 DEF Kept, Same
    <2>3. Rest'
      <3>1. CASE \E c \in Cells : HookPanics(c)
        <4>1. /\ crashed' = TRUE
              /\ UNCHANGED <<spawned, restarts, shutdown, tells, reused>>
          BY <3>1 DEF HookPanics
        <4> QED BY <4>1 DEF SystemInv, Rest
      <3>2. CASE ShutdownBegin \/ ShutdownReturn \/ UNCHANGED vars
        BY <3>2 DEF ShutdownBegin, ShutdownReturn, vars, SystemInv, Rest, RegistryType
      <3> QED BY <1>7, <3>1, <3>2 DEF Still
    <2> QED BY <2>1, <2>2, <2>3, KeptInv
  <1> QED BY <1>1, <1>2, <1>3, <1>4, <1>5, <1>6, <1>7 DEF Next, Spawner, Actor, Shutdown, Quiet, Still

\* the invariant holds in every state
LEMMA SystemInvariance == Spec => []SystemInv
  BY InitInv, StepInv, PTL DEF Spec

\* Type correctness of the runtime for any names, families, limits and bounds.
THEOREM TypeCorrect == Spec => []TypeOK
  <1>1. SystemInv => TypeOK
    BY DEF SystemInv, Fine, Rest, RegistryType, TypeOK, Cell
  <1> QED BY <1>1, SystemInvariance, PTL

\* However many actors share names, fail, restart and stop, at any interleaving
\* of spawns, ends and lookups: the registry only ever leads to an actor that
\* is there, under its own name.
THEOREM LookupAlwaysFindsTheLiving == Spec => []LookupFindsTheLiving
  <1>1. SystemInv => LookupFindsTheLiving
    BY DEF SystemInv
  <1> QED BY <1>1, SystemInvariance, PTL

\* An actor whose name no second one has had while it lived can always be found.
THEOREM TheLivingAreAlwaysFound == Spec => []TheLivingAreFound
  <1>1. SystemInv => TheLivingAreFound
    BY DEF SystemInv
  <1> QED BY <1>1, SystemInvariance, PTL

\* What the mailbox of a stopped actor has accepted has been handled, whatever
\* the mailbox's size and however senders interleave with the stop.
THEOREM AcceptedIsAlwaysHandled == Spec => []AcceptedIsHandled
  <1>1. SystemInv => AcceptedIsHandled
    BY DEF SystemInv, Fine, Sound, Ending, AcceptedIsHandled
  <1> QED BY <1>1, SystemInvariance, PTL

-----------------------------------------------------------------------------
(* Lists, and how often forceRestart is in a mailbox. *)

In(q, e) == \E i \in 1..Len(q) : q[i] = e
NoRepeat(q) == \A i, j \in 1..Len(q) : q[i] = q[j] => i = j

\* A list grows by what is new to it.
LEMMA AppendList ==
  ASSUME NEW S, NEW q \in Seq(S), NEW e \in S
  PROVE  /\ \A x : In(Append(q, e), x) <=> (In(q, x) \/ x = e)
         /\ (NoRepeat(q) /\ ~In(q, e)) => NoRepeat(Append(q, e))
  <1> DEFINE r == Append(q, e)
  <1>1. PICK n \in Nat : n = Len(q)
    BY LenProperties
  <1>2. Len(r) = n + 1 /\ (\A i \in 1..n : r[i] = q[i]) /\ r[n + 1] = e
    BY <1>1, AppendProperties
  <1> HIDE DEF r
  <1>3. 1..(n + 1) = (1..n) \cup {n + 1} /\ n + 1 \notin 1..n
    OBVIOUS
  <1>4. \A x : In(r, x) <=> (In(q, x) \/ x = e)
    BY <1>1, <1>2, <1>3 DEF In
  <1>5. ASSUME NoRepeat(q), ~In(q, e) PROVE NoRepeat(r)
    BY <1>1, <1>2, <1>3, <1>5 DEF In, NoRepeat
  <1> QED BY <1>4, <1>5 DEF r

\* A list without its head.
LEMMA TailList ==
  ASSUME NEW S, NEW q \in Seq(S), q # <<>>
  PROVE  /\ In(q, Head(q)) /\ \A x : In(Tail(q), x) => In(q, x)
         /\ NoRepeat(q) => NoRepeat(Tail(q)) /\ ~In(Tail(q), Head(q))
  <1> DEFINE r == Tail(q)
  <1>1. PICK n \in Nat : n + 1 = Len(q)
    <2>1. Len(q) \in Nat /\ Len(q) # 0
      BY LenProperties, EmptySeq
    <2>2. Len(q) - 1 \in Nat /\ (Len(q) - 1) + 1 = Len(q)
      BY <2>1
    <2> QED BY <2>2
  <1>2. Len(r) = n /\ (\A i \in 1..n : r[i] = q[i + 1]) /\ Head(q) = q[1]
    <2>1. Len(r) = Len(q) - 1 /\ (\A i \in 1..Len(r) : r[i] = q[i + 1])
      BY HeadTailProperties
    <2> QED BY <1>1, <2>1
  <1> HIDE DEF r
  <1>3. 1 \in 1..(n + 1) /\ \A i \in 1..n : i + 1 \in 1..(n + 1) /\ i + 1 # 1
    OBVIOUS
  <1>4. In(q, Head(q)) /\ \A x : In(r, x) => In(q, x)
    BY <1>1, <1>2, <1>3 DEF In
  <1>5. ASSUME NoRepeat(q) PROVE NoRepeat(r) /\ ~In(r, Head(q))
    <2>1. \A i, j \in 1..n : i + 1 = j + 1 => i = j
      OBVIOUS
    <2>2. NoRepeat(r)
      <3> SUFFICES ASSUME NEW i \in 1..n, NEW j \in 1..n, r[i] = r[j] PROVE i = j
        BY <1>2 DEF NoRepeat
      <3>1. q[i + 1] = q[j + 1] /\ i + 1 \in 1..Len(q) /\ j + 1 \in 1..Len(q)
        BY <1>1, <1>2, <1>3
      <3>2. i + 1 = j + 1
        BY <1>5, <3>1 DEF NoRepeat
      <3> QED BY <2>1, <3>2
    <2>3. ~In(r, Head(q))
      BY <1>1, <1>2, <1>3, <1>5 DEF NoRepeat, In
    <2> QED BY <2>2, <2>3
  <1> QED BY <1>4, <1>5 DEF r

Orders(q) == {i \in 1..Len(q) : q[i] = "forceRestart"}
Forced(q) == Cardinality(Orders(q))

\* The number of forced restarts waiting in a mailbox.
LEMMA ForcedType ==
  ASSUME NEW q \in Seq(Messages)
  PROVE  Orders(q) \subseteq 1..Len(q) /\ IsFiniteSet(Orders(q)) /\ Forced(q) \in Nat
  <1>1. Len(q) \in Nat /\ Orders(q) \in SUBSET (1..Len(q))
    BY LenProperties DEF Orders
  <1>2. IsFiniteSet(Orders(q))
    <2>1. IsFiniteSet(1..Len(q))
      BY <1>1, FS_Interval
    <2> HIDE DEF Orders
    <2> QED BY <1>1, <2>1, FS_Subset
  <1> QED BY <1>1, <1>2, FS_CardinalityType DEF Forced

\* An empty mailbox has none.
LEMMA ForcedEmpty == Forced(<<>>) = 0
  <1>1. Orders(<<>>) = {}
    BY DEF Orders
  <1> QED BY <1>1, FS_EmptySet DEF Forced

\* An enqueued message adds one if it is one.
LEMMA ForcedAppend ==
  ASSUME NEW q \in Seq(Messages), NEW m \in Messages
  PROVE  Forced(Append(q, m)) = IF m = "forceRestart" THEN Forced(q) + 1 ELSE Forced(q)
  <1> DEFINE r == Append(q, m)
  <1>1. PICK n \in Nat : n = Len(q)
    BY LenProperties
  <1>2. Len(r) = n + 1 /\ (\A i \in 1..n : r[i] = q[i]) /\ r[n + 1] = m
    BY <1>1, AppendProperties
  <1> HIDE DEF r
  <1>3. 1..(n + 1) = (1..n) \cup {n + 1} /\ n + 1 \notin 1..n
    OBVIOUS
  <1>4. IsFiniteSet(Orders(q)) /\ n + 1 \notin Orders(q)
    BY <1>1, <1>3, ForcedType
  <1>5. CASE m = "forceRestart"
    <2>1. Orders(r) = Orders(q) \cup {n + 1}
      BY <1>1, <1>2, <1>3, <1>5 DEF Orders
    <2>2. Cardinality(Orders(q) \cup {n + 1}) = Cardinality(Orders(q)) + 1
      BY <1>4, FS_AddElement
    <2> QED BY <1>5, <2>1, <2>2 DEF Forced, r
  <1>6. CASE m # "forceRestart"
    <2>1. Orders(r) = Orders(q)
      BY <1>1, <1>2, <1>3, <1>6 DEF Orders
    <2> QED BY <1>6, <2>1 DEF Forced, r
  <1> QED BY <1>5, <1>6

\* A message taken out takes one away if it is one.
LEMMA ForcedTail ==
  ASSUME NEW q \in Seq(Messages), q # <<>>
  PROVE  Forced(q) = IF Head(q) = "forceRestart" THEN Forced(Tail(q)) + 1 ELSE Forced(Tail(q))
  <1> DEFINE r == Tail(q)
             X == Orders(q) \ {1}
             f == [i \in Orders(r) |-> i + 1]
  <1>1. PICK n \in Nat : n + 1 = Len(q)
    <2>1. Len(q) \in Nat /\ Len(q) # 0
      BY LenProperties, EmptySeq
    <2>2. Len(q) - 1 \in Nat /\ (Len(q) - 1) + 1 = Len(q)
      BY <2>1
    <2> QED BY <2>2
  <1>2. Len(r) = n /\ (\A i \in 1..n : r[i] = q[i + 1]) /\ Head(q) = q[1] /\ r \in Seq(Messages)
    <2>1. Len(r) = Len(q) - 1 /\ (\A i \in 1..Len(r) : r[i] = q[i + 1]) /\ r \in Seq(Messages)
      BY HeadTailProperties
    <2> QED BY <1>1, <2>1
  <1> HIDE DEF r
  <1>3. Orders(r) \subseteq 1..n /\ IsFiniteSet(Orders(r)) /\ IsFiniteSet(Orders(q))
    BY <1>2, ForcedType
  <1>4. f \in Bijection(Orders(r), X)
    <2>1. \A i \in Orders(r) : i + 1 \in X
      BY <1>1, <1>2, <1>3 DEF Orders
    <2>2. \A j \in X : j - 1 \in Orders(r) /\ (j - 1) + 1 = j
      <3> SUFFICES ASSUME NEW j \in X PROVE j - 1 \in Orders(r) /\ (j - 1) + 1 = j
        OBVIOUS
      <3>1. j \in 1..(n + 1) /\ j # 1 /\ q[j] = "forceRestart"
        BY <1>1 DEF Orders
      <3>2. j - 1 \in 1..n /\ (j - 1) + 1 = j
        BY <3>1
      <3> QED BY <1>2, <3>1, <3>2 DEF Orders
    <2>3. \A i, j \in Orders(r) : i + 1 = j + 1 => i = j
      BY <1>3
    <2> HIDE DEF X
    <2>4. f \in [Orders(r) -> X]
      BY <2>1
    <2>5. \A i, j \in Orders(r) : f[i] = f[j] => i = j
      BY <2>3
    <2>6. \A j \in X : \E i \in Orders(r) : f[i] = j
      BY <2>2
    <2> HIDE DEF f
    <2>7. f \in Injection(Orders(r), X) /\ f \in Surjection(Orders(r), X)
      BY <2>4, <2>5, <2>6 DEF Injection, IsInjective, Surjection
    <2> QED BY <2>7 DEF Bijection
  <1>5. IsFiniteSet(X) /\ Cardinality(X) = Forced(r)
    <2>1. X \in SUBSET Orders(q)
      OBVIOUS
    <2>2. IsFiniteSet(X)
      BY <1>3, <2>1, FS_Subset
    <2>3. ExistsBijection(Orders(r), X)
      BY <1>4 DEF ExistsBijection
    <2>4. Cardinality(Orders(r)) = Cardinality(X)
      BY <1>3, <2>3, FS_Bijection
    <2> QED BY <2>2, <2>4 DEF Forced
  <1>6. CASE Head(q) = "forceRestart"
    <2>1. 1 \in Orders(q)
      BY <1>1, <1>2, <1>6 DEF Orders
    <2>2. Orders(q) = X \cup {1} /\ 1 \notin X
      BY <2>1
    <2>3. Cardinality(X \cup {1}) = Cardinality(X) + 1
      BY <1>5, <2>2, FS_AddElement
    <2> QED BY <1>5, <1>6, <2>2, <2>3 DEF Forced, r
  <1>7. CASE Head(q) # "forceRestart"
    <2>1. 1 \notin Orders(q)
      BY <1>2, <1>7 DEF Orders
    <2>2. Orders(q) = X
      BY <2>1
    <2> QED BY <1>5, <1>7, <2>2 DEF Forced, r
  <1> QED BY <1>6, <1>7

-----------------------------------------------------------------------------
(* What a cell owes: the starts it has made, the one it is about to make, and *)
(* those that messages in its mailbox will make it make.                      *)

Pending(at) ==
  IF at \in {"none", "listed", "published", "starting", "restarting", "telling"} THEN 1 ELSE 0

Due(s) == s.starts + Pending(s.at) + Forced(s.box)

Over == {"none", "returning", "done"}

\* s owes no less than t, and nobody comes to restart or to tell its siblings
Calm(s, t) ==
  /\ t.name = s.name /\ t.todo = s.todo /\ t.children = s.children
  /\ Due(t) <= Due(s)
  /\ t.at \in {"none", "listed", "restarting", "telling"} => (s.at = t.at)
  /\ t.at \notin Over => (s.at \notin Over)

AllCalm(f, g) == \A d \in Cells : Calm(f[d], g[d])

\* the numbers a debt is made of
LEMMA DueIs ==
  ASSUME NEW s \in Cell
  PROVE  /\ s.starts \in Nat /\ Forced(s.box) \in Nat /\ Pending(s.at) \in 0..1
         /\ Due(s) \in Nat /\ s.box \in Seq(Messages)
  <1>1. s.starts \in Nat /\ s.box \in Seq(Messages)
    BY SystemAssumption DEF Cell
  <1>2. Forced(s.box) \in Nat
    BY <1>1, ForcedType
  <1>3. Pending(s.at) \in 0..1
    BY DEF Pending
  <1> QED BY <1>1, <1>2, <1>3 DEF Due

\* nothing happens
LEMMA CalmSelf ==
  ASSUME NEW s \in Cell
  PROVE  Calm(s, s)
  <1>1. Due(s) \in Nat
    BY DueIs
  <1>2. Due(s) <= Due(s)
    BY <1>1
  <1> QED BY <1>2 DEF Calm

\* one calm step after the other
LEMMA CalmTwice ==
  ASSUME NEW f, NEW g, NEW h, Fine(f), Fine(g), Fine(h), AllCalm(f, g), AllCalm(g, h)
  PROVE  AllCalm(f, h)
  <1> SUFFICES ASSUME NEW d \in Cells PROVE Calm(f[d], h[d])
    BY DEF AllCalm
  <1>1. f[d] \in Cell /\ g[d] \in Cell /\ h[d] \in Cell
    BY DEF Fine
  <1>2. Due(f[d]) \in Nat /\ Due(g[d]) \in Nat /\ Due(h[d]) \in Nat
    BY <1>1, DueIs
  <1>3. Calm(f[d], g[d]) /\ Calm(g[d], h[d])
    BY DEF AllCalm
  <1>4. Due(h[d]) <= Due(f[d])
    <2>1. Due(g[d]) <= Due(f[d]) /\ Due(h[d]) <= Due(g[d])
      BY <1>3 DEF Calm
    <2> QED BY <1>2, <2>1
  <1> QED BY <1>3, <1>4 DEF Calm

\* one cell takes a calm step
LEMMA OneCalm ==
  ASSUME NEW f, Fine(f), NEW c \in Cells, NEW r \in Cell, Calm(f[c], r),
         NEW g, g = [f EXCEPT ![c] = r]
  PROVE  AllCalm(f, g)
  <1>1. g[c] = r /\ \A d \in Cells : (d # c) => g[d] = f[d]
    BY DEF Fine
  <1>2. \A d \in Cells : Calm(f[d], f[d])
    BY CalmSelf DEF Fine
  <1> QED BY <1>1, <1>2 DEF AllCalm

\* What an enqueued message adds: a start if it is forceRestart, and else nothing.
LEMMA EnqueueAdds ==
  ASSUME NEW f, Fine(f), NEW d \in Cells, NEW m \in Messages
  PROVE  /\ m # "forceRestart" => AllCalm(f, Enqueue(f, d, m))
         /\ \A c \in Cells :
              /\ Enqueue(f, d, m)[c].starts = f[c].starts
              /\ Enqueue(f, d, m)[c].children = f[c].children
              /\ (c # d) => (Enqueue(f, d, m)[c] = f[c])
              /\ \/ Forced(Enqueue(f, d, m)[c].box) = Forced(f[c].box)
                 \/ c = d /\ Forced(Enqueue(f, d, m)[c].box) = Forced(f[c].box) + 1
  <1> DEFINE g == Enqueue(f, d, m)
             r == Put(f[d], m)
  <1>0. f \in [Cells -> Cell] /\ f[d] \in Cell
    BY DEF Fine
  <1>1. CASE ~f[d].closed /\ Len(f[d].box) < MailboxCap
    <2>1. g = [f EXCEPT ![d] = r]
      BY <1>1, Zenon DEF Enqueue, Put
    <2>2. r \in Cell /\ r.at = f[d].at /\ r.name = f[d].name /\ r.todo = f[d].todo
      BY <1>0, PutIs
    <2>3. r.starts = f[d].starts /\ r.children = f[d].children /\ r.box = Append(f[d].box, m)
      BY <1>0 DEF Put, Cell
    <2>4. Forced(r.box) = IF m = "forceRestart" THEN Forced(f[d].box) + 1 ELSE Forced(f[d].box)
      BY <1>0, <2>3, DueIs, ForcedAppend
    <2> HIDE DEF g, r
    <2>5. g[d] = r /\ \A c \in Cells : (c # d) => g[c] = f[c]
      BY <1>0, <2>1
    <2>6. ASSUME m # "forceRestart" PROVE AllCalm(f, g)
      <3>1. Due(r) = Due(f[d])
        BY <2>2, <2>3, <2>4, <2>6 DEF Due
      <3>2. Due(f[d]) \in Nat
        BY <1>0, DueIs
      <3>3. Due(r) <= Due(f[d])
        BY <3>1, <3>2
      <3>4. Calm(f[d], r)
        BY <2>2, <2>3, <3>3 DEF Calm
      <3> QED BY <2>1, <2>2, <3>4, OneCalm
    <2>7. ASSUME NEW c \in Cells
          PROVE  /\ g[c].starts = f[c].starts /\ g[c].children = f[c].children
                 /\ (c # d) => (g[c] = f[c])
                 /\ \/ Forced(g[c].box) = Forced(f[c].box)
                    \/ c = d /\ Forced(g[c].box) = Forced(f[c].box) + 1
      BY <2>3, <2>4, <2>5
    <2> QED BY <2>6, <2>7 DEF g
  <1>2. CASE ~(~f[d].closed /\ Len(f[d].box) < MailboxCap)
    <2>1. g = f
      BY <1>2 DEF Enqueue
    <2>2. AllCalm(f, f)
      BY <1>0, CalmSelf DEF AllCalm, Fine
    <2> QED BY <2>1, <2>2
  <1> QED BY <1>1, <1>2

\* A step to a place where no more starts are pending.
LEMMA MoveCalm ==
  ASSUME NEW f, Fine(f), NEW c \in Cells, NEW to \in Places,
         to \notin {"none", "listed", "restarting", "telling"},
         Pending(to) <= Pending(f[c].at), to \notin Over => (f[c].at \notin Over),
         NEW g, g = [f EXCEPT ![c] = Moved(f[c], to)]
  PROVE  AllCalm(f, g)
  <1> DEFINE r == Moved(f[c], to)
  <1>1. f[c] \in Cell
    BY DEF Fine
  <1>2. r \in Cell /\ r.at = to /\ r.name = f[c].name /\ r.box = f[c].box
    BY <1>1, MovedIs
  <1>3. r.todo = f[c].todo /\ r.children = f[c].children /\ r.starts = f[c].starts
    BY <1>1 DEF Moved, Cell
  <1> HIDE DEF r
  <1>4. Due(r) <= Due(f[c])
    <2>1. PICK p \in 0..1, q \in 0..1 : p = Pending(to) /\ q = Pending(f[c].at) /\ p <= q
      BY DEF Pending
    <2>2. PICK a \in Nat, b \in Nat : a = f[c].starts /\ b = Forced(f[c].box)
      BY <1>1, DueIs
    <2>3. Due(r) = a + p + b /\ Due(f[c]) = a + q + b
      BY <1>2, <1>3, <2>1, <2>2 DEF Due
    <2> QED BY <2>1, <2>2, <2>3
  <1>5. Calm(f[c], r)
    BY <1>2, <1>3, <1>4 DEF Calm
  <1> QED BY <1>2, <1>5, OneCalm DEF r

\* a message to anyone that forces nothing, and then such a step
LEMMA EnqueueMoveCalm ==
  ASSUME Fine(cell), NEW c \in Cells, NEW d \in Cells, NEW m \in Messages, m # "forceRestart",
         NEW to \in Places \ Hidden, cell[c].at \notin Hidden, ~cell[c].closed,
         to \notin {"restarting", "telling"},
         Pending(to) <= Pending(cell[c].at), to \notin Over => (cell[c].at \notin Over),
         NEW g, g = [Enqueue(cell, d, m) EXCEPT ![c].at = to]
  PROVE  AllCalm(cell, g)
  <1> DEFINE f == Enqueue(cell, d, m)
  <1>1. g = [f EXCEPT ![c] = Moved(f[c], to)]
    BY Zenon DEF Moved
  <1>2. Kept(cell, f) /\ AllCalm(cell, f) /\ f[c].at = cell[c].at
    BY EnqueueKeeps, EnqueueAdds
  <1>3. Kept(cell, g)
    BY EnqueueMoveKeeps
  <1> HIDE DEF f
  <1>4. Fine(f) /\ Fine(g)
    BY <1>2, <1>3 DEF Kept
  <1>5. AllCalm(f, g)
    BY <1>1, <1>2, <1>4, MoveCalm DEF Hidden
  <1> QED BY <1>2, <1>4, <1>5, CalmTwice

-----------------------------------------------------------------------------
(* The calm steps of an actor. *)

\* OnStart pays the start that was pending.
LEMMA StartCalm ==
  ASSUME Fine(cell), NEW c \in Cells, Start(c)
  PROVE  AllCalm(cell, cell')
  <1> DEFINE f == Enqueue(cell, c, "Started")
             r == Begun(f[c])
  <1>1. cell' = [f EXCEPT ![c] = r]
    BY Zenon DEF Start, Begun
  <1>2. Kept(cell, f) /\ AllCalm(cell, f) /\ f[c].at = cell[c].at /\ cell[c].at = "starting"
    BY EnqueueKeeps, EnqueueAdds DEF Messages, Start
  <1>3. Kept(cell, cell')
    BY StartKeeps
  <1> HIDE DEF f
  <1>4. Fine(f) /\ Fine(cell') /\ f[c] \in Cell
    BY <1>2, <1>3 DEF Kept, Fine
  <1>5. r \in Cell /\ r.at = "loop" /\ r.name = f[c].name
    BY <1>4, BegunIs
  <1>6. /\ r.box = f[c].box /\ r.todo = f[c].todo /\ r.children = f[c].children
        /\ r.starts = IF f[c].starts < MaxStarts THEN f[c].starts + 1 ELSE f[c].starts
    BY <1>4 DEF Begun, Cell
  <1> HIDE DEF r
  <1>7. Due(r) <= Due(f[c])
    <2>1. PICK a \in Nat, b \in Nat, z \in Nat : a = f[c].starts /\ b = Forced(f[c].box) /\ z = r.starts
      BY <1>4, <1>5, DueIs
    <2>2. z <= a + 1
      BY <1>6, <2>1
    <2>3. Pending("loop") = 0 /\ Pending("starting") = 1
      BY DEF Pending
    <2>4. Due(r) = z + 0 + b /\ Due(f[c]) = a + 1 + b
      BY <1>2, <1>5, <1>6, <2>1, <2>3 DEF Due
    <2> QED BY <2>1, <2>2, <2>4
  <1>8. Calm(f[c], r)
    BY <1>2, <1>5, <1>6, <1>7 DEF Calm, Over
  <1>9. AllCalm(f, cell')
    BY <1>1, <1>4, <1>5, <1>8, OneCalm
  <1> QED BY <1>2, <1>4, <1>9, CalmTwice

\* A message taken out of the mailbox makes nobody owe more: forceRestart turns
\* into a pending start.
LEMMA TakeCalm ==
  ASSUME Fine(cell), NEW c \in Cells, NEW to \in {"starting", "loop", "failed", "draining"},
         cell[c].at \in {"loop", "draining"}, cell[c].box # <<>>,
         to = "starting" => (Head(cell[c].box) = "forceRestart"),
         cell' = Takes(c, to)
  PROVE  AllCalm(cell, cell')
  <1> DEFINE s == cell[c]
             r == Taken(s, to)
  <1>1. cell' = [cell EXCEPT ![c] = r]
    BY Zenon DEF Takes, Taken
  <1>2. s \in Cell /\ s.box \in Seq(Messages)
    BY DEF Fine, Cell
  <1>3. r \in Cell /\ r.at = to /\ r.name = s.name
    BY <1>2, TakenIs DEF Places
  <1>4. r.box = Tail(s.box) /\ r.todo = s.todo /\ r.children = s.children /\ r.starts = s.starts
    BY <1>2 DEF Taken, Cell
  <1> HIDE DEF r
  <1>5. Due(r) <= Due(s)
    <2>1. PICK a \in Nat, b \in Nat, z \in Nat : a = s.starts /\ b = Forced(s.box) /\ z = Forced(r.box)
      BY <1>2, <1>3, DueIs
    <2>2. b = IF Head(s.box) = "forceRestart" THEN z + 1 ELSE z
      BY <1>2, <1>4, <2>1, ForcedTail
    <2>3. Pending(s.at) = 0 /\ Pending(to) = IF to = "starting" THEN 1 ELSE 0
      BY DEF Pending
    <2>4. Due(r) = a + Pending(to) + z /\ Due(s) = a + Pending(s.at) + b
      BY <1>3, <1>4, <2>1 DEF Due
    <2>5. CASE to = "starting"
      <3>1. b = z + 1 /\ Pending(to) = 1
        BY <2>2, <2>3, <2>5
      <3> QED BY <2>1, <2>3, <2>4, <3>1
    <2>6. CASE to # "starting"
      <3>1. Pending(to) = 0 /\ z <= b
        BY <2>1, <2>2, <2>3, <2>6
      <3> QED BY <2>1, <2>3, <2>4, <3>1
    <2> QED BY <2>5, <2>6
  <1>6. Calm(s, r)
    BY <1>3, <1>4, <1>5 DEF Calm, Over
  <1> QED BY <1>1, <1>3, <1>6, OneCalm

\* the parent is told, and the actor ends
LEMMA EscalatedCalm ==
  ASSUME Fine(cell), NEW c \in Cells, cell[c].at = "failed"
  PROVE  AllCalm(cell, Escalated(c))
  <1>1. cell[c] \in Cell /\ Sound(cell[c]) /\ Pending("returning") <= Pending("failed")
    BY DEF Fine, Pending
  <1>2. ~cell[c].closed /\ cell[c].at \notin Hidden
    BY <1>1 DEF Sound, Ending, Hidden
  <1>3. CASE cell[c].parent = NoCell
    <2>1. Escalated(c) = [cell EXCEPT ![c] = Moved(cell[c], "returning")]
      BY <1>3, Zenon DEF Escalated, Moved
    <2> QED BY <1>1, <2>1, MoveCalm DEF Places, Over
  <1>4. CASE cell[c].parent # NoCell
    <2>1. Escalated(c) = [Enqueue(cell, cell[c].parent, "ActorFailed") EXCEPT ![c].at = "returning"]
      BY <1>4, Zenon DEF Escalated
    <2>2. cell[c].parent \in Cells
      BY <1>1, <1>4 DEF Cell
    <2> QED BY <1>1, <1>2, <2>1, <2>2, EnqueueMoveCalm DEF Hidden, Places, Messages, Over
  <1> QED BY <1>3, <1>4

\* stopCh is closed
LEMMA StopCalm ==
  ASSUME Fine(cell), NEW c \in Cells, cell' = [cell EXCEPT ![c].stop = TRUE]
  PROVE  AllCalm(cell, cell')
  <1> DEFINE r == Stopped(cell[c])
  <1>1. cell' = [cell EXCEPT ![c] = r]
    BY Zenon DEF Stopped
  <1>2. cell[c] \in Cell /\ Due(cell[c]) \in Nat
    BY DueIs DEF Fine
  <1>3. r \in Cell /\ r.at = cell[c].at /\ r.box = cell[c].box /\ r.name = cell[c].name
    BY <1>2, StoppedIs
  <1>4. r.todo = cell[c].todo /\ r.children = cell[c].children /\ r.starts = cell[c].starts
    BY <1>2 DEF Stopped, Cell
  <1> HIDE DEF r
  <1>5. Due(r) = Due(cell[c])
    BY <1>3, <1>4 DEF Due
  <1>6. Calm(cell[c], r)
    BY <1>2, <1>3, <1>4, <1>5 DEF Calm
  <1> QED BY <1>1, <1>3, <1>6, OneCalm

\* the mailbox is closed
LEMMA CloseBoxCalm ==
  ASSUME Fine(cell), NEW c \in Cells, CloseBox(c)
  PROVE  AllCalm(cell, cell')
  <1> DEFINE r == Shut(cell[c])
  <1>1. cell' = [cell EXCEPT ![c] = r]
    BY Zenon DEF CloseBox, Shut
  <1>2. cell[c] \in Cell /\ Due(cell[c]) \in Nat /\ cell[c].at = "closing"
    BY DueIs DEF Fine, CloseBox
  <1>3. r \in Cell /\ r.at = "draining" /\ r.name = cell[c].name
    BY <1>2, ShutIs
  <1>4. /\ r.todo = cell[c].todo /\ r.children = cell[c].children /\ r.starts = cell[c].starts
        /\ r.box = cell[c].box
    BY <1>2 DEF Shut, Cell
  <1> HIDE DEF r
  <1>5. Due(r) = Due(cell[c])
    <2>1. Pending("draining") = Pending("closing")
      BY DEF Pending
    <2> QED BY <1>2, <1>3, <1>4, <2>1 DEF Due
  <1>6. Calm(cell[c], r)
    BY <1>2, <1>3, <1>4, <1>5 DEF Calm, Over
  <1> QED BY <1>1, <1>3, <1>6, OneCalm

\* the steps that are calm, whoever takes them
CalmStep(c) ==
  \/ SpawnPublish(c) \/ SpawnGo(c) \/ Start(c) \/ TakeMessage(c) \/ DieUnsupervised(c)
  \/ TellSibling(c) /\ cell[c].todo = <<>>
  \/ TakeStop(c) \/ CloseBox(c) \/ Drain(c) \/ OnStop(c) \/ Return(c) \/ Tell(c)
  \/ ShutdownStop(c)

\* They are.
LEMMA CalmSteps ==
  ASSUME Fine(cell), NEW c \in Cells, CalmStep(c)
  PROVE  AllCalm(cell, cell')
  <1>0. Sound(cell[c]) /\ cell[c] \in Cell
    BY DEF Fine
  <1>1. ASSUME NEW from \in Places, NEW to \in Places, Goes(c, from, to),
               Pending(to) <= Pending(from), to \notin Over => (from \notin Over),
               to \notin {"none", "listed", "restarting", "telling"}
        PROVE  AllCalm(cell, cell')
    <2>1. cell' = [cell EXCEPT ![c] = Moved(cell[c], to)] /\ cell[c].at = from
      BY <1>1, Zenon DEF Goes, Moved
    <2> QED BY <1>1, <2>1, MoveCalm
  <1>2. CASE SpawnPublish(c)
    <2>1. Goes(c, "listed", "published") /\ Pending("published") <= Pending("listed")
      BY <1>2 DEF SpawnPublish, Pending
    <2> QED BY <1>1, <2>1 DEF Places, Over
  <1>3. CASE SpawnGo(c)
    <2>1. Goes(c, "published", "starting") /\ Pending("starting") <= Pending("published")
      BY <1>3 DEF SpawnGo, Pending
    <2> QED BY <1>1, <2>1 DEF Places, Over
  <1>4. CASE Start(c)
    BY <1>4, StartCalm
  <1>5. CASE TakeMessage(c)
    <2>1. cell[c].at = "loop" /\ cell[c].box # <<>>
      BY <1>5 DEF TakeMessage
    <2>2. PICK to \in {"starting", "loop", "failed"} :
            cell' = Takes(c, to) /\ (to = "starting" => (Head(cell[c].box) = "forceRestart"))
      BY <1>5, Zenon DEF TakeMessage
    <2> QED BY <2>1, <2>2, TakeCalm
  <1>6. CASE DieUnsupervised(c)
    <2>1. Goes(c, "failed", "returning") /\ Pending("returning") <= Pending("failed")
      BY <1>6 DEF DieUnsupervised, Pending
    <2> QED BY <1>1, <2>1 DEF Places, Over
  <1>7. CASE TellSibling(c) /\ cell[c].todo = <<>>
    <2>1. Goes(c, "telling", "starting") /\ Pending("starting") <= Pending("telling")
      BY <1>7 DEF TellSibling, Pending, Goes
    <2> QED BY <1>1, <2>1 DEF Places, Over
  <1>8. CASE TakeStop(c)
    <2>1. cell' = [Enqueue(cell, c, "Stopping") EXCEPT ![c].at = "closing"] /\ cell[c].at = "loop"
      BY <1>8 DEF TakeStop
    <2>2. ~cell[c].closed /\ Pending("closing") <= Pending("loop")
      BY <1>0, <2>1 DEF Sound, Ending, Pending
    <2> QED BY <2>1, <2>2, EnqueueMoveCalm DEF Places, Over, Hidden, Messages
  <1>9. CASE CloseBox(c)
    BY <1>9, CloseBoxCalm
  <1>10. CASE Drain(c)
    <2>1. cell[c].at = "draining" /\ cell[c].box # <<>> /\ cell' = Takes(c, "draining")
      BY <1>10 DEF Drain
    <2> QED BY <2>1, TakeCalm
  <1>11. CASE OnStop(c)
    <2>1. Goes(c, "draining", "returning") /\ Pending("returning") <= Pending("draining")
      BY <1>11 DEF OnStop, Pending
    <2> QED BY <1>1, <2>1 DEF Places, Over
  <1>12. CASE Return(c)
    <2>1. Goes(c, "returning", "done") /\ Pending("done") <= Pending("returning")
      BY <1>12 DEF Return, Pending
    <2> QED BY <1>1, <2>1 DEF Places, Over
  <1>13. CASE Tell(c)
    <2>1. cell' = Enqueue(cell, c, "user")
      BY <1>13 DEF Tell
    <2> QED BY <2>1, EnqueueAdds DEF Messages
  <1>14. CASE ShutdownStop(c)
    <2>1. cell' = [cell EXCEPT ![c].stop = TRUE]
      BY <1>14 DEF ShutdownStop
    <2> QED BY <2>1, StopCalm
  <1> QED BY <1>2, <1>3, <1>4, <1>5, <1>6, <1>7, <1>8, <1>9, <1>10, <1>11, <1>12, <1>13, <1>14
          DEF CalmStep

\* what the siblings have ordered is finite
LEMMA OrdersOfSiblings ==
  ASSUME NEW q \in SUBSET (Cells \X (1..MaxRestarts))
  PROVE  IsFiniteSet(q) /\ Cardinality(q) \in Nat
  <1> DEFINE S == 1..MaxRestarts
  <1>1. IsFiniteSet(Cells) /\ IsFiniteSet(S)
    BY FS_Interval, SystemAssumption DEF Cells
  <1> HIDE DEF S
  <1>2. IsFiniteSet(Cells \X S)
    BY <1>1, FS_Product
  <1> DEFINE P == Cells \X S
  <1>3. q \in SUBSET P
    BY DEF S
  <1> HIDE DEF P
  <1>4. IsFiniteSet(q)
    BY <1>2, <1>3, FS_Subset DEF P
  <1> QED BY <1>4, FS_CardinalityType

-----------------------------------------------------------------------------
(* Families: who is in whose lists. *)

ChildrenIn(f, d) ==
  /\ NoRepeat(f[d].children)
  /\ \A e \in Cells : In(f[d].children, e) =>
       (f[e].at # "none" /\ ParentOf[f[e].name] = f[d].name)

TodoIn(f, d) ==
  /\ NoRepeat(f[d].todo)
  /\ \A e \in Cells : In(f[d].todo, e) =>
       (f[e].at # "none" /\ ParentOf[f[e].name] = ParentOf[f[d].name])

\* A cell's parent has the parent's name; a child is once in a list of children,
\* and a sibling once in a list of those still to be told.
FamilyIn(f) ==
  \A d \in Cells : /\ f[d].parent # NoCell => (f[f[d].parent].name = ParentOf[f[d].name])
                   /\ ChildrenIn(f, d) /\ TodoIn(f, d)

\* g has the names, parents and lists of f, save for siblings told since
Standing(f, g) ==
  \A d \in Cells :
    /\ g[d].name = f[d].name /\ g[d].parent = f[d].parent /\ g[d].children = f[d].children
    /\ f[d].at # "none" => (g[d].at # "none")
    /\ NoRepeat(f[d].todo) => NoRepeat(g[d].todo)
    /\ \A x : In(g[d].todo, x) => In(f[d].todo, x)

\* Then it has its families.
LEMMA FamilyKept ==
  ASSUME NEW f, NEW g, Fine(f), FamilyIn(f), Standing(f, g)
  PROVE  FamilyIn(g)
  <1> SUFFICES ASSUME NEW d \in Cells
               PROVE  /\ g[d].parent # NoCell => (g[g[d].parent].name = ParentOf[g[d].name])
                      /\ ChildrenIn(g, d) /\ TodoIn(g, d)
    BY DEF FamilyIn
  <1>1. /\ g[d].name = f[d].name /\ g[d].parent = f[d].parent /\ g[d].children = f[d].children
        /\ NoRepeat(f[d].todo) => NoRepeat(g[d].todo)
        /\ \A x : In(g[d].todo, x) => In(f[d].todo, x)
    BY DEF Standing
  <1>2. \A e \in Cells : g[e].name = f[e].name /\ (f[e].at # "none" => (g[e].at # "none"))
    BY DEF Standing
  <1>3. g[d].parent # NoCell => (g[g[d].parent].name = ParentOf[g[d].name])
    <2>1. f[d].parent # NoCell => (f[d].parent \in Cells /\ f[f[d].parent].name = ParentOf[f[d].name])
      BY DEF Fine, Cell, FamilyIn
    <2> QED BY <1>1, <1>2, <2>1
  <1>4. ChildrenIn(g, d)
    <2>1. ChildrenIn(f, d)
      BY DEF FamilyIn
    <2> QED BY <1>1, <1>2, <2>1, Zenon DEF ChildrenIn
  <1>5. TodoIn(g, d)
    <2>1. TodoIn(f, d)
      BY DEF FamilyIn
    <2> QED BY <1>1, <1>2, <2>1, Zenon DEF TodoIn
  <1> QED BY <1>3, <1>4, <1>5

\* A step that is calm and ends and publishes nobody.
LEMMA KeptStands ==
  ASSUME NEW f, NEW g, Kept(f, g), AllCalm(f, g)
  PROVE  Standing(f, g)
  <1> SUFFICES ASSUME NEW d \in Cells
               PROVE  /\ g[d].name = f[d].name /\ g[d].parent = f[d].parent
                      /\ g[d].children = f[d].children /\ g[d].todo = f[d].todo
                      /\ f[d].at # "none" => (g[d].at # "none")
    BY DEF Standing
  <1> QED BY DEF Kept, Same, AllCalm, Calm, Hidden

\* A cell goes on, to any place.
LEMMA MovedStands ==
  ASSUME NEW f, Fine(f), NEW c \in Cells, NEW to \in Places, to # "none",
         NEW g, g = [f EXCEPT ![c] = Moved(f[c], to)]
  PROVE  Standing(f, g)
  <1> DEFINE r == Moved(f[c], to)
  <1>1. f[c] \in Cell
    BY DEF Fine
  <1>2. /\ r.name = f[c].name /\ r.parent = f[c].parent /\ r.at = to
        /\ r.children = f[c].children /\ r.todo = f[c].todo
    BY <1>1 DEF Moved, Cell
  <1> HIDE DEF r
  <1>3. g[c] = r /\ \A d \in Cells : d # c => (g[d] = f[d])
    BY DEF Fine, r
  <1> QED BY <1>2, <1>3 DEF Standing

-----------------------------------------------------------------------------
(* The accounts: h[c] restarts are the actor's own, and o[c] are those of its *)
(* siblings that told it to restart, each as the sibling and its number.      *)

CountsIn(f, r, h, o) ==
  /\ h \in [Cells -> 0..MaxRestarts]
  /\ o \in [Cells -> SUBSET (Cells \X (1..MaxRestarts))]
  /\ \A c \in Cells :
       /\ f[c].at \in {"none", "listed"} => (h[c] = 0)
       /\ f[c].at = "none" => (o[c] = {})
       /\ f[c].at \notin Over => (h[c] <= r[f[c].name])
       /\ f[c].at \in {"restarting", "telling"} => (h[c] >= 1)
       /\ Due(f[c]) <= 1 + h[c] + Cardinality(o[c])
  /\ \A c, d \in Cells, k \in 1..MaxRestarts : <<d, k>> \in o[c] =>
       /\ ParentOf[f[d].name] = ParentOf[f[c].name] /\ k <= h[d]
       /\ k = h[d] => (f[d].at # "restarting" /\ ~(f[d].at = "telling" /\ In(f[d].todo, c)))

\* A calm step needs no new accounts.
LEMMA CountsCalm ==
  ASSUME NEW f, NEW g, NEW r, NEW h, NEW o, Fine(f), Fine(g), AllCalm(f, g), CountsIn(f, r, h, o)
  PROVE  CountsIn(g, r, h, o)
  <1>1. \A c \in Cells : Calm(f[c], g[c])
    BY DEF AllCalm
  <1>2. ASSUME NEW c \in Cells
        PROVE  /\ g[c].at \in {"none", "listed"} => (h[c] = 0)
               /\ g[c].at = "none" => (o[c] = {})
               /\ g[c].at \notin Over => (h[c] <= r[g[c].name])
               /\ g[c].at \in {"restarting", "telling"} => (h[c] >= 1)
    BY <1>1 DEF Calm, CountsIn
  <1>3. ASSUME NEW c \in Cells
        PROVE  Due(g[c]) <= 1 + h[c] + Cardinality(o[c])
    <2>1. Due(g[c]) <= Due(f[c]) /\ Due(f[c]) <= 1 + h[c] + Cardinality(o[c])
      BY <1>1 DEF Calm, CountsIn
    <2>2. Due(g[c]) \in Nat /\ Due(f[c]) \in Nat /\ h[c] \in Nat
      BY DueIs DEF Fine, CountsIn
    <2>3. Cardinality(o[c]) \in Nat
      BY OrdersOfSiblings DEF CountsIn
    <2> QED BY <2>1, <2>2, <2>3
  <1>4. ASSUME NEW c \in Cells, NEW d \in Cells, NEW k \in 1..MaxRestarts, <<d, k>> \in o[c]
        PROVE  /\ ParentOf[g[d].name] = ParentOf[g[c].name] /\ k <= h[d]
               /\ k = h[d] => (g[d].at # "restarting" /\ ~(g[d].at = "telling" /\ In(g[d].todo, c)))
    <2>1. /\ ParentOf[f[d].name] = ParentOf[f[c].name] /\ k <= h[d]
          /\ k = h[d] => (f[d].at # "restarting" /\ ~(f[d].at = "telling" /\ In(f[d].todo, c)))
      BY <1>4 DEF CountsIn
    <2>2. /\ g[c].name = f[c].name /\ g[d].name = f[d].name /\ g[d].todo = f[d].todo
          /\ g[d].at \in {"restarting", "telling"} => (f[d].at = g[d].at)
      BY <1>1 DEF Calm
    <2> QED BY <2>1, <2>2
  <1>5. h \in [Cells -> 0..MaxRestarts] /\ o \in [Cells -> SUBSET (Cells \X (1..MaxRestarts))]
    BY DEF CountsIn
  <1> QED BY <1>2, <1>3, <1>4, <1>5, Zenon DEF CountsIn

\* The tracker's record changes, and nobody has restarted more often than it says.
LEMMA CountsTracker ==
  ASSUME NEW f, NEW r, NEW h, NEW o, CountsIn(f, r, h, o), NEW s,
         \A c \in Cells : f[c].at \notin Over => (h[c] <= s[f[c].name])
  PROVE  CountsIn(f, s, h, o)
  BY Zenon DEF CountsIn

-----------------------------------------------------------------------------
(* The steps that are not calm: a restart, the copy of the siblings' list, a  *)
(* sibling told, a spawn.                                                     *)

\* where the restart of a failed actor leads
Restarted(c) == [Enqueue(cell, c, "Restarting") EXCEPT ![c].at = "restarting"]

\* The message and the move of a restart, one after the other.
LEMMA RestartedIs ==
  ASSUME Fine(cell), NEW c \in Cells, cell[c].at = "failed"
  PROVE  \E f : /\ Kept(cell, f) /\ AllCalm(cell, f) /\ f[c].at = "failed"
                /\ Restarted(c) = [f EXCEPT ![c] = Moved(f[c], "restarting")]
  <1> DEFINE f == Enqueue(cell, c, "Restarting")
  <1>1. Kept(cell, f) /\ AllCalm(cell, f) /\ f[c].at = "failed"
    BY EnqueueKeeps, EnqueueAdds DEF Messages
  <1>2. Restarted(c) = [f EXCEPT ![c] = Moved(f[c], "restarting")]
    BY Zenon DEF Restarted, Moved
  <1> QED BY <1>1, <1>2

\* What becomes of a failed actor: a restart, or something calm.
LEMMA SuperviseCases ==
  ASSUME Fine(cell), NEW c \in Cells, Supervise(c)
  PROVE  \/ AllCalm(cell, cell') /\ UNCHANGED restarts
         \/ /\ AllCalm(cell, cell') /\ cell'[c].at = "returning"
            /\ restarts' = [restarts EXCEPT ![cell[c].name] = 0]
         \/ /\ cell' = Restarted(c)
            /\ \E k \in Recorded(cell[c].name) :
                 ~TooMany(k) /\ restarts' = [restarts EXCEPT ![cell[c].name] = k]
  <1>1. cell[c].at = "failed" /\ cell[c] \in Cell /\ Pending("failed") = 0
    BY DEF Supervise, Fine, Pending
  <1>2. ASSUME NEW to \in {"loop", "returning"}, cell' = [cell EXCEPT ![c].at = to]
        PROVE  AllCalm(cell, cell')
    <2>1. cell' = [cell EXCEPT ![c] = Moved(cell[c], to)]
      BY <1>2, Zenon DEF Moved
    <2>2. Pending(to) <= Pending(cell[c].at) /\ to \in Places
      BY <1>1 DEF Pending, Places
    <2> QED BY <1>1, <2>1, <2>2, MoveCalm DEF Over
  <1>3. AllCalm(cell, Escalated(c)) /\ Escalated(c)[c].at = "returning"
    <2>1. AllCalm(cell, Escalated(c))
      BY <1>1, EscalatedCalm
    <2> DEFINE f == IF cell[c].parent = NoCell THEN cell ELSE Enqueue(cell, cell[c].parent, "ActorFailed")
    <2>2. Escalated(c) = [f EXCEPT ![c] = Moved(f[c], "returning")]
      BY Zenon DEF Escalated, Moved
    <2>3. Fine(f)
      <3>1. cell[c].parent # NoCell => (cell[c].parent \in Cells)
        BY <1>1 DEF Cell
      <3> QED BY <3>1, EnqueueKeeps DEF Kept, Messages
    <2> HIDE DEF f
    <2>4. f[c] \in Cell
      BY <2>3 DEF Fine
    <2>5. Moved(f[c], "returning").at = "returning"
      BY <2>4, MovedIs DEF Places
    <2>6. Escalated(c)[c] = Moved(f[c], "returning")
      BY <2>2, <2>3 DEF Fine
    <2> QED BY <2>1, <2>5, <2>6
  <1>4. CASE Answer(c) /\ UNCHANGED restarts
    BY <1>2, <1>3, <1>4 DEF Answer
  <1>5. CASE AnswerRestart(c)
    <2>1. PICK k \in Recorded(cell[c].name) :
            \/ /\ TooMany(k) /\ restarts' = [restarts EXCEPT ![cell[c].name] = 0]
               /\ cell' = Escalated(c)
            \/ /\ ~TooMany(k) /\ restarts' = [restarts EXCEPT ![cell[c].name] = k]
               /\ cell' = Restarted(c)
      BY <1>5 DEF AnswerRestart, Restarted
    <2> QED BY <1>3, <2>1
  <1> QED BY <1>4, <1>5 DEF Supervise

FamilyInv == FamilyIn(cell)

\* The list that restartChildren copies is that of a cell of the parent's name.
LEMMA SiblingsOf ==
  ASSUME SystemInv, FamilyInv, NEW c \in Cells
  PROVE  \/ Siblings(c) = <<>>
         \/ \E q \in Cells : Siblings(c) = cell[q].children /\ cell[q].name = ParentOf[cell[c].name]
  <1> DEFINE p == cell[c].parent
             q == registry[cell[p].name]
  <1>1. CASE OneForAll /\ p # NoCell /\ q # NoCell
    <2>1. cell[c] \in Cell
      BY DEF SystemInv, Fine
    <2>2. p \in Cells
      BY <1>1, <2>1 DEF Cell
    <2>3. cell[p].name \in Names
      BY <1>1, <2>2, Zenon DEF SystemInv, Fine, Sound, Parented
    <2>4. cell[p].name = ParentOf[cell[c].name]
      BY <1>1 DEF FamilyInv, FamilyIn
    <2>5. q \in Cells /\ cell[q].name = cell[p].name
      BY <1>1, <2>3 DEF SystemInv, RegistryType, LookupFindsTheLiving
    <2>6. Siblings(c) = cell[q].children
      BY <1>1 DEF Siblings
    <2> QED BY <2>4, <2>5, <2>6
  <1>2. CASE ~(OneForAll /\ p # NoCell /\ q # NoCell)
    BY <1>2 DEF Siblings
  <1> QED BY <1>1, <1>2

\* What CopySiblings does to the cells.
LEMMA CopiedCells ==
  ASSUME SystemInv, NEW c \in Cells, CopySiblings(c)
  PROVE  /\ \A d \in Cells : d # c => (cell'[d] = cell[d])
         /\ cell'[c] \in Cell /\ cell'[c].at = "telling" /\ cell'[c].todo = Siblings(c)
         /\ cell[c].at = "restarting"
         /\ cell'[c].name = cell[c].name /\ cell'[c].parent = cell[c].parent
         /\ cell'[c].children = cell[c].children /\ cell'[c].box = cell[c].box
         /\ cell'[c].starts = cell[c].starts
  <1> DEFINE r == Copied(cell[c], Siblings(c))
  <1>1. cell' = [cell EXCEPT ![c] = r] /\ cell[c].at = "restarting"
    BY Zenon DEF CopySiblings, Copied
  <1>2. cell[c] \in Cell /\ Siblings(c) \in Seq(Cells) /\ cell \in [Cells -> Cell]
    BY SiblingsAre DEF SystemInv, Fine, RegistryType
  <1>3. r \in Cell /\ r.at = "telling" /\ r.name = cell[c].name /\ r.parent = cell[c].parent
    BY <1>2, CopiedIs
  <1>4. /\ r.todo = Siblings(c) /\ r.children = cell[c].children /\ r.box = cell[c].box
        /\ r.starts = cell[c].starts
    BY <1>2 DEF Copied, Cell
  <1> HIDE DEF r
  <1>5. cell'[c] = r /\ \A d \in Cells : d # c => (cell'[d] = cell[d])
    BY <1>1, <1>2
  <1> QED BY <1>1, <1>3, <1>4, <1>5

\* The siblings copied are of the failed actor's family.
LEMMA CopyFamily ==
  ASSUME SystemInv, FamilyInv, NEW c \in Cells, CopySiblings(c)
  PROVE  FamilyInv'
  <1>1. /\ \A d \in Cells : d # c => (cell'[d] = cell[d])
        /\ cell'[c].todo = Siblings(c) /\ cell'[c].at = "telling"
        /\ cell'[c].name = cell[c].name /\ cell'[c].parent = cell[c].parent
        /\ cell'[c].children = cell[c].children
    BY CopiedCells
  <1>2. \A d \in Cells : /\ cell'[d].name = cell[d].name /\ cell'[d].parent = cell[d].parent
                         /\ cell'[d].children = cell[d].children
                         /\ cell[d].at # "none" => (cell'[d].at # "none")
    BY <1>1
  <1> SUFFICES ASSUME NEW d \in Cells
               PROVE  /\ cell'[d].parent # NoCell => (cell'[cell'[d].parent].name = ParentOf[cell'[d].name])
                      /\ ChildrenIn(cell', d) /\ TodoIn(cell', d)
    BY DEF FamilyInv, FamilyIn
  <1>3. cell'[d].parent # NoCell => (cell'[cell'[d].parent].name = ParentOf[cell'[d].name])
    <2>1. cell[d].parent # NoCell =>
            (cell[d].parent \in Cells /\ cell[cell[d].parent].name = ParentOf[cell[d].name])
      BY DEF SystemInv, Fine, Cell, FamilyInv, FamilyIn
    <2> QED BY <1>2, <2>1
  <1>4. ChildrenIn(cell', d)
    <2>1. ChildrenIn(cell, d)
      BY DEF FamilyInv, FamilyIn
    <2> QED BY <1>2, <2>1, Zenon DEF ChildrenIn
  <1>5. TodoIn(cell', d)
    <2>1. CASE d # c
      <3>1. TodoIn(cell, d) /\ cell'[d] = cell[d]
        BY <1>1, <2>1 DEF FamilyInv, FamilyIn
      <3> QED BY <1>2, <3>1, Zenon DEF TodoIn
    <2>2. CASE d = c /\ Siblings(c) = <<>>
      <3>1. NoRepeat(<<>>) /\ \A e : ~In(<<>>, e)
        BY DEF NoRepeat, In
      <3> QED BY <1>1, <2>2, <3>1 DEF TodoIn
    <2>3. ASSUME d = c, NEW q \in Cells, Siblings(c) = cell[q].children,
                 cell[q].name = ParentOf[cell[c].name]
          PROVE  TodoIn(cell', d)
      <3>1. ChildrenIn(cell, q)
        BY DEF FamilyInv, FamilyIn
      <3>2. NoRepeat(cell[q].children) /\ cell'[d].todo = cell[q].children
        BY <1>1, <2>3, <3>1 DEF ChildrenIn
      <3>3. ASSUME NEW e \in Cells, In(cell'[d].todo, e)
            PROVE  cell'[e].at # "none" /\ ParentOf[cell'[e].name] = ParentOf[cell'[d].name]
        <4>1. cell[e].at # "none" /\ ParentOf[cell[e].name] = cell[q].name
          BY <3>1, <3>2, <3>3 DEF ChildrenIn
        <4>2. cell'[e].name = cell[e].name /\ cell'[d].name = cell[c].name
          BY <1>2, <2>3
        <4> QED BY <1>2, <2>3, <4>1, <4>2
      <3> QED BY <3>2, <3>3 DEF TodoIn
    <2> QED BY <2>1, <2>2, <2>3, SiblingsOf
  <1> QED BY <1>3, <1>4, <1>5

\* What TellSibling does to the cells when there is a sibling left.
LEMMA ToldCells ==
  ASSUME SystemInv, NEW c \in Cells, TellSibling(c), cell[c].todo # <<>>
  PROVE  \E e \in Cells :
           /\ e = Head(cell[c].todo) /\ cell[c].at = "telling"
           /\ Kept(cell, cell')
           /\ \A d \in Cells :
                /\ cell'[d].at = cell[d].at /\ cell'[d].children = cell[d].children
                /\ cell'[d].starts = cell[d].starts
                /\ cell'[d].todo = IF d = c THEN Tail(cell[d].todo) ELSE cell[d].todo
                /\ \/ Forced(cell'[d].box) = Forced(cell[d].box)
                   \/ d = e /\ Forced(cell'[d].box) = Forced(cell[d].box) + 1
  <1> DEFINE e == Head(cell[c].todo)
             f == Enqueue(cell, e, "forceRestart")
             r == Told(f[c])
  <1>0. Fine(cell)
    BY DEF SystemInv
  <1>1. cell[c] \in Cell /\ cell[c].at = "telling"
    BY <1>0 DEF Fine, TellSibling
  <1>2. cell' = [f EXCEPT ![c] = r]
    BY Zenon DEF TellSibling, Told
  <1>3. cell[c].todo \in Seq(Cells)
    BY <1>1 DEF Cell
  <1>4. e \in Cells
    BY <1>3, Shorter
  <1>5. Kept(cell, cell')
    BY <1>0, TellSiblingKeeps
  <1>6. Kept(cell, f) /\ \A d \in Cells :
          /\ f[d].at = cell[d].at /\ f[d].todo = cell[d].todo
          /\ f[d].starts = cell[d].starts /\ f[d].children = cell[d].children
          /\ \/ Forced(f[d].box) = Forced(cell[d].box)
             \/ d = e /\ Forced(f[d].box) = Forced(cell[d].box) + 1
    <2>1. "forceRestart" \in Messages
      BY DEF Messages
    <2> HIDE DEF e
    <2> QED BY <1>0, <1>4, <2>1, EnqueueKeeps, EnqueueAdds
  <1> HIDE DEF f, e
  <1>7. f \in [Cells -> Cell] /\ f[c] \in Cell
    BY <1>6 DEF Kept, Fine
  <1>8. /\ r.at = f[c].at /\ r.children = f[c].children /\ r.starts = f[c].starts
        /\ r.box = f[c].box /\ r.todo = Tail(f[c].todo)
    BY <1>7 DEF Told, Cell
  <1> HIDE DEF r
  <1>9. cell'[c] = r /\ \A d \in Cells : d # c => (cell'[d] = f[d])
    BY <1>2, <1>7
  <1>10. ASSUME NEW d \in Cells
         PROVE  /\ cell'[d].at = cell[d].at /\ cell'[d].children = cell[d].children
                /\ cell'[d].starts = cell[d].starts
                /\ cell'[d].todo = IF d = c THEN Tail(cell[d].todo) ELSE cell[d].todo
                /\ \/ Forced(cell'[d].box) = Forced(cell[d].box)
                   \/ d = e /\ Forced(cell'[d].box) = Forced(cell[d].box) + 1
    <2>1. CASE d = c
      BY <1>6, <1>8, <1>9, <2>1
    <2>2. CASE d # c
      BY <1>6, <1>9, <2>2
    <2> QED BY <2>1, <2>2
  <1> QED BY <1>1, <1>4, <1>5, <1>10 DEF e

\* Telling a sibling keeps the families.
LEMMA TellFamily ==
  ASSUME SystemInv, FamilyInv, NEW c \in Cells, TellSibling(c), cell[c].todo # <<>>
  PROVE  FamilyInv'
  <1>1. PICK e \in Cells :
             /\ Kept(cell, cell')
             /\ \A d \in Cells :
                  /\ cell'[d].at = cell[d].at /\ cell'[d].children = cell[d].children
                  /\ cell'[d].todo = IF d = c THEN Tail(cell[d].todo) ELSE cell[d].todo
    BY ToldCells
  <1>2. ASSUME NEW d \in Cells
        PROVE  /\ NoRepeat(cell[d].todo) => NoRepeat(cell'[d].todo)
               /\ \A x : In(cell'[d].todo, x) => In(cell[d].todo, x)
    <2>1. CASE d = c
      <3>1. cell[c].todo \in Seq(Cells) /\ cell'[d].todo = Tail(cell[c].todo)
        BY <1>1, <2>1 DEF SystemInv, Fine, Cell
      <3> QED BY <2>1, <3>1, TailList
    <2>2. CASE d # c
      BY <1>1, <2>2
    <2> QED BY <2>1, <2>2
  <1>3. Standing(cell, cell')
    BY <1>1, <1>2 DEF Standing, Kept, Same
  <1> QED BY <1>3, FamilyKept DEF SystemInv, FamilyInv

\* What SpawnList does to the cells: a new one, in the list of the cell found
\* under its parent's name, if there is one.
LEMMA SpawnedCells ==
  ASSUME SystemInv, FamilyInv, NEW n \in Names, SpawnList(n)
  PROVE  \E c \in Cells, q \in Cells \cup {NoCell} :
           /\ c # q /\ cell[c].at = "none" /\ c \notin {cell[d].parent : d \in Cells}
           /\ cell'[c].name = n /\ cell'[c].at = "listed" /\ cell'[c].box = <<>>
           /\ cell'[c].starts = 0 /\ cell'[c].todo = <<>> /\ cell'[c].children = <<>>
           /\ cell'[c].parent # NoCell =>
                (cell'[c].parent \in Cells \ {c} /\ cell[cell'[c].parent].name = ParentOf[n])
           /\ q # NoCell => (cell[q].name = ParentOf[n])
           /\ \A d \in Cells : d # c =>
                /\ cell'[d].name = cell[d].name /\ cell'[d].parent = cell[d].parent
                /\ cell'[d].at = cell[d].at /\ cell'[d].todo = cell[d].todo
                /\ cell'[d].box = cell[d].box /\ cell'[d].starts = cell[d].starts
                /\ cell'[d].children = IF d = q THEN Append(cell[d].children, c) ELSE cell[d].children
  <1> DEFINE c == spawned + 1
  <1>1. c \in Cells
    BY DEF SpawnList
  <1>2. PICK p \in Parents(n) : cell' = [Listed(c, p) EXCEPT ![c] = NewCell(n, p)]
    BY DEF SpawnList
  <1>3. spawned \in Nat /\ Fine(cell) /\ cell \in [Cells -> Cell]
    BY SystemAssumption DEF SystemInv, Rest, Fine
  <1>4. cell[c].at = "none"
    BY <1>1, <1>3 DEF SystemInv, Newborn
  <1>5. p \in Cells \cup {NoCell} /\ (p # NoCell => (cell[p].at # "none" /\ cell[p].name = ParentOf[n]))
    BY <1>2 DEF Parents, Waited, Published
  <1> DEFINE q == IF p # NoCell /\ registry[cell[p].name] # NoCell
                  THEN registry[cell[p].name] ELSE NoCell
             r == NewCell(n, p)
  <1>6. q # NoCell => (q \in Cells /\ cell[q].name = ParentOf[n] /\ cell[q].at # "none")
    <2> SUFFICES ASSUME p # NoCell, registry[cell[p].name] # NoCell
                 PROVE  LET q1 == registry[cell[p].name] IN
                          q1 \in Cells /\ cell[q1].name = ParentOf[n] /\ cell[q1].at # "none"
      OBVIOUS
    <2>1. p \in Cells /\ cell[p].name \in Names
      BY <1>5, Zenon DEF SystemInv, Fine, Sound
    <2> QED BY <1>5, <2>1 DEF SystemInv, RegistryType, LookupFindsTheLiving, Published
  <1>7. Listed(c, p) = IF q # NoCell THEN [cell EXCEPT ![q] = Bore(cell[q], c)] ELSE cell
    <2>1. CASE p # NoCell /\ registry[cell[p].name] # NoCell
      BY <2>1, Zenon DEF Listed, Bore
    <2>2. CASE ~(p # NoCell /\ registry[cell[p].name] # NoCell)
      BY <2>2 DEF Listed
    <2> QED BY <2>1, <2>2
  <1> HIDE DEF c
  <1>8. /\ r.name = n /\ r.parent = p /\ r.at = "listed" /\ r.box = <<>> /\ r.starts = 0
        /\ r.todo = <<>> /\ r.children = <<>>
    BY DEF NewCell
  <1> HIDE DEF q, r
  <1>9. cell'[c] = r
    BY <1>1, <1>2, <1>3, <1>7 DEF r
  <1>10. ASSUME NEW d \in Cells, d # c
         PROVE  /\ cell'[d].name = cell[d].name /\ cell'[d].parent = cell[d].parent
                /\ cell'[d].at = cell[d].at /\ cell'[d].todo = cell[d].todo
                /\ cell'[d].box = cell[d].box /\ cell'[d].starts = cell[d].starts
                /\ cell'[d].children = IF d = q THEN Append(cell[d].children, c) ELSE cell[d].children
    <2>1. cell'[d] = Listed(c, p)[d]
      <3>1. Listed(c, p) \in [Cells -> Cell]
        BY <1>1, <1>3, <1>5, ListedKeeps DEF Kept, Fine
      <3> QED BY <1>2, <1>10, <3>1
    <2>2. CASE q # NoCell /\ d = q
      <3>1. cell'[d] = Bore(cell[d], c)
        BY <1>3, <1>7, <2>1, <2>2
      <3>2. cell[d] \in Cell
        BY <1>3
      <3> QED BY <2>2, <3>1, <3>2 DEF Bore, Cell
    <2>3. CASE ~(q # NoCell /\ d = q)
      <3>1. cell'[d] = cell[d]
        BY <1>3, <1>7, <2>1, <2>3
      <3>2. d # q
        BY <2>3 DEF Cells, NoCell
      <3> QED BY <3>1, <3>2
    <2> QED BY <2>2, <2>3
  <1>11. c # q
    BY <1>1, <1>4, <1>6 DEF Cells, NoCell
  <1>12. c \notin {cell[d].parent : d \in Cells}
    BY <1>1, <1>4 DEF SystemInv, Parented, Cells, NoCell
  <1>13. q \in Cells \cup {NoCell}
    BY <1>6
  <1>14. p # NoCell => (p \in Cells \ {c} /\ cell[p].name = ParentOf[n])
    BY <1>4, <1>5
  <1>15. c \in Cells
    BY <1>1
  <1> HIDE DEF c
  <1> QED BY <1>4, <1>6, <1>8, <1>9, <1>10, <1>11, <1>12, <1>13, <1>14, <1>15

\* A new cell is the last of its parent's children, and in nobody else's list.
LEMMA SpawnFamily ==
  ASSUME SystemInv, FamilyInv, NEW n \in Names, SpawnList(n)
  PROVE  FamilyInv'
  <1>1. PICK c \in Cells, q \in Cells \cup {NoCell} :
             /\ c # q /\ cell[c].at = "none" /\ c \notin {cell[d].parent : d \in Cells}
             /\ cell'[c].name = n /\ cell'[c].at = "listed" /\ cell'[c].todo = <<>>
             /\ cell'[c].children = <<>>
             /\ cell'[c].parent # NoCell =>
                  (cell'[c].parent \in Cells \ {c} /\ cell[cell'[c].parent].name = ParentOf[n])
             /\ q # NoCell => (cell[q].name = ParentOf[n])
             /\ \A d \in Cells : d # c =>
                  /\ cell'[d].name = cell[d].name /\ cell'[d].parent = cell[d].parent
                  /\ cell'[d].at = cell[d].at /\ cell'[d].todo = cell[d].todo
                  /\ cell'[d].children = IF d = q THEN Append(cell[d].children, c) ELSE cell[d].children
    BY SpawnedCells
  <1>2. NoRepeat(<<>>) /\ \A e : ~In(<<>>, e)
    BY DEF NoRepeat, In
  <1>3. ASSUME NEW d \in Cells
        PROVE  cell'[d].parent # NoCell => (cell'[cell'[d].parent].name = ParentOf[cell'[d].name])
    <2>1. CASE d = c
      BY <1>1, <2>1
    <2>2. CASE d # c
      <3>1. cell[d].parent # NoCell =>
              (cell[d].parent \in Cells /\ cell[cell[d].parent].name = ParentOf[cell[d].name])
        BY DEF SystemInv, Fine, Cell, FamilyInv, FamilyIn
      <3>2. cell[d].parent # c
        BY <1>1
      <3> QED BY <1>1, <2>2, <3>1, <3>2
    <2> QED BY <2>1, <2>2
  <1>4. \A e \in Cells : cell[e].at # "none" =>
          (e # c /\ cell'[e].name = cell[e].name /\ cell'[e].at # "none")
    BY <1>1
  <1>5. ASSUME NEW d \in Cells
        PROVE  TodoIn(cell', d)
    <2>1. CASE d = c
      BY <1>1, <1>2, <2>1 DEF TodoIn
    <2>2. CASE d # c
      <3>1. TodoIn(cell, d)
        BY DEF FamilyInv, FamilyIn
      <3>2. cell'[d].todo = cell[d].todo /\ cell'[d].name = cell[d].name
        BY <1>1, <2>2
      <3> QED BY <1>4, <3>1, <3>2 DEF TodoIn
    <2> QED BY <2>1, <2>2
  <1>6. ASSUME NEW d \in Cells
        PROVE  ChildrenIn(cell', d)
    <2>1. CASE d = c
      BY <1>1, <1>2, <2>1 DEF ChildrenIn
    <2>2. CASE d # c /\ d # q
      <3>1. ChildrenIn(cell, d)
        BY DEF FamilyInv, FamilyIn
      <3>2. cell'[d].children = cell[d].children /\ cell'[d].name = cell[d].name
        BY <1>1, <2>2
      <3> QED BY <1>4, <3>1, <3>2 DEF ChildrenIn
    <2>3. CASE d = q
      <3>1. ChildrenIn(cell, d) /\ cell[d].children \in Seq(Cells)
        <4>1. cell[d] \in Cell
          BY DEF SystemInv, Fine
        <4> QED BY <4>1 DEF FamilyInv, FamilyIn, Cell
      <3>2. /\ cell'[d].children = Append(cell[d].children, c) /\ cell'[d].name = cell[d].name
            /\ cell[d].name = ParentOf[n]
        <4>1. q # NoCell /\ d # c
          BY <1>1, <2>3 DEF Cells, NoCell
        <4> QED BY <1>1, <2>3, <4>1
      <3>3. ~In(cell[d].children, c)
        BY <1>1, <3>1 DEF ChildrenIn
      <3>4. /\ \A x : In(cell'[d].children, x) <=> (In(cell[d].children, x) \/ x = c)
            /\ NoRepeat(cell[d].children) => NoRepeat(cell'[d].children)
        <4> DEFINE s == cell[d].children
        <4>1. s \in Seq(Cells) /\ ~In(s, c) /\ cell'[d].children = Append(s, c)
          BY <3>1, <3>2, <3>3
        <4> HIDE DEF s
        <4>2. /\ \A x : In(Append(s, c), x) <=> (In(s, x) \/ x = c)
              /\ NoRepeat(s) => NoRepeat(Append(s, c))
          BY <4>1, AppendList
        <4>3. /\ \A x : In(cell'[d].children, x) <=> (In(s, x) \/ x = c)
              /\ NoRepeat(s) => NoRepeat(cell'[d].children)
          BY <4>1, <4>2
        <4> QED BY <4>3 DEF s
      <3>5. cell'[c].at # "none" /\ ParentOf[cell'[c].name] = cell'[d].name
        BY <1>1, <3>2
      <3>6. ASSUME NEW e \in Cells, In(cell'[d].children, e)
            PROVE  cell'[e].at # "none" /\ ParentOf[cell'[e].name] = cell'[d].name
        <4>1. CASE e = c
          BY <3>5, <4>1
        <4>2. CASE In(cell[d].children, e)
          BY <1>4, <3>1, <3>2, <4>2 DEF ChildrenIn
        <4> QED BY <3>4, <3>6, <4>1, <4>2
      <3> QED BY <3>1, <3>4, <3>6 DEF ChildrenIn
    <2> QED BY <2>1, <2>2, <2>3
  <1> QED BY <1>3, <1>5, <1>6 DEF FamilyInv, FamilyIn

\* Every actor's step keeps the families.
LEMMA ActorFamily ==
  ASSUME SystemInv, FamilyInv, NEW c \in Cells,
         SpawnPublish(c) \/ Return(c) \/ Quiet(c) \/ ShutdownStop(c)
  PROVE  FamilyInv'
  <1>0. Fine(cell)
    BY DEF SystemInv
  <1>1. ASSUME NEW to \in {"published", "done"}, cell' = [cell EXCEPT ![c].at = to]
        PROVE  FamilyInv'
    <2>1. cell' = [cell EXCEPT ![c] = Moved(cell[c], to)]
      BY <1>1, Zenon DEF Moved
    <2>2. Standing(cell, cell')
      BY <1>0, <2>1, MovedStands DEF Places
    <2> QED BY <1>0, <2>2, FamilyKept DEF FamilyInv
  <1>2. ASSUME Kept(cell, cell'), AllCalm(cell, cell')
        PROVE  FamilyInv'
    BY <1>0, <1>2, KeptStands, FamilyKept DEF FamilyInv
  <1>3. CASE SpawnPublish(c)
    BY <1>1, <1>3 DEF SpawnPublish, Goes
  <1>4. CASE Return(c)
    BY <1>1, <1>4 DEF Return, Goes
  <1>5. CASE CopySiblings(c)
    BY <1>5, CopyFamily
  <1>6. CASE TellSibling(c) /\ cell[c].todo # <<>>
    BY <1>6, TellFamily
  <1>7. CASE ShutdownStop(c)
    <2>1. cell' = [cell EXCEPT ![c].stop = TRUE]
      BY <1>7 DEF ShutdownStop
    <2> QED BY <1>0, <1>2, <2>1, StopKeeps, StopCalm
  <1>8. CASE Supervise(c)
    <2>1. CASE AllCalm(cell, cell')
      BY <1>2, <1>8, <2>1, QuietKeeps DEF Quiet
    <2>2. CASE cell' = Restarted(c)
      <3>1. cell[c].at = "failed"
        BY <1>8 DEF Supervise
      <3>2. PICK f : /\ Kept(cell, f) /\ AllCalm(cell, f)
                     /\ cell' = [f EXCEPT ![c] = Moved(f[c], "restarting")]
        BY <1>0, <2>2, <3>1, RestartedIs
      <3>3. Fine(f) /\ FamilyIn(f)
        BY <1>0, <3>2, KeptStands, FamilyKept DEF FamilyInv, Kept
      <3>4. Standing(f, cell')
        BY <3>2, <3>3, MovedStands DEF Places
      <3> QED BY <3>3, <3>4, FamilyKept DEF FamilyInv
    <2> QED BY <1>0, <1>8, <2>1, <2>2, SuperviseCases
  <1>9. CASE Quiet(c) /\ CalmStep(c)
    BY <1>0, <1>2, <1>9, QuietKeeps, CalmSteps
  <1> QED BY <1>3, <1>4, <1>5, <1>6, <1>7, <1>8, <1>9 DEF Quiet, CalmStep

\* So does every step of the system.
LEMMA FamilyStep == SystemInv /\ FamilyInv /\ [Next]_vars => FamilyInv'
  <1> SUFFICES ASSUME SystemInv, FamilyInv, [Next]_vars PROVE FamilyInv'
    OBVIOUS
  <1>1. ASSUME NEW n \in Names, SpawnList(n) PROVE FamilyInv'
    BY <1>1, SpawnFamily
  <1>2. ASSUME NEW n \in Names, Stop(n) PROVE FamilyInv'
    <2>1. registry[n] \in Cells /\ cell' = [cell EXCEPT ![registry[n]].stop = TRUE]
      BY <1>2 DEF Stop, SystemInv, RegistryType
    <2>2. Fine(cell)
      BY DEF SystemInv
    <2>3. Standing(cell, cell')
      BY <2>1, <2>2, StopKeeps, StopCalm, KeptStands
    <2> QED BY <2>2, <2>3, FamilyKept DEF FamilyInv
  <1>3. ASSUME NEW c \in Cells, SpawnPublish(c) \/ Return(c) \/ Quiet(c) \/ ShutdownStop(c)
        PROVE  FamilyInv'
    BY <1>3, ActorFamily
  <1>4. CASE cell' = cell
    BY <1>4 DEF FamilyInv
  <1>5. Still => cell' = cell
    BY DEF Still, ShutdownBegin, ShutdownReturn, HookPanics, vars
  <1> QED BY <1>1, <1>2, <1>3, <1>4, <1>5 DEF Next, Spawner, Actor, Shutdown, Quiet, Still

-----------------------------------------------------------------------------
(* The accounts are kept. *)

\* While no name is shared, an actor under way is the only one of its name.
LEMMA Alone ==
  ASSUME SystemInv, reused = {}, NEW c \in Cells, NEW d \in Cells, d # c,
         Published(c), cell[d].name = cell[c].name
  PROVE  cell[d].at \in Hidden
  <1>1. registry[cell[c].name] = c
    BY DEF SystemInv, TheLivingAreFound
  <1>2. ~Published(d)
    BY <1>1 DEF SystemInv, TheLivingAreFound
  <1> QED BY <1>2 DEF Published, Hidden

\* An actor fails more often than its tracker allows: the record is cleared, and
\* the actor ends.
LEMMA TooManyCounts ==
  ASSUME SystemInv, reused = {}, NEW c \in Cells, cell[c].at = "failed", Fine(cell'),
         AllCalm(cell, cell'), cell'[c].at = "returning",
         restarts' = [restarts EXCEPT ![cell[c].name] = 0],
         NEW h, NEW o, CountsIn(cell, restarts, h, o)
  PROVE  CountsIn(cell', restarts', h, o)
  <1>1. CountsIn(cell', restarts, h, o)
    BY CountsCalm DEF SystemInv
  <1>2. restarts \in [Names -> 0..MaxRestarts]
    BY DEF SystemInv, Rest
  <1>3. ASSUME NEW d \in Cells, cell'[d].at \notin Over
        PROVE  h[d] <= restarts'[cell'[d].name]
    <2>1. d # c /\ cell'[d].name = cell[d].name /\ cell[d].at \notin Over
      BY <1>3 DEF Over, AllCalm, Calm
    <2>2. CASE cell[d].name = cell[c].name
      <3>1. cell[d].at \in Hidden
        BY <2>1, <2>2, Alone DEF Published
      <3>2. cell[d].at = "listed" /\ cell[d].name \in Names
        BY <2>1, <3>1 DEF Hidden, Over, SystemInv, Fine, Sound
      <3>3. h[d] = 0
        BY <3>2 DEF CountsIn
      <3>4. restarts'[cell[d].name] = 0
        BY <1>2, <2>2, <3>2
      <3> QED BY <2>1, <3>3, <3>4
    <2>3. CASE cell[d].name # cell[c].name
      <3>1. h[d] <= restarts[cell'[d].name]
        BY <1>1, <1>3 DEF CountsIn
      <3>2. cell[d].name \in Names
        BY <2>1 DEF Over, SystemInv, Fine, Sound
      <3> QED BY <1>2, <2>1, <2>3, <3>1, <3>2
    <2> QED BY <2>2, <2>3
  <1> QED BY <1>1, <1>3, CountsTracker

\* A restart is entered in the actor's own account, as in the tracker's record.
LEMMA RestartCounts ==
  ASSUME SystemInv, reused = {}, NEW c \in Cells, cell[c].at = "failed",
         cell' = Restarted(c), restarts[cell[c].name] + 1 <= MaxRestarts,
         restarts' = [restarts EXCEPT ![cell[c].name] = restarts[cell[c].name] + 1],
         NEW h, NEW o, CountsIn(cell, restarts, h, o)
  PROVE  \E j : CountsIn(cell', restarts', j, o)
  <1> DEFINE n == cell[c].name
             j == [h EXCEPT ![c] = h[c] + 1]
  <1>0. Fine(cell) /\ n \in Names /\ restarts \in [Names -> 0..MaxRestarts]
    BY DEF SystemInv, Fine, Sound, Rest
  <1>1. PICK f : /\ Kept(cell, f) /\ AllCalm(cell, f) /\ f[c].at = "failed"
                 /\ cell' = [f EXCEPT ![c] = Moved(f[c], "restarting")]
    BY <1>0, RestartedIs
  <1>2. Fine(f) /\ CountsIn(f, restarts, h, o)
    BY <1>0, <1>1, CountsCalm DEF Kept
  <1>3. f[c] \in Cell /\ f \in [Cells -> Cell]
    BY <1>2 DEF Fine
  <1> DEFINE r == Moved(f[c], "restarting")
  <1>4. /\ r.name = f[c].name /\ r.at = "restarting" /\ r.box = f[c].box
        /\ r.todo = f[c].todo /\ r.starts = f[c].starts
    BY <1>3 DEF Moved, Cell
  <1> HIDE DEF r
  <1>5. cell'[c] = r /\ \A d \in Cells : d # c => (cell'[d] = f[d])
    BY <1>1, <1>3 DEF r
  <1>6. \A d \in Cells : f[d].name = cell[d].name /\ (cell[d].at \in Hidden <=> f[d].at \in Hidden)
                         /\ (cell[d].at \in Hidden => (f[d].at = cell[d].at))
    BY <1>1 DEF Kept, Same
  <1>7. h \in [Cells -> 0..MaxRestarts] /\ o \in [Cells -> SUBSET (Cells \X (1..MaxRestarts))]
    BY <1>2 DEF CountsIn
  <1>8. h[c] <= restarts[n] /\ h[c] \in 0..MaxRestarts /\ restarts[n] \in 0..MaxRestarts
    <2>1. f[c].at \notin Over
      BY <1>1 DEF Over
    <2> QED BY <1>0, <1>2, <1>6, <1>7, <2>1 DEF CountsIn
  <1>9. MaxRestarts \in Nat
    BY SystemAssumption
  <1>10. /\ j \in [Cells -> 0..MaxRestarts] /\ j[c] = h[c] + 1
         /\ \A d \in Cells : d # c => (j[d] = h[d])
    <2>1. h[c] + 1 \in 0..MaxRestarts
      BY <1>8, <1>9
    <2> QED BY <1>7, <2>1
  <1>11. /\ restarts'[n] = restarts[n] + 1
         /\ \A m \in Names : m # n => (restarts'[m] = restarts[m])
    BY <1>0
  <1> HIDE DEF j
  <1>12. ASSUME NEW d \in Cells
         PROVE  /\ cell'[d].at \in {"none", "listed"} => (j[d] = 0)
                /\ cell'[d].at = "none" => (o[d] = {})
                /\ cell'[d].at \notin Over => (j[d] <= restarts'[cell'[d].name])
                /\ cell'[d].at \in {"restarting", "telling"} => (j[d] >= 1)
                /\ Due(cell'[d]) <= 1 + j[d] + Cardinality(o[d])
    <2>1. CASE d = c
      <3>1. j[c] <= restarts'[n] /\ j[c] >= 1
        BY <1>8, <1>10, <1>11
      <3>2. Due(r) <= 1 + j[c] + Cardinality(o[c])
        <4>1. PICK a \in Nat, b \in Nat : a = f[c].starts /\ b = Forced(f[c].box)
          BY <1>3, DueIs
        <4>2. Due(f[c]) = a + b /\ Due(r) = a + 1 + b
          <5>1. Pending("failed") = 0 /\ Pending("restarting") = 1
            BY DEF Pending
          <5>2. Due(f[c]) = a + 0 + b /\ Due(r) = a + 1 + b
            BY <1>1, <1>4, <4>1, <5>1 DEF Due
          <5> QED BY <4>1, <5>2
        <4>3. PICK k \in Nat, l \in Nat : k = h[c] /\ l = Cardinality(o[c])
          BY <1>7, <1>8, OrdersOfSiblings
        <4>4. a + b <= 1 + k + l
          BY <1>2, <4>2, <4>3 DEF CountsIn
        <4> QED BY <1>10, <4>1, <4>2, <4>3, <4>4
      <3> QED BY <1>4, <1>5, <1>6, <2>1, <3>1, <3>2
    <2>2. CASE d # c
      <3>1. cell'[d] = f[d] /\ j[d] = h[d]
        BY <1>5, <1>10, <2>2
      <3>2. f[d].at \notin Over => (h[d] <= restarts'[f[d].name])
        <4> SUFFICES ASSUME f[d].at \notin Over PROVE h[d] <= restarts'[f[d].name]
          OBVIOUS
        <4>1. h[d] <= restarts[f[d].name]
          BY <1>2 DEF CountsIn
        <4>2. f[d].name \in Names
          BY <1>2 DEF Fine, Sound, Over
        <4>3. CASE f[d].name = n
          <5>1. cell[d].at \in Hidden
            BY <1>6, <2>2, <4>3, Alone DEF Published
          <5>2. f[d].at = "listed"
            BY <1>6, <5>1 DEF Hidden, Over
          <5>3. h[d] = 0
            BY <1>2, <5>2 DEF CountsIn
          <5> QED BY <1>8, <1>11, <4>3, <5>3
        <4>4. CASE f[d].name # n
          BY <1>11, <4>1, <4>2, <4>4
        <4> QED BY <4>3, <4>4
      <3> QED BY <1>2, <3>1, <3>2 DEF CountsIn
    <2> QED BY <2>1, <2>2
  <1>13. ASSUME NEW e \in Cells, NEW d \in Cells, NEW k \in 1..MaxRestarts, <<d, k>> \in o[e]
         PROVE  /\ ParentOf[cell'[d].name] = ParentOf[cell'[e].name] /\ k <= j[d]
                /\ k = j[d] => (cell'[d].at # "restarting" /\ ~(cell'[d].at = "telling" /\ In(cell'[d].todo, e)))
    <2>1. /\ ParentOf[f[d].name] = ParentOf[f[e].name] /\ k <= h[d]
          /\ k = h[d] => (f[d].at # "restarting" /\ ~(f[d].at = "telling" /\ In(f[d].todo, e)))
      BY <1>2, <1>13 DEF CountsIn
    <2>2. \A x \in Cells : cell'[x].name = f[x].name
      BY <1>4, <1>5
    <2>3. CASE d = c
      <3>1. k <= j[d] /\ k # j[d]
        BY <1>8, <1>10, <2>1, <2>3
      <3> QED BY <2>1, <2>2, <3>1
    <2>4. CASE d # c
      BY <1>5, <1>10, <2>1, <2>2, <2>4
    <2> QED BY <2>3, <2>4
  <1> QED BY <1>7, <1>10, <1>12, <1>13, Zenon DEF CountsIn

\* A failure answered keeps the accounts.
LEMMA SuperviseCounts ==
  ASSUME SystemInv, reused = {}, WindowHolds, NEW c \in Cells, Supervise(c),
         NEW h, NEW o, CountsIn(cell, restarts, h, o)
  PROVE  \E j, p : CountsIn(cell', restarts', j, p)
  <1>0. Fine(cell) /\ cell[c].at = "failed" /\ restarts[cell[c].name] \in 0..MaxRestarts
    BY DEF SystemInv, Fine, Sound, Rest, Supervise
  <1>1. Fine(cell')
    BY QuietKeeps DEF Quiet, Kept
  <1>2. CASE AllCalm(cell, cell') /\ UNCHANGED restarts
    BY <1>0, <1>1, <1>2, CountsCalm
  <1>3. CASE /\ AllCalm(cell, cell') /\ cell'[c].at = "returning"
             /\ restarts' = [restarts EXCEPT ![cell[c].name] = 0]
    BY <1>0, <1>1, <1>3, TooManyCounts
  <1>4. CASE /\ cell' = Restarted(c)
             /\ \E k \in Recorded(cell[c].name) :
                  ~TooMany(k) /\ restarts' = [restarts EXCEPT ![cell[c].name] = k]
    <2>1. restarts[cell[c].name] + 1 <= MaxRestarts
      BY <1>0, <1>4, SystemAssumption DEF Recorded, TooMany
    <2>2. restarts' = [restarts EXCEPT ![cell[c].name] = restarts[cell[c].name] + 1]
      BY <1>4 DEF Recorded
    <2> QED BY <1>0, <1>4, <2>1, <2>2, RestartCounts
  <1> QED BY <1>0, <1>2, <1>3, <1>4, SuperviseCases

\* The copy of the siblings' list owes nothing yet.
LEMMA CopyCounts ==
  ASSUME SystemInv, NEW c \in Cells, CopySiblings(c),
         NEW h, NEW o, CountsIn(cell, restarts, h, o)
  PROVE  CountsIn(cell', restarts, h, o)
  <1>1. /\ \A d \in Cells : d # c => (cell'[d] = cell[d])
        /\ cell[c].at = "restarting" /\ cell'[c].at = "telling"
        /\ cell'[c].name = cell[c].name /\ cell'[c].box = cell[c].box
        /\ cell'[c].starts = cell[c].starts
    BY CopiedCells
  <1>2. Due(cell'[c]) = Due(cell[c])
    <2>1. Pending("telling") = Pending("restarting")
      BY DEF Pending
    <2> QED BY <1>1, <2>1 DEF Due
  <1>3. ASSUME NEW d \in Cells
        PROVE  /\ cell'[d].at \in {"none", "listed"} => (h[d] = 0)
               /\ cell'[d].at = "none" => (o[d] = {})
               /\ cell'[d].at \notin Over => (h[d] <= restarts[cell'[d].name])
               /\ cell'[d].at \in {"restarting", "telling"} => (h[d] >= 1)
               /\ Due(cell'[d]) <= 1 + h[d] + Cardinality(o[d])
    <2>1. CASE d = c
      <3>1. h[c] <= restarts[cell[c].name] /\ h[c] >= 1 /\ Due(cell[c]) <= 1 + h[c] + Cardinality(o[c])
        BY <1>1 DEF CountsIn, Over
      <3> QED BY <1>1, <1>2, <2>1, <3>1
    <2>2. CASE d # c
      BY <1>1, <2>2 DEF CountsIn
    <2> QED BY <2>1, <2>2
  <1>4. ASSUME NEW e \in Cells, NEW d \in Cells, NEW k \in 1..MaxRestarts, <<d, k>> \in o[e]
        PROVE  /\ ParentOf[cell'[d].name] = ParentOf[cell'[e].name] /\ k <= h[d]
               /\ k = h[d] => (cell'[d].at # "restarting" /\ ~(cell'[d].at = "telling" /\ In(cell'[d].todo, e)))
    <2>1. /\ ParentOf[cell[d].name] = ParentOf[cell[e].name] /\ k <= h[d]
          /\ k = h[d] => (cell[d].at # "restarting" /\ ~(cell[d].at = "telling" /\ In(cell[d].todo, e)))
      BY <1>4 DEF CountsIn
    <2>2. cell'[d].name = cell[d].name /\ cell'[e].name = cell[e].name
      BY <1>1
    <2> QED BY <1>1, <2>1, <2>2
  <1> QED BY <1>3, <1>4, Zenon DEF CountsIn

\* A sibling told has an entry more in its account, that of this restart of the
\* one who tells it, and will not be told again.
LEMMA TellCounts ==
  ASSUME SystemInv, FamilyInv, NEW c \in Cells, TellSibling(c), cell[c].todo # <<>>,
         NEW h, NEW o, CountsIn(cell, restarts, h, o)
  PROVE  \E p : CountsIn(cell', restarts, h, p)
  <1>1. PICK e \in Cells :
             /\ e = Head(cell[c].todo) /\ cell[c].at = "telling"
             /\ Kept(cell, cell')
             /\ \A d \in Cells :
                  /\ cell'[d].at = cell[d].at /\ cell'[d].children = cell[d].children
                  /\ cell'[d].starts = cell[d].starts
                  /\ cell'[d].todo = IF d = c THEN Tail(cell[d].todo) ELSE cell[d].todo
                  /\ \/ Forced(cell'[d].box) = Forced(cell[d].box)
                     \/ d = e /\ Forced(cell'[d].box) = Forced(cell[d].box) + 1
    BY ToldCells
  <1> DEFINE new == <<c, h[c]>>
             p == [o EXCEPT ![e] = o[e] \cup {new}]
  <1>2. h \in [Cells -> 0..MaxRestarts] /\ o \in [Cells -> SUBSET (Cells \X (1..MaxRestarts))]
    BY DEF CountsIn
  <1>3. h[c] \in 1..MaxRestarts
    <2>1. h[c] >= 1 /\ h[c] \in 0..MaxRestarts
      BY <1>1, <1>2 DEF CountsIn
    <2> QED BY <2>1, SystemAssumption
  <1>4. cell[c].todo \in Seq(Cells) /\ NoRepeat(cell[c].todo)
    <2>1. cell[c] \in Cell
      BY DEF SystemInv, Fine
    <2> QED BY <2>1 DEF Cell, FamilyInv, FamilyIn, TodoIn
  <1>5. In(cell[c].todo, e) /\ ~In(cell'[c].todo, e) /\ \A x : In(cell'[c].todo, x) => In(cell[c].todo, x)
    BY <1>1, <1>4, TailList
  <1>6. cell[e].at # "none" /\ ParentOf[cell[e].name] = ParentOf[cell[c].name]
    BY <1>5 DEF FamilyInv, FamilyIn, TodoIn
  <1>7. new \notin o[e] /\ new \in Cells \X (1..MaxRestarts)
    BY <1>1, <1>3, <1>5 DEF CountsIn
  <1>8. /\ p \in [Cells -> SUBSET (Cells \X (1..MaxRestarts))]
        /\ p[e] = o[e] \cup {new} /\ \A d \in Cells : d # e => (p[d] = o[d])
    <2> HIDE DEF new
    <2>1. o[e] \cup {new} \in SUBSET (Cells \X (1..MaxRestarts))
      BY <1>2, <1>7
    <2> QED BY <1>2, <2>1
  <1>9. Cardinality(p[e]) = Cardinality(o[e]) + 1
    <2> HIDE DEF new, p
    <2>1. IsFiniteSet(o[e])
      BY <1>2, OrdersOfSiblings
    <2>2. Cardinality(o[e] \cup {new}) = Cardinality(o[e]) + 1
      BY <1>7, <2>1, FS_AddElement
    <2> QED BY <1>8, <2>2
  <1> HIDE DEF p
  <1>10. ASSUME NEW d \in Cells
         PROVE  Due(cell'[d]) <= 1 + h[d] + Cardinality(p[d])
    <2>1. PICK a \in Nat, b \in Nat, q \in 0..1 :
            a = cell[d].starts /\ b = Forced(cell[d].box) /\ q = Pending(cell[d].at)
      BY DueIs DEF SystemInv, Fine
    <2>2. PICK k \in Nat, l \in Nat : k = h[d] /\ l = Cardinality(o[d])
      BY <1>2, OrdersOfSiblings
    <2>3. a + q + b <= 1 + k + l
      <3>1. Due(cell[d]) <= 1 + h[d] + Cardinality(o[d])
        BY DEF CountsIn
      <3> QED BY <2>1, <2>2, <3>1 DEF Due
    <2>4. CASE Forced(cell'[d].box) = b
      <3>1. Due(cell'[d]) = a + q + b
        BY <1>1, <2>1, <2>4 DEF Due
      <3>2. CASE d = e
        <4>1. Cardinality(p[d]) = l + 1
          BY <1>9, <2>2, <3>2
        <4> QED BY <2>2, <2>3, <3>1, <4>1
      <3>3. CASE d # e
        BY <1>8, <2>2, <2>3, <3>1, <3>3
      <3> QED BY <3>2, <3>3
    <2>5. CASE d = e /\ Forced(cell'[d].box) = b + 1
      <3>1. Due(cell'[d]) = a + q + (b + 1)
        BY <1>1, <2>1, <2>5 DEF Due
      <3>2. Cardinality(p[d]) = l + 1
        BY <1>9, <2>2, <2>5
      <3> QED BY <2>2, <2>3, <3>1, <3>2
    <2> QED BY <1>1, <2>1, <2>4, <2>5
  <1>11. \A d \in Cells : cell'[d].name = cell[d].name
    BY <1>1 DEF Kept, Same
  <1>12. ASSUME NEW d \in Cells
         PROVE  /\ cell'[d].at \in {"none", "listed"} => (h[d] = 0)
                /\ cell'[d].at = "none" => (p[d] = {})
                /\ cell'[d].at \notin Over => (h[d] <= restarts[cell'[d].name])
                /\ cell'[d].at \in {"restarting", "telling"} => (h[d] >= 1)
    <2>1. cell'[d].at = cell[d].at /\ cell'[d].name = cell[d].name
      BY <1>1, <1>11
    <2>2. cell'[d].at = "none" => (p[d] = {})
      BY <1>6, <1>8, <2>1 DEF CountsIn
    <2> QED BY <2>1, <2>2 DEF CountsIn
  <1>13. ASSUME NEW x \in Cells, NEW d \in Cells, NEW k \in 1..MaxRestarts, <<d, k>> \in p[x]
         PROVE  /\ ParentOf[cell'[d].name] = ParentOf[cell'[x].name] /\ k <= h[d]
                /\ k = h[d] => (cell'[d].at # "restarting" /\ ~(cell'[d].at = "telling" /\ In(cell'[d].todo, x)))
    <2>1. CASE <<d, k>> \in o[x]
      <3>1. /\ ParentOf[cell[d].name] = ParentOf[cell[x].name] /\ k <= h[d]
            /\ k = h[d] => (cell[d].at # "restarting" /\ ~(cell[d].at = "telling" /\ In(cell[d].todo, x)))
        BY <2>1 DEF CountsIn
      <3>2. In(cell'[d].todo, x) => In(cell[d].todo, x)
        BY <1>1, <1>5
      <3>3. cell'[d].at = cell[d].at /\ cell'[d].name = cell[d].name /\ cell'[x].name = cell[x].name
        BY <1>1, <1>11
      <3> QED BY <3>1, <3>2, <3>3
    <2>2. CASE x = e /\ d = c /\ k = h[c]
      <3>1. ParentOf[cell'[d].name] = ParentOf[cell'[x].name]
        BY <1>6, <1>11, <2>2
      <3>2. cell'[d].at = "telling" /\ ~In(cell'[d].todo, x)
        BY <1>1, <1>5, <2>2
      <3>3. k <= h[d]
        BY <1>3, <2>2
      <3> QED BY <3>1, <3>2, <3>3
    <2>3. <<d, k>> \in o[x] \/ (x = e /\ d = c /\ k = h[c])
      <3>1. CASE x = e
        <4>1. <<d, k>> \in o[e] \/ <<d, k>> = <<c, h[c]>>
          BY <1>8, <1>13, <3>1
        <4> QED BY <3>1, <4>1
      <3>2. CASE x # e
        BY <1>8, <1>13, <3>2
      <3> QED BY <3>1, <3>2
    <2> QED BY <2>1, <2>2, <2>3
  <1>14. CountsIn(cell', restarts, h, p)
    BY <1>2, <1>8, <1>10, <1>12, <1>13, Zenon DEF CountsIn
  <1> QED BY <1>14

\* A new cell has empty accounts.
LEMMA SpawnCounts ==
  ASSUME SystemInv, FamilyInv, NEW n \in Names, SpawnList(n),
         NEW h, NEW o, CountsIn(cell, restarts, h, o)
  PROVE  CountsIn(cell', restarts, h, o)
  <1>1. PICK c \in Cells :
             /\ cell[c].at = "none"
             /\ cell'[c].name = n /\ cell'[c].at = "listed" /\ cell'[c].box = <<>>
             /\ cell'[c].starts = 0
             /\ \A d \in Cells : d # c =>
                  /\ cell'[d].name = cell[d].name
                  /\ cell'[d].at = cell[d].at /\ cell'[d].todo = cell[d].todo
                  /\ cell'[d].box = cell[d].box /\ cell'[d].starts = cell[d].starts
    BY SpawnedCells
  <1>2. h[c] = 0 /\ o[c] = {}
    BY <1>1 DEF CountsIn
  <1>3. Due(cell'[c]) <= 1 + h[c] + Cardinality(o[c])
    <2>1. Due(cell'[c]) = 0 + 1 + 0
      BY <1>1, ForcedEmpty DEF Due, Pending
    <2>2. Cardinality(o[c]) = 0
      BY <1>2, FS_EmptySet
    <2> QED BY <1>2, <2>1, <2>2
  <1>4. h[c] <= restarts[cell'[c].name]
    <2>1. restarts[n] \in 0..MaxRestarts
      BY DEF SystemInv, Rest
    <2> QED BY <1>1, <1>2, <2>1
  <1>5. ASSUME NEW d \in Cells
        PROVE  /\ cell'[d].at \in {"none", "listed"} => (h[d] = 0)
               /\ cell'[d].at = "none" => (o[d] = {})
               /\ cell'[d].at \notin Over => (h[d] <= restarts[cell'[d].name])
               /\ cell'[d].at \in {"restarting", "telling"} => (h[d] >= 1)
               /\ Due(cell'[d]) <= 1 + h[d] + Cardinality(o[d])
    <2>1. CASE d = c
      BY <1>1, <1>2, <1>3, <1>4, <2>1
    <2>2. CASE d # c
      <3>1. /\ cell'[d].at = cell[d].at /\ cell'[d].name = cell[d].name
            /\ Due(cell'[d]) = Due(cell[d])
        BY <1>1, <2>2 DEF Due
      <3> QED BY <3>1 DEF CountsIn
    <2> QED BY <2>1, <2>2
  <1>6. ASSUME NEW e \in Cells, NEW d \in Cells, NEW k \in 1..MaxRestarts, <<d, k>> \in o[e]
        PROVE  /\ ParentOf[cell'[d].name] = ParentOf[cell'[e].name] /\ k <= h[d]
               /\ k = h[d] => (cell'[d].at # "restarting" /\ ~(cell'[d].at = "telling" /\ In(cell'[d].todo, e)))
    <2>1. /\ ParentOf[cell[d].name] = ParentOf[cell[e].name] /\ k <= h[d]
          /\ k = h[d] => (cell[d].at # "restarting" /\ ~(cell[d].at = "telling" /\ In(cell[d].todo, e)))
      BY <1>6 DEF CountsIn
    <2>2. d # c /\ e # c
      BY <1>2, <1>6, <2>1
    <2> QED BY <1>1, <2>1, <2>2
  <1> QED BY <1>5, <1>6, Zenon DEF CountsIn

\* While no name is shared and one window holds all failures, there are accounts
\* that account for every start.
RestartsInv ==
  WindowHolds /\ reused = {} => \E h, o : CountsIn(cell, restarts, h, o)

\* Every step of an actor keeps accounts that account for it.
LEMMA ActorCounts ==
  ASSUME SystemInv, FamilyInv, WindowHolds, reused = {}, NEW c \in Cells,
         SpawnPublish(c) \/ Return(c) \/ Quiet(c) \/ ShutdownStop(c), SystemInv',
         NEW h, NEW o, CountsIn(cell, restarts, h, o)
  PROVE  \E j, p : CountsIn(cell', restarts', j, p)
  <1>0. Fine(cell) /\ Fine(cell')
    BY DEF SystemInv
  <1>1. CASE Supervise(c)
    BY <1>1, SuperviseCounts
  <1>2. CASE CopySiblings(c)
    <2>1. UNCHANGED restarts
      BY <1>2 DEF CopySiblings
    <2> QED BY <1>2, <2>1, CopyCounts
  <1>3. CASE TellSibling(c) /\ cell[c].todo # <<>>
    <2>1. UNCHANGED restarts
      BY <1>3 DEF TellSibling
    <2> QED BY <1>3, <2>1, TellCounts
  <1>4. CASE CalmStep(c)
    <2>1. AllCalm(cell, cell')
      BY <1>0, <1>4, CalmSteps
    <2>2. UNCHANGED restarts
      BY <1>4 DEF CalmStep, SpawnPublish, SpawnGo, Start, TakeMessage, DieUnsupervised, TellSibling,
                  TakeStop, CloseBox, Drain, OnStop, Return, Tell, ShutdownStop
    <2> QED BY <1>0, <2>1, <2>2, CountsCalm
  <1> QED BY <1>1, <1>2, <1>3, <1>4 DEF Quiet, CalmStep

\* Names that have been shared stay so.
LEMMA SharedForGood == [Next]_vars => reused \subseteq reused'
  <1>1. ASSUME NEW c \in Cells, SpawnPublish(c) PROVE reused \subseteq reused'
    BY <1>1 DEF SpawnPublish
  <1>2. ASSUME NEW c \in Cells, SpawnGo(c) \/ Actor(c) \/ Tell(c) \/ ShutdownStop(c)
        PROVE  UNCHANGED reused
    BY <1>2 DEF SpawnGo, Actor, Tell, ShutdownStop, Start, TakeMessage, DieUnsupervised, Supervise,
                CopySiblings, TellSibling, TakeStop, CloseBox, Drain, OnStop, Return, HookPanics
  <1>3. ASSUME NEW n \in Names, SpawnList(n) \/ Stop(n) PROVE UNCHANGED reused
    BY <1>3 DEF SpawnList, Stop
  <1>4. Still => UNCHANGED reused
    BY DEF Still, ShutdownBegin, ShutdownReturn, HookPanics, vars
  <1> QED BY <1>1, <1>2, <1>3, <1>4 DEF Next, Spawner, Shutdown, Still

\* Every step keeps such accounts.
LEMMA RestartsStep == SystemInv /\ FamilyInv /\ RestartsInv /\ [Next]_vars /\ SystemInv' => RestartsInv'
  <1> SUFFICES ASSUME SystemInv, FamilyInv, RestartsInv, [Next]_vars, SystemInv', WindowHolds, reused' = {}
               PROVE  \E h, o : CountsIn(cell', restarts', h, o)
    BY DEF RestartsInv
  <1>0. reused = {}
    BY SharedForGood
  <1>1. PICK h, o : CountsIn(cell, restarts, h, o)
    BY <1>0 DEF RestartsInv
  <1>2. ASSUME NEW n \in Names, SpawnList(n) PROVE CountsIn(cell', restarts', h, o)
    <2>1. UNCHANGED restarts
      BY <1>2 DEF SpawnList
    <2> QED BY <1>1, <1>2, <2>1, SpawnCounts
  <1>3. ASSUME NEW n \in Names, Stop(n) PROVE CountsIn(cell', restarts', h, o)
    <2>1. registry[n] \in Cells /\ cell' = [cell EXCEPT ![registry[n]].stop = TRUE] /\ UNCHANGED restarts
      BY <1>3 DEF Stop, SystemInv, RegistryType
    <2>2. Fine(cell) /\ Fine(cell')
      BY DEF SystemInv
    <2>3. AllCalm(cell, cell')
      BY <2>1, <2>2, StopCalm
    <2> QED BY <1>1, <2>1, <2>2, <2>3, CountsCalm
  <1>4. ASSUME NEW c \in Cells, SpawnPublish(c) \/ Return(c) \/ Quiet(c) \/ ShutdownStop(c)
        PROVE  \E j, p : CountsIn(cell', restarts', j, p)
    BY <1>0, <1>1, <1>4, ActorCounts
  <1>5. Still => CountsIn(cell', restarts', h, o)
    BY <1>1 DEF Still, ShutdownBegin, ShutdownReturn, HookPanics, vars
  <1> QED BY <1>2, <1>3, <1>4, <1>5 DEF Next, Spawner, Actor, Shutdown, Quiet, Still

\* Nobody has been spawned, so that nobody has a family or has restarted.
LEMMA FamilyInit == Init => FamilyInv /\ RestartsInv
  <1> SUFFICES ASSUME Init PROVE FamilyInv /\ RestartsInv
    OBVIOUS
  <1>1. \A c \in Cells : /\ cell[c].at = "none" /\ cell[c].parent = NoCell /\ cell[c].children = <<>>
                         /\ cell[c].todo = <<>> /\ cell[c].box = <<>> /\ cell[c].starts = 0
    BY DEF Init, Unused, NewCell
  <1>2. NoRepeat(<<>>) /\ \A e : ~In(<<>>, e)
    BY DEF NoRepeat, In
  <1>3. FamilyInv
    BY <1>1, <1>2 DEF FamilyInv, FamilyIn, ChildrenIn, TodoIn
  <1> DEFINE h == [c \in Cells |-> 0]
             o == [c \in Cells |-> {}]
  <1>4. h \in [Cells -> 0..MaxRestarts] /\ \A c \in Cells : h[c] = 0
    <2>1. 0 \in 0..MaxRestarts
      BY SystemAssumption
    <2> QED BY <2>1
  <1>5. o \in [Cells -> SUBSET (Cells \X (1..MaxRestarts))] /\ \A c \in Cells : o[c] = {}
    OBVIOUS
  <1> HIDE DEF h, o
  <1>6. ASSUME NEW c \in Cells
        PROVE  Due(cell[c]) <= 1 + h[c] + Cardinality(o[c])
    <2>1. Due(cell[c]) = 0 + 1 + 0
      BY <1>1, ForcedEmpty DEF Due, Pending
    <2>2. Cardinality(o[c]) = 0
      BY <1>5, FS_EmptySet
    <2> QED BY <1>4, <2>1, <2>2
  <1>7. CountsIn(cell, restarts, h, o)
    BY <1>1, <1>4, <1>5, <1>6 DEF CountsIn, Over
  <1> QED BY <1>3, <1>7 DEF RestartsInv

\* An account is no larger than the tracker allows each of the family.
LEMMA AccountsAreBounded ==
  ASSUME SystemInv, NEW h, NEW o, CountsIn(cell, restarts, h, o), NEW c \in 1..spawned,
         NEW F, F = {d \in 1..spawned : ParentOf[cell[d].name] = ParentOf[cell[c].name]}
  PROVE  Cardinality(F) \in Nat /\ Cardinality(o[c]) <= Cardinality(F) * MaxRestarts
  <1> DEFINE S == 1..MaxRestarts
  <1>1. spawned \in 0..MaxCells /\ MaxRestarts \in Nat /\ MaxCells \in Nat
    BY SystemAssumption DEF SystemInv, Rest
  <1>2. c \in Cells /\ F \in SUBSET (1..spawned)
    BY <1>1 DEF Cells
  <1>3. IsFiniteSet(1..spawned) /\ IsFiniteSet(S) /\ Cardinality(S) = MaxRestarts
    <2>1. /\ IsFiniteSet(1..spawned) /\ IsFiniteSet(1..MaxRestarts)
          /\ Cardinality(1..MaxRestarts) = IF 1 > MaxRestarts THEN 0 ELSE MaxRestarts - 1 + 1
      BY <1>1, FS_Interval
    <2>2. Cardinality(1..MaxRestarts) = MaxRestarts
      BY <1>1, <2>1
    <2> QED BY <2>1, <2>2
  <1>4. IsFiniteSet(F) /\ Cardinality(F) \in Nat
    BY <1>2, <1>3, FS_Subset, FS_CardinalityType
  <1>5. o[c] \in SUBSET (F \X S)
    <2>1. o[c] \in SUBSET (Cells \X S)
      BY <1>2 DEF CountsIn
    <2>2. ASSUME NEW d \in Cells, NEW k \in S, <<d, k>> \in o[c]
          PROVE  d \in F
      <3>1. ParentOf[cell[d].name] = ParentOf[cell[c].name] /\ k <= h[d]
        BY <1>2, <2>2 DEF CountsIn
      <3>2. h[d] \in 0..MaxRestarts /\ h[d] # 0
        BY <1>1, <3>1 DEF CountsIn
      <3>3. cell[d].at # "none"
        BY <3>2 DEF CountsIn
      <3>4. d \in 1..spawned
        BY <1>1, <3>3 DEF SystemInv, Newborn, Cells
      <3> QED BY <3>1, <3>4
    <2> HIDE DEF S
    <2>3. \A x \in o[c] : x \in F \X S
      BY <2>1, <2>2
    <2> QED BY <2>3
  <1> HIDE DEF S
  <1>6. IsFiniteSet(F \X S) /\ Cardinality(F \X S) = Cardinality(F) * MaxRestarts
    BY <1>3, <1>4, FS_Product
  <1> DEFINE P == F \X S
  <1>7. o[c] \in SUBSET P /\ IsFiniteSet(P)
    BY <1>5, <1>6
  <1> HIDE DEF P
  <1>8. Cardinality(o[c]) <= Cardinality(P)
    BY <1>7, FS_Subset
  <1> QED BY <1>4, <1>6, <1>8 DEF P

\* one factor more
LEMMA OneMore ==
  ASSUME NEW m \in Nat, NEW s \in Nat
  PROVE  s * m \in Nat /\ m * (1 + s) = m + s * m
OBVIOUS

\* The accounts bound the starts.
LEMMA AccountsBoundStarts == SystemInv /\ RestartsInv => RestartsAreBounded
  <1> SUFFICES ASSUME SystemInv, RestartsInv, WindowHolds, reused = {}, NEW c \in 1..spawned,
                      NEW F, F = {d \in 1..spawned : ParentOf[cell[d].name] = ParentOf[cell[c].name]}
               PROVE  cell[c].starts <= 1 + MaxRestarts * (1 + Cardinality(F))
    BY DEF RestartsAreBounded
  <1>1. PICK h, o : CountsIn(cell, restarts, h, o)
    BY DEF RestartsInv
  <1>2. Cardinality(F) \in Nat /\ Cardinality(o[c]) <= Cardinality(F) * MaxRestarts
    BY <1>1, AccountsAreBounded
  <1>3. c \in Cells /\ cell[c] \in Cell
    BY SystemAssumption DEF SystemInv, Rest, Cells, Fine
  <1>4. PICK a \in Nat, b \in Nat, q \in 0..1 :
          a = cell[c].starts /\ b = Forced(cell[c].box) /\ q = Pending(cell[c].at)
    BY <1>3, DueIs
  <1>5. PICK k \in 0..MaxRestarts, l \in Nat : k = h[c] /\ l = Cardinality(o[c])
    BY <1>1, <1>3, OrdersOfSiblings DEF CountsIn
  <1>6. a + q + b <= 1 + k + l
    BY <1>1, <1>3, <1>4, <1>5 DEF CountsIn, Due
  <1>7. PICK m \in Nat, s \in Nat : m = MaxRestarts /\ s = Cardinality(F)
    BY <1>2, SystemAssumption
  <1>8. PICK t \in Nat : t = s * m /\ m * (1 + s) = m + t
    BY OneMore
  <1>9. l <= t
    BY <1>2, <1>5, <1>7, <1>8
  <1>10. a <= 1 + (m + t)
    BY <1>4, <1>5, <1>6, <1>7, <1>8, <1>9
  <1> QED BY <1>4, <1>7, <1>8, <1>10

\* The families and the accounts are there in every state.
LEMMA RestartsInvariance == Spec => [](SystemInv /\ FamilyInv /\ RestartsInv)
  <1>1. Init => SystemInv /\ FamilyInv /\ RestartsInv
    BY InitInv, FamilyInit
  <1>2. (SystemInv /\ FamilyInv /\ RestartsInv) /\ [Next]_vars => (SystemInv /\ FamilyInv /\ RestartsInv)'
    BY StepInv, FamilyStep, RestartsStep
  <1> QED BY <1>1, <1>2, PTL DEF Spec

\* However actors fail, restart, force one another to restart, are spawned and
\* stopped, in any interleaving: no actor starts more often than its own tracker
\* and its siblings' trackers allow together.
THEOREM RestartsAreAlwaysBounded == Spec => []RestartsAreBounded
  <1> QED BY AccountsBoundStarts, RestartsInvariance, PTL
=============================================================================
