----------------------------- MODULE ActorSystem -----------------------------
(***************************************************************************)
(* The actor runtime (actor-framework/system.go): the registry of cells,   *)
(* spawning, the life of an actor in runActor, the supervision of its      *)
(* failures, stopping, and Shutdown.  Spawning threads, actors, senders    *)
(* and the thread that shuts the system down interleave at every lock and  *)
(* channel operation.                                                      *)
(*                                                                         *)
(* A spawn creates a cell; a name may be given to several cells, one after *)
(* the other or at the same time, and the registry holds one per name.     *)
(* What handlers do is left open: any actor may send, spawn and stop, and  *)
(* a fragile one may panic, in a handler or in a hook; but handlers and    *)
(* hooks return.  Delays before a restart only take time.                  *)
(***************************************************************************)
EXTENDS Integers, Sequences, FiniteSets

CONSTANTS
  Names,          \* actor ids
  NoName,
  ParentOf,       \* ParentOf[n]: the name of the parent, or NoName
  Supervised,     \* the names spawned with a supervisor, the same for all
  Fragile,        \* the names whose handlers and hooks may panic
  OneForAll,      \* is the supervisor's strategy one-for-all?
  Directives,     \* what its decider may answer
  MaxRestarts,
  WindowHolds,    \* a bound: do all failures fall in one restart window?
  MailboxCap,     \* capacity of a mailbox
  MaxCells,       \* bound on the cells spawned
  MaxTells,       \* bound on the messages sent by user code
  MaxStarts       \* bound: starts are counted up to this number

ASSUME SystemAssumption ==
  /\ NoName \notin Names /\ ParentOf \in [Names -> Names \cup {NoName}]
  /\ Supervised \subseteq Names /\ Fragile \subseteq Names
  /\ Directives \subseteq {"Resume", "Restart", "Stop", "Escalate"}
  /\ OneForAll \in BOOLEAN /\ WindowHolds \in BOOLEAN
  /\ MaxRestarts \in Nat /\ MaxTells \in Nat /\ MaxStarts \in Nat
  /\ MailboxCap \in Nat \ {0} /\ MaxCells \in Nat \ {0}

Cells == 1..MaxCells
NoCell == 0

VARIABLES
  cell,      \* cell[c]: the actorCell, and where its goroutine is (at)
  spawned,   \* cells 1..spawned have been created
  registry,  \* registry[n]: ActorSystem.cells, a cell or NoCell
  restarts,  \* restarts[n]: length of the RestartTracker's record
  shutdown,  \* the thread in Shutdown: [at, todo]
  tells,     \* messages sent by user code so far
  crashed,   \* has a panic ended the process?
  reused     \* names published while another cell of that name was not done

vars == <<cell, spawned, registry, restarts, shutdown, tells, crashed, reused>>

NewCell(n, p) ==
  [name |-> n, parent |-> p, at |-> "listed", box |-> <<>>, closed |-> FALSE,
   stop |-> FALSE, children |-> <<>>, todo |-> <<>>, starts |-> 0]

Unused == [NewCell(NoName, NoCell) EXCEPT !.at = "none"]

\* published: in the registry since its spawn, its goroutine not yet returned
Published(c) == cell[c].at \notin {"none", "listed", "done"}

\* Faulty: an actor that ends by a panic skips wg.Done.
Waited_ForEver(c) ==
  IF cell[c].at = "done" THEN ~cell[c].closed ELSE cell[c].at \notin {"none", "listed", "published"}

\* the WaitGroup counts a cell from wg.Add to wg.Done
Waited(c) == Published(c) /\ cell[c].at # "published"

Init ==
  /\ cell = [c \in Cells |-> Unused]
  /\ spawned = 0
  /\ registry = [n \in Names |-> NoCell]
  /\ restarts = [n \in Names |-> 0]
  /\ shutdown = [at |-> "idle", todo |-> {}]
  /\ tells = 0
  /\ crashed = FALSE
  /\ reused = {}

-----------------------------------------------------------------------------
(* Mailboxes and the steps of a cell. *)

\* Faulty: a closed mailbox accepts messages.
Enqueue_Closed(cells, d, m) ==
  IF Len(cells[d].box) < MailboxCap
  THEN [cells EXCEPT ![d].box = Append(@, m)]
  ELSE cells

\* the cells with m enqueued at d; refused when the mailbox is closed or full
Enqueue(cells, d, m) ==
  IF ~cells[d].closed /\ Len(cells[d].box) < MailboxCap
  THEN [cells EXCEPT ![d].box = Append(@, m)]
  ELSE cells

\* c's goroutine goes from one point of runActor to another
Goes(c, from, to) ==
  /\ ~crashed /\ cell[c].at = from
  /\ cell' = [cell EXCEPT ![c].at = to]

Takes(c, to) == [cell EXCEPT ![c].box = Tail(@), ![c].at = to]

-----------------------------------------------------------------------------
(* Spawning: the child is entered in the list of the cell registered under *)
(* its parent's name, then published, then counted and started.            *)

Parents(n) ==
  IF ParentOf[n] = NoName THEN {NoCell}
  ELSE {p \in Cells : Waited(p) /\ cell[p].name = ParentOf[n]}

Listed(c, p) ==
  IF p # NoCell /\ registry[cell[p].name] # NoCell
  THEN [cell EXCEPT ![registry[cell[p].name]].children = Append(@, c)]
  ELSE cell

\* The lookup of the parent and the append are two critical sections.  They are
\* one step here: the list is read by whoever finds that cell in the registry, so
\* what is appended to it while, or after, the cell leaves it might as well have
\* been appended just before.
SpawnList(n) ==
  LET c == spawned + 1 IN
  /\ ~crashed /\ c \in Cells
  /\ spawned' = c
  /\ \E p \in Parents(n) : cell' = [Listed(c, p) EXCEPT ![c] = NewCell(n, p)]
  /\ UNCHANGED <<registry, restarts, shutdown, tells, crashed, reused>>

SpawnPublish(c) ==
  LET n == cell[c].name IN
  /\ Goes(c, "listed", "published")
  /\ registry' = [registry EXCEPT ![n] = c]
  /\ reused' = IF \E d \in Cells : cell[d].name = n /\ Published(d)
                 THEN reused \cup {n} ELSE reused
  /\ UNCHANGED <<spawned, restarts, shutdown, tells, crashed>>

SpawnGo(c) ==
  /\ Goes(c, "published", "starting")
  /\ UNCHANGED <<spawned, registry, restarts, shutdown, tells, crashed, reused>>

-----------------------------------------------------------------------------
(* runActor: start, message loop. *)

\* OnPreStart, OnStart and the Started message
Start(c) ==
  /\ ~crashed /\ cell[c].at = "starting"
  /\ cell' = [Enqueue(cell, c, "Started") EXCEPT
                 ![c].at = "loop", ![c].starts = IF @ < MaxStarts THEN @ + 1 ELSE @]
  /\ UNCHANGED <<spawned, registry, restarts, shutdown, tells, crashed, reused>>

\* a message is dispatched by safeInvoke, or makes the actor start anew
TakeMessage(c) ==
  /\ ~crashed /\ cell[c].at = "loop" /\ cell[c].box # <<>>
  /\ \/ /\ Head(cell[c].box) = "forceRestart"
        /\ cell' = Takes(c, "starting")
     \/ /\ Head(cell[c].box) # "forceRestart"
        /\ cell' = Takes(c, "loop")
     \/ /\ Head(cell[c].box) # "forceRestart" /\ cell[c].name \in Fragile
        /\ cell' = Takes(c, "failed")
  /\ UNCHANGED <<spawned, registry, restarts, shutdown, tells, crashed, reused>>

-----------------------------------------------------------------------------
(* Supervision (Supervisor.Handle and what runActor makes of its answer).  *)

\* without a supervisor the goroutine returns, the mailbox stays open
DieUnsupervised(c) ==
  /\ cell[c].name \notin Supervised
  /\ Goes(c, "failed", "returning")
  /\ UNCHANGED <<spawned, registry, restarts, shutdown, tells, crashed, reused>>

\* escalateFailure, and return
Escalated(c) ==
  [IF cell[c].parent = NoCell THEN cell ELSE Enqueue(cell, cell[c].parent, "ActorFailed")
     EXCEPT ![c].at = "returning"]

Answer(c) ==
  \/ /\ "Resume" \in Directives
     /\ cell' = [cell EXCEPT ![c].at = "loop"]
  \/ /\ "Stop" \in Directives
     /\ cell' = [cell EXCEPT ![c].at = "returning"]
  \/ /\ "Escalate" \in Directives
     /\ cell' = Escalated(c)

\* Faulty: the limit is compared with >= after the restart it counts.
TooMany_Late(k) == k > MaxRestarts + 1

TooMany(k) == k > MaxRestarts

\* RestartTracker.Record: the failures still in the window, and this one
Recorded(n) == IF WindowHolds THEN {restarts[n] + 1} ELSE 1..(restarts[n] + 1)

AnswerRestart(c) ==
  LET n == cell[c].name IN
  /\ "Restart" \in Directives
  /\ \E k \in Recorded(n) :
       \/ /\ TooMany(k)
          /\ restarts' = [restarts EXCEPT ![n] = 0]
          /\ cell' = Escalated(c)
       \/ /\ ~TooMany(k)
          /\ restarts' = [restarts EXCEPT ![n] = k]
          /\ cell' = [Enqueue(cell, c, "Restarting") EXCEPT ![c].at = "restarting"]

Supervise(c) ==
  /\ ~crashed /\ cell[c].at = "failed" /\ cell[c].name \in Supervised
  /\ AnswerRestart(c) \/ (Answer(c) /\ UNCHANGED restarts)
  /\ UNCHANGED <<spawned, registry, shutdown, tells, crashed, reused>>

\* restartChildren copies the list of the cell registered under the parent's
\* name: the failing child is in it, ended children too
Siblings(c) ==
  LET p == cell[c].parent IN
  IF OneForAll /\ p # NoCell /\ registry[cell[p].name] # NoCell
  THEN cell[registry[cell[p].name]].children ELSE <<>>

CopySiblings(c) ==
  /\ ~crashed /\ cell[c].at = "restarting"
  /\ cell' = [cell EXCEPT ![c].todo = Siblings(c), ![c].at = "telling"]
  /\ UNCHANGED <<spawned, registry, restarts, shutdown, tells, crashed, reused>>

TellSibling(c) ==
  /\ ~crashed /\ cell[c].at = "telling"
  /\ \/ /\ cell[c].todo # <<>>
        /\ cell' = [Enqueue(cell, Head(cell[c].todo), "forceRestart")
                      EXCEPT ![c].todo = Tail(@)]
     \/ /\ cell[c].todo = <<>>
        /\ cell' = [cell EXCEPT ![c].at = "starting"]
  /\ UNCHANGED <<spawned, registry, restarts, shutdown, tells, crashed, reused>>

\* Only messages are dispatched under safeInvoke: a panic in OnPreStart, OnStart,
\* OnPreRestart, OnStop or OnPostStop ends the process.
HookPanics(c) ==
  /\ ~crashed /\ cell[c].name \in Fragile
  /\ \/ cell[c].at = "starting"
     \/ /\ cell[c].at = "failed" /\ cell[c].name \in Supervised /\ "Restart" \in Directives
        /\ \E k \in Recorded(cell[c].name) : ~TooMany(k)
     \/ cell[c].at = "draining" /\ cell[c].box = <<>>
  /\ crashed' = TRUE
  /\ UNCHANGED <<cell, spawned, registry, restarts, shutdown, tells, reused>>

-----------------------------------------------------------------------------
(* runActor: the stop path and the deferred functions. *)

TakeStop(c) ==
  /\ ~crashed /\ cell[c].at = "loop" /\ cell[c].stop
  /\ cell' = [Enqueue(cell, c, "Stopping") EXCEPT ![c].at = "closing"]
  /\ UNCHANGED <<spawned, registry, restarts, shutdown, tells, crashed, reused>>

CloseBox(c) ==
  /\ ~crashed /\ cell[c].at = "closing"
  /\ cell' = [cell EXCEPT ![c].closed = TRUE, ![c].at = "draining"]
  /\ UNCHANGED <<spawned, registry, restarts, shutdown, tells, crashed, reused>>

\* what is left is dispatched without safeInvoke: a panic ends the process
Drain(c) ==
  /\ ~crashed /\ cell[c].at = "draining" /\ cell[c].box # <<>>
  /\ cell' = Takes(c, "draining")
  /\ \/ UNCHANGED crashed
     \/ cell[c].name \in Fragile /\ crashed' = TRUE
  /\ UNCHANGED <<spawned, registry, restarts, shutdown, tells, reused>>

\* OnStop and OnPostStop
OnStop(c) ==
  /\ cell[c].box = <<>>
  /\ Goes(c, "draining", "returning")
  /\ UNCHANGED <<spawned, registry, restarts, shutdown, tells, crashed, reused>>

\* Faulty: an actor that ends by a panic stays in the registry.
Deregistered_Stopped(c) ==
  IF cell[c].closed THEN [registry EXCEPT ![cell[c].name] = NoCell] ELSE registry

\* delete(s.cells, cell.id), whatever cell has the name by now
Deregistered(c) == [registry EXCEPT ![cell[c].name] = NoCell]

Return(c) ==
  /\ Goes(c, "returning", "done")
  /\ registry' = Deregistered(c)
  /\ UNCHANGED <<spawned, restarts, shutdown, tells, crashed, reused>>

-----------------------------------------------------------------------------
(* Other threads: localActorRef.Tell and Stop, Shutdown. *)

\* a sender has the reference when the spawn has made it known
Tell(c) ==
  /\ ~crashed /\ cell[c].at \notin {"none", "listed"} /\ tells < MaxTells
  /\ tells' = tells + 1
  /\ cell' = Enqueue(cell, c, "user")
  /\ UNCHANGED <<spawned, registry, restarts, shutdown, crashed, reused>>

\* Faulty: the cell is deleted at once, not when its actor has ended.
Stop_Deletes(n) ==
  LET c == registry[n] IN
  /\ ~crashed /\ c # NoCell /\ ~cell[c].stop
  /\ cell' = [cell EXCEPT ![c].stop = TRUE]
  /\ registry' = [registry EXCEPT ![n] = NoCell]
  /\ UNCHANGED <<spawned, restarts, shutdown, tells, crashed, reused>>

\* the cell registered under the reference's name is stopped, once
Stop(n) ==
  LET c == registry[n] IN
  /\ ~crashed /\ c # NoCell /\ ~cell[c].stop
  /\ cell' = [cell EXCEPT ![c].stop = TRUE]
  /\ UNCHANGED <<spawned, registry, restarts, shutdown, tells, crashed, reused>>

ShutdownBegin ==
  /\ ~crashed /\ shutdown.at = "idle"
  /\ shutdown' = [at |-> "stopping", todo |-> {registry[n] : n \in Names} \ {NoCell}]
  /\ UNCHANGED <<cell, spawned, registry, restarts, tells, crashed, reused>>

ShutdownStop(c) ==
  /\ ~crashed /\ c \in shutdown.todo
  /\ cell' = [cell EXCEPT ![c].stop = TRUE]
  /\ shutdown' = [shutdown EXCEPT !.todo = @ \ {c}]
  /\ UNCHANGED <<spawned, registry, restarts, tells, crashed, reused>>

\* wg.Wait
ShutdownReturn ==
  /\ ~crashed /\ shutdown.at = "stopping" /\ shutdown.todo = {}
  /\ \A c \in Cells : ~Waited(c)
  /\ shutdown' = [shutdown EXCEPT !.at = "returned"]
  /\ UNCHANGED <<cell, spawned, registry, restarts, tells, crashed, reused>>

-----------------------------------------------------------------------------

Actor(c) ==
  \/ Start(c) \/ TakeMessage(c)
  \/ DieUnsupervised(c) \/ Supervise(c) \/ CopySiblings(c) \/ TellSibling(c)
  \/ TakeStop(c) \/ CloseBox(c) \/ Drain(c) \/ OnStop(c) \/ Return(c)
  \/ HookPanics(c)

Spawner(c) == SpawnPublish(c) \/ SpawnGo(c)

Shutdown == ShutdownReturn \/ \E c \in Cells : ShutdownStop(c)

Next ==
  \/ \E n \in Names : SpawnList(n) \/ Stop(n)
  \/ \E c \in Cells : Spawner(c) \/ Actor(c) \/ Tell(c)
  \/ ShutdownBegin \/ Shutdown

Spec == Init /\ [][Next]_vars

\* Goroutines run.  A select whose two cases are ready again and again takes
\* each of them at some time: it chooses at random.
Fairness ==
  /\ \A c \in Cells : WF_vars(Spawner(c)) /\ WF_vars(Actor(c)) /\ SF_vars(TakeStop(c))
  /\ WF_vars(Shutdown)

FairSpec == Spec /\ Fairness

-----------------------------------------------------------------------------
(* Properties. *)

Places == {"none", "listed", "published", "starting", "loop", "failed", "restarting",
           "telling", "closing", "draining", "returning", "done"}
Messages == {"user", "Started", "Restarting", "Stopping", "ActorFailed", "forceRestart"}

TypeOK ==
  /\ cell \in [Cells -> [name : Names \cup {NoName}, parent : Cells \cup {NoCell},
                         at : Places, box : Seq(Messages), closed : BOOLEAN,
                         stop : BOOLEAN, children : Seq(Cells), todo : Seq(Cells),
                         starts : 0..MaxStarts]]
  /\ spawned \in 0..MaxCells
  /\ registry \in [Names -> Cells \cup {NoCell}]
  /\ restarts \in [Names -> 0..MaxRestarts]
  /\ shutdown \in [at : {"idle", "stopping", "returned"}, todo : SUBSET Cells]
  /\ tells \in 0..MaxTells /\ crashed \in BOOLEAN /\ reused \subseteq Names

\* Lookup never finds an actor that has ended, nor one of another name, however
\* often a name is used and however actors end.
LookupFindsTheLiving ==
  \A n \in Names : registry[n] # NoCell =>
    Published(registry[n]) /\ cell[registry[n]].name = n

\* As long as its name is not given to a second actor at the same time, a
\* running actor can be found, stopped and shut down.
TheLivingAreFound ==
  \A c \in Cells : Published(c) /\ cell[c].name \notin reused =>
    registry[cell[c].name] = c

\* An actor that is stopped has been given every message its mailbox accepted,
\* and accepts none afterwards.
AcceptedIsHandled ==
  \A c \in Cells : cell[c].closed /\ cell[c].at \in {"returning", "done"} => cell[c].box = <<>>

\* Failures never make an actor restart without end: besides its own restarts,
\* limited by the tracker, it only makes those its siblings' restarts force on
\* it, which are limited in turn (while one window holds them all).  Siblings
\* find each other by their parent's name, so that the children of an earlier
\* actor of that name are of the family.
RestartsAreBounded ==
  WindowHolds /\ reused = {} =>
    \A c \in 1..spawned :
      LET family == {d \in 1..spawned : ParentOf[cell[d].name] = ParentOf[cell[c].name]} IN
      cell[c].starts <= 1 + MaxRestarts * (1 + Cardinality(family))

\* Actors that Shutdown does not know of: spawned after it looked, or hidden
\* by another of their name when it looked.
Strays == {c \in Cells : Published(c) /\ ~cell[c].stop /\ c \notin shutdown.todo}

\* Shutdown only ever waits for strays: as long as there are none, every actor
\* it has stopped ends, by OnStop or by a failure, and Shutdown returns.
ShutdownWaitsForStraysOnly ==
  []<>(shutdown.at # "stopping" \/ crashed \/ Strays # {})
=============================================================================
