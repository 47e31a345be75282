------------------------------- MODULE Mailbox -------------------------------
(***************************************************************************)
(* The three mailboxes of actor-framework/mailbox.go, with the senders     *)
(* that call Enqueue, the owner that reads Messages(), and Close.          *)
(*                                                                         *)
(* The unbounded and the priority mailbox need a goroutine in process().   *)
(* NewMailbox does not start it and nobody else does; the model has both   *)
(* the mailbox as it is made (proc.at = "none") and as it is meant to be   *)
(* used.  Messages are numbered in the order in which Enqueue is called.   *)
(* The size that Len() returns is left out: nobody decides by it.          *)
(***************************************************************************)
EXTENDS Naturals, Sequences, FiniteSets

CONSTANTS
  Senders,
  Capacity,     \* of the bounded mailbox
  InCap,        \* of the unbounded mailbox's in channel (16)
  OutCap,       \* of the priority mailbox's out channel (16)
  MaxMessages,  \* bound on the calls of Enqueue: no load lasts for ever
  Urgent        \* the messages PriorityFunc puts before the others

ASSUME MailboxAssumption ==
  /\ Capacity \in Nat \ {0} /\ InCap \in Nat \ {0} /\ OutCap \in Nat \ {0}
  /\ MaxMessages \in Nat /\ Urgent \subseteq Nat

NoMessage == 0
MessageIds == 1..MaxMessages

VARIABLES
  kind,       \* which of the three NewMailbox has made
  closed,
  in,         \* boundedMailbox.ch, unboundedMailbox.in
  heap,       \* priorityMailbox.pq, a set: a heap orders nothing but its top
  signal,     \* is there a token in priorityMailbox.signal?
  proc,       \* the goroutine in process(): [at, queue, hand]
  out,        \* priorityMailbox.out; the out of the unbounded one has no buffer
  sender,     \* sender[s]: where s is in Enqueue, and with which message
  calls,      \* calls of Enqueue so far
  accepted,   \* ghost: the messages whose Enqueue has succeeded, in order
  delivered,  \* ghost: the messages the owner has read, in order
  passed      \* ghost: passed[m]: less urgent messages read while m waited

boxVars == <<kind, closed, in, heap, signal, proc, out, sender, calls,
             accepted, delivered, passed>>

Elements(s) == {s[i] : i \in DOMAIN s}

Idle == [at |-> "idle", msg |-> NoMessage]

BoxInit ==
  /\ kind \in {"bounded", "unbounded", "priority"}
  /\ \E at \in IF kind = "bounded" THEN {"none"} ELSE {"none", "waiting"} :
       proc = [at |-> at, queue |-> <<>>, hand |-> NoMessage]
  /\ closed = FALSE /\ in = <<>> /\ heap = {} /\ signal = FALSE /\ out = <<>>
  /\ sender = [s \in Senders |-> Idle]
  /\ calls = 0 /\ accepted = <<>> /\ delivered = <<>>
  /\ passed = [m \in MessageIds |-> 0]

-----------------------------------------------------------------------------
(* Senders. *)

\* s, who is in no other call, calls Enqueue
Called(s, k) ==
  /\ kind = k /\ sender[s].at = "idle" /\ calls < MaxMessages
  /\ calls' = calls + 1

\* ErrMailboxClosed or ErrMailboxFull
Refused == UNCHANGED <<in, heap, signal, sender, accepted>>

BoundedEnqueue(s) ==
  /\ Called(s, "bounded")
  /\ \/ (closed \/ Len(in) = Capacity) /\ Refused
     \/ /\ ~closed /\ Len(in) < Capacity
        /\ in' = Append(in, calls')
        /\ accepted' = Append(accepted, calls')
        /\ UNCHANGED <<heap, signal, sender>>
  /\ UNCHANGED <<kind, closed, proc, out, delivered, passed>>

\* the check, under the lock
UnboundedEnqueue(s) ==
  /\ Called(s, "unbounded")
  /\ \/ closed /\ Refused
     \/ /\ ~closed
        /\ sender' = [sender EXCEPT ![s] = [at |-> "sending", msg |-> calls']]
        /\ UNCHANGED <<in, heap, signal, accepted>>
  /\ UNCHANGED <<kind, closed, proc, out, delivered, passed>>

\* the send, after the lock is released: it waits for room, and panics when the
\* channel has been closed meanwhile
UnboundedSend(s) ==
  /\ sender[s].at = "sending"
  /\ \/ /\ closed
        /\ sender' = [sender EXCEPT ![s].at = "panicked"]
        /\ UNCHANGED <<in, accepted>>
     \/ /\ ~closed /\ Len(in) < InCap
        /\ in' = Append(in, sender[s].msg)
        /\ accepted' = Append(accepted, sender[s].msg)
        /\ sender' = [sender EXCEPT ![s] = Idle]
  /\ UNCHANGED <<kind, closed, heap, signal, proc, out, calls, delivered, passed>>

PriorityEnqueue(s) ==
  /\ Called(s, "priority")
  /\ \/ closed /\ Refused
     \/ /\ ~closed
        /\ heap' = heap \cup {calls'}
        /\ signal' = TRUE
        /\ accepted' = Append(accepted, calls')
        /\ UNCHANGED <<in, sender>>
  /\ UNCHANGED <<kind, closed, proc, out, delivered, passed>>

Close ==
  /\ ~closed
  /\ closed' = TRUE
  /\ UNCHANGED <<kind, in, heap, signal, proc, out, sender, calls, accepted, delivered, passed>>

-----------------------------------------------------------------------------
(* unboundedMailbox.process *)

Store ==
  /\ kind = "unbounded" /\ proc.at = "waiting" /\ in # <<>>
  /\ proc' = [proc EXCEPT !.queue = Append(@, Head(in))]
  /\ in' = Tail(in)
  /\ UNCHANGED <<kind, closed, heap, signal, out, sender, calls, accepted, delivered, passed>>

\* the closed channel is empty: what is in the queue is still sent
SeeClosed ==
  /\ kind = "unbounded" /\ proc.at = "waiting" /\ closed /\ in = <<>>
  /\ proc' = [proc EXCEPT !.at = "sending"]
  /\ UNCHANGED <<kind, closed, in, heap, signal, out, sender, calls, accepted, delivered, passed>>

ProcessEnds ==
  /\ kind = "unbounded" /\ proc.at = "sending" /\ proc.queue = <<>>
  /\ proc' = [proc EXCEPT !.at = "ended"]
  /\ UNCHANGED <<kind, closed, in, heap, signal, out, sender, calls, accepted, delivered, passed>>

-----------------------------------------------------------------------------
(* priorityMailbox.process *)

\* a token, or the closed channel when there is no token left
Wake ==
  /\ kind = "priority" /\ proc.at = "waiting" /\ (signal \/ closed)
  /\ signal' = FALSE
  /\ proc' = [proc EXCEPT !.at = IF signal THEN "popping" ELSE "popping last"]
  /\ UNCHANGED <<kind, closed, in, heap, out, sender, calls, accepted, delivered, passed>>

Popping == proc.at \in {"popping", "popping last"} /\ proc.hand = NoMessage

\* Faulty: the arguments are swapped.
Less_Reversed(a, b) == b \in Urgent /\ a \notin Urgent

\* msgHeap.Less with the owner's PriorityFunc
Less(a, b) == a \in Urgent /\ b \notin Urgent

Pop ==
  /\ Popping
  /\ \E m \in heap :
       /\ \A n \in heap : ~Less(n, m)
       /\ heap' = heap \ {m}
       /\ proc' = [proc EXCEPT !.hand = m]
  /\ UNCHANGED <<kind, closed, in, signal, out, sender, calls, accepted, delivered, passed>>

\* m.out <- msg, without the lock
PutOut ==
  /\ proc.hand # NoMessage /\ Len(out) < OutCap
  /\ out' = Append(out, proc.hand)
  /\ proc' = [proc EXCEPT !.hand = NoMessage]
  /\ UNCHANGED <<kind, closed, in, heap, signal, sender, calls, accepted, delivered, passed>>

\* Faulty: process returns when the heap is empty for the first time.
PoppedAll_Once ==
  /\ Popping /\ heap = {}
  /\ proc' = [proc EXCEPT !.at = "ended"]
  /\ UNCHANGED <<kind, closed, in, heap, signal, out, sender, calls, accepted, delivered, passed>>

PoppedAll ==
  /\ Popping /\ heap = {}
  /\ proc' = [proc EXCEPT !.at = IF @ = "popping" THEN "waiting" ELSE "ended"]
  /\ UNCHANGED <<kind, closed, in, heap, signal, out, sender, calls, accepted, delivered, passed>>

-----------------------------------------------------------------------------
(* The owner. *)

\* the urgent messages that wait while m is read
Waiting(m) ==
  {u \in (Urgent \cap Elements(accepted)) \ Elements(delivered) : m \notin Urgent}

Read(m) ==
  /\ delivered' = Append(delivered, m)
  /\ passed' = [u \in MessageIds |-> IF u \in Waiting(m) THEN passed[u] + 1 ELSE passed[u]]
  /\ UNCHANGED <<kind, closed, heap, signal, sender, calls, accepted>>

ReadBounded ==
  /\ kind = "bounded" /\ in # <<>>
  /\ in' = Tail(in)
  /\ Read(Head(in))
  /\ UNCHANGED <<proc, out>>

\* the owner receives what process sends at that moment
ReadUnbounded ==
  /\ kind = "unbounded" /\ proc.at \in {"waiting", "sending"} /\ proc.queue # <<>>
  /\ proc' = [proc EXCEPT !.queue = Tail(@)]
  /\ Read(Head(proc.queue))
  /\ UNCHANGED <<in, out>>

ReadPriority ==
  /\ kind = "priority" /\ out # <<>>
  /\ out' = Tail(out)
  /\ Read(Head(out))
  /\ UNCHANGED <<in, proc>>

Owner == ReadBounded \/ ReadUnbounded \/ ReadPriority

Process == Store \/ SeeClosed \/ ProcessEnds \/ Wake \/ Pop \/ PutOut \/ PoppedAll

BoxNext ==
  \/ \E s \in Senders :
       BoundedEnqueue(s) \/ UnboundedEnqueue(s) \/ UnboundedSend(s) \/ PriorityEnqueue(s)
  \/ Close \/ Process \/ Owner

BoxSpec == BoxInit /\ [][BoxNext]_boxVars

\* Goroutines run, and the owner reads as runActor's message loop does.
BoxFairness == WF_boxVars(Process) /\ WF_boxVars(Owner)

-----------------------------------------------------------------------------
(* Properties. *)

BoxTypeOK ==
  /\ kind \in {"bounded", "unbounded", "priority"}
  /\ closed \in BOOLEAN /\ signal \in BOOLEAN
  /\ in \in Seq(MessageIds) /\ out \in Seq(MessageIds) /\ heap \subseteq MessageIds
  /\ proc \in [at : {"none", "waiting", "sending", "popping", "popping last", "ended"},
               queue : Seq(MessageIds), hand : MessageIds \cup {NoMessage}]
  /\ sender \in [Senders -> [at : {"idle", "sending", "panicked"},
                             msg : MessageIds \cup {NoMessage}]]
  /\ calls \in 0..MaxMessages
  /\ accepted \in Seq(MessageIds) /\ delivered \in Seq(MessageIds)
  /\ passed \in [MessageIds -> Nat]

\* the accepted messages on their way through the priority mailbox
UnderWay == heap \cup Elements(out) \cup ({proc.hand} \ {NoMessage})

\* Close at any moment, senders that overtake each other between the check and
\* the send, full channels: a message that Enqueue has accepted is read once, in
\* the order of acceptance; in the priority mailbox no message is lost, and an
\* urgent one is overtaken by no more others than fit into the out channel and
\* the hand of process().
DeliveredInOrder ==
  /\ kind # "priority" => accepted = delivered \o proc.queue \o in
  /\ kind = "priority" =>
       /\ Elements(accepted) = Elements(delivered) \cup UnderWay
       /\ Len(accepted) = Len(delivered) + Cardinality(UnderWay)
       /\ \A m \in Urgent \cap MessageIds : passed[m] <= OutCap + 1

\* a message is accepted that the heap may pop before m
AcceptedBefore(m) == kind = "priority" /\ accepted' # accepted /\ ~Less(m, calls')

\* What a mailbox has accepted its owner gets, closed or not: the bounded one as
\* it is, the other two once somebody runs their process().  The heap gives the
\* most urgent message first, and of equals any: in the priority mailbox a message
\* may starve if others that do not rank below it are accepted again and again.
\* Within MaxMessages they are not, so this way out is never taken in a run.
AcceptedIsDelivered ==
  \A m \in MessageIds :
    \/ []<><<AcceptedBefore(m)>>_boxVars
    \/ (m \in Elements(accepted) /\ (kind = "bounded" \/ proc.at # "none")) ~> (m \in Elements(delivered))
=============================================================================
