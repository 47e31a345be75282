----------------------------- MODULE RemoteCalls -----------------------------
(***************************************************************************)
(* Calls of remote actors: RemoteClient with its connection pool and the   *)
(* type registry, RemoteServer, localActorRef.Ask, and what dispatch makes *)
(* of a question (remote/client.go, server.go, registry.go, system.go).    *)
(*                                                                         *)
(* Every call runs in a goroutine of its own at the client, and in one of  *)
(* gRPC's at the server, which goes on when the client has given up.  One  *)
(* actor lives at each address.  Its handlers are left open: they reply    *)
(* never, once or more often, and may panic.                               *)
(***************************************************************************)
EXTENDS Naturals, Sequences, FiniteSets

CONSTANTS
  Addresses,
  Invalid,      \* the addresses grpc.NewClient refuses
  MailboxCap,
  MaxCalls,     \* bound on the calls
  MaxReplies    \* bound on the replies of a handler to one message

ASSUME CallsAssumption ==
  /\ Addresses # {} /\ Invalid \subseteq Addresses
  /\ MailboxCap \in Nat \ {0} /\ MaxCalls \in Nat /\ MaxReplies \in Nat

Calls == 1..MaxCalls
NoCall == 0
NoConn == 0

\* What the registry tells apart: a value json.Marshal refuses (NaN, infinity),
\* a type the receiving process has not registered, and all others.  No nil: Encode
\* would panic on one, but nothing in the program sends or answers nil.
Payloads == {"plain", "unencodable", "unregistered"}

VARIABLES
  call,     \* call[q]: the client's side: [at, kind, to, conn]
  serving,  \* serving[q]: the server's goroutine, and the answer it returns
  conns,    \* conns[a]: ConnectionPool.conns, the number of a connection
  opened,   \* connections created, per address
  actor,    \* actor[a]: [at, box, message, replyFn, prev, replies]
  replyCh,  \* replyCh[q]: the channel, of capacity one, Ask waits for
  derailed  \* ghost: the questions whose handling ended in a panic

callVars == <<call, serving, conns, opened, actor, replyCh, derailed>>

NoAnswer == [of |-> NoCall, payload |-> "plain"]

CallsInit ==
  /\ call = [q \in Calls |-> [at |-> "unused", kind |-> "Tell", to |-> CHOOSE a \in Addresses : TRUE,
                              payload |-> "plain", conn |-> NoConn]]
  /\ serving = [q \in Calls |-> [at |-> "none", answer |-> NoAnswer]]
  /\ conns = [a \in Addresses |-> NoConn]
  /\ opened = [a \in Addresses |-> 0]
  /\ actor = [a \in Addresses |-> [at |-> "idle", box |-> <<>>, message |-> NoCall,
                                   replyFn |-> NoCall, prev |-> NoCall, replies |-> 0]]
  /\ replyCh = [q \in Calls |-> <<>>]
  /\ derailed = {}

Encodes(payload) == payload # "unencodable"
Decodes(payload) == payload = "plain"

-----------------------------------------------------------------------------
(* The client: RemoteClient.Tell and Ask up to the call, ConnectionPool.get *)

ClientGoes(q, from, to) == call[q].at = from /\ call' = [call EXCEPT ![q].at = to]

\* a goroutine encodes a message and looks for a connection, under RLock; calls
\* are numbered as they begin
Begin(q) ==
  /\ call[q].at = "unused" /\ \A p \in 1..(q - 1) : call[p].at # "unused"
  /\ \E m \in Payloads :
       \/ ~Encodes(m) /\ call' = [call EXCEPT ![q].at = "failed"]
       \/ /\ Encodes(m)
          /\ \E k \in {"Tell", "Ask"}, a \in Addresses :
               call' = [call EXCEPT ![q] = [at |-> IF conns[a] # NoConn THEN "sent" ELSE "locking",
                                            kind |-> k, to |-> a, payload |-> m, conn |-> conns[a]]]
  /\ UNCHANGED <<serving, conns, opened, actor, replyCh, derailed>>

\* Faulty: no second look under the write lock.
MakeConn_Unchecked(q) ==
  LET a == call[q].to IN
  /\ call[q].at = "locking"
  /\ \/ /\ a \in Invalid
        /\ call' = [call EXCEPT ![q].at = "failed"]
        /\ UNCHANGED <<conns, opened>>
     \/ /\ a \notin Invalid
        /\ opened' = [opened EXCEPT ![a] = @ + 1]
        /\ conns' = [conns EXCEPT ![a] = opened'[a]]
        /\ call' = [call EXCEPT ![q].at = "sent", ![q].conn = opened'[a]]
  /\ UNCHANGED <<serving, actor, replyCh, derailed>>

\* the second look, and the creation, under the write lock
MakeConn(q) ==
  LET a == call[q].to IN
  /\ call[q].at = "locking"
  /\ \/ /\ conns[a] # NoConn
        /\ call' = [call EXCEPT ![q].at = "sent", ![q].conn = conns[a]]
        /\ UNCHANGED <<conns, opened>>
     \/ /\ conns[a] = NoConn /\ a \in Invalid
        /\ call' = [call EXCEPT ![q].at = "failed"]
        /\ UNCHANGED <<conns, opened>>
     \/ /\ conns[a] = NoConn /\ a \notin Invalid
        /\ opened' = [opened EXCEPT ![a] = @ + 1]
        /\ conns' = [conns EXCEPT ![a] = opened'[a]]
        /\ call' = [call EXCEPT ![q].at = "sent", ![q].conn = opened'[a]]
  /\ UNCHANGED <<serving, actor, replyCh, derailed>>

\* the context's deadline, or the connection breaks: what the server does goes on
GiveUp(q) ==
  /\ ClientGoes(q, "sent", "failed")
  /\ UNCHANGED <<serving, conns, opened, actor, replyCh, derailed>>

\* the server's result; the answer has to be decoded
Result(q) ==
  /\ serving[q].at \in {"answered", "refused"}
  /\ ClientGoes(q, "sent", IF serving[q].at = "answered" /\ Decodes(serving[q].answer.payload)
                             THEN "returned" ELSE "failed")
  /\ UNCHANGED <<serving, conns, opened, actor, replyCh, derailed>>

-----------------------------------------------------------------------------
(* The server: RemoteServer.Tell and Ask, localActorRef.Ask *)

\* localActorRef drops the error of Enqueue
Enqueued(a, q) ==
  IF actor[a].at # "ended" /\ Len(actor[a].box) < MailboxCap
  THEN [actor EXCEPT ![a].box = Append(@, q)] ELSE actor

\* the request arrives, perhaps after its client has given up: Lookup, Decode
Serve(q) ==
  LET a == call[q].to
      found == actor[a].at # "ended" /\ Decodes(call[q].payload) IN
  /\ call[q].conn # NoConn /\ serving[q].at = "none"
  /\ serving' = [serving EXCEPT ![q].at =
                   IF ~found THEN "refused" ELSE IF call[q].kind = "Ask" THEN "asking" ELSE "answered"]
  /\ actor' = IF found THEN Enqueued(a, q) ELSE actor
  /\ UNCHANGED <<call, conns, opened, replyCh, derailed>>

\* Ask receives an answer, which is encoded
TakeAnswer(q) ==
  /\ serving[q].at = "asking" /\ replyCh[q] # <<>>
  /\ LET answer == Head(replyCh[q]) IN
     serving' = [serving EXCEPT ![q] =
                   IF Encodes(answer.payload) THEN [at |-> "answered", answer |-> answer]
                   ELSE [at |-> "refused", answer |-> NoAnswer]]
  /\ replyCh' = [replyCh EXCEPT ![q] = <<>>]
  /\ UNCHANGED <<call, conns, opened, actor, derailed>>

\* the 30 seconds of RemoteServer.Ask, whatever the client's context says
AskTimeout(q) ==
  /\ serving[q].at = "asking"
  /\ serving' = [serving EXCEPT ![q].at = "refused"]
  /\ UNCHANGED <<call, conns, opened, actor, replyCh, derailed>>

-----------------------------------------------------------------------------
(* The actor: dispatch and actorContext.Reply *)

IsAsk(q) == call[q].kind = "Ask"

\* dispatch sets the reply function for a question only
TakeCall(a) ==
  LET q == Head(actor[a].box) IN
  /\ actor[a].at = "idle" /\ actor[a].box # <<>>
  /\ actor' = [actor EXCEPT ![a] =
                 [at |-> "handling", box |-> Tail(actor[a].box), message |-> q,
                  replyFn |-> IF IsAsk(q) THEN q ELSE actor[a].replyFn,
                  prev |-> actor[a].replyFn, replies |-> 0]]
  /\ UNCHANGED <<call, serving, conns, opened, replyCh, derailed>>

\* the handler calls Reply, which does nothing without a reply function
Reply(a) ==
  /\ actor[a].at = "handling" /\ actor[a].replyFn # NoCall /\ actor[a].replies < MaxReplies
  /\ actor' = [actor EXCEPT ![a].at = "replying", ![a].replies = @ + 1]
  /\ UNCHANGED <<call, serving, conns, opened, replyCh, derailed>>

\* ask.ReplyTo <- response: the actor waits while the channel is full
PutReply(a) ==
  LET q == actor[a].replyFn IN
  /\ actor[a].at = "replying" /\ replyCh[q] = <<>>
  /\ \E m \in Payloads :
       replyCh' = [replyCh EXCEPT ![q] = <<[of |-> actor[a].message, payload |-> m]>>]
  /\ actor' = [actor EXCEPT ![a].at = "handling"]
  /\ UNCHANGED <<call, serving, conns, opened, derailed>>

\* Faulty: the reply function is not taken back.
Handled_KeepsReplyFn(a) ==
  /\ actor[a].at = "handling"
  /\ actor' = [actor EXCEPT ![a].at = "idle"]
  /\ UNCHANGED <<call, serving, conns, opened, replyCh, derailed>>

\* the handler returns: dispatch puts the former reply function back
Handled(a) ==
  /\ actor[a].at = "handling"
  /\ actor' = [actor EXCEPT ![a].at = "idle",
                            ![a].replyFn = IF IsAsk(actor[a].message) THEN actor[a].prev ELSE @]
  /\ UNCHANGED <<call, serving, conns, opened, replyCh, derailed>>

\* the handler panics: the reply function stays, whether the supervisor lets the
\* actor go on or restarts it; without one it ends
Panic(a) ==
  /\ actor[a].at = "handling"
  /\ derailed' = IF IsAsk(actor[a].message) THEN derailed \cup {actor[a].message} ELSE derailed
  /\ \E at \in {"idle", "ended"} : actor' = [actor EXCEPT ![a].at = at]
  /\ UNCHANGED <<call, serving, conns, opened, replyCh>>

\* the actor is stopped, after the messages it had
StopActor(a) ==
  /\ actor[a].at = "idle" /\ actor[a].box = <<>>
  /\ actor' = [actor EXCEPT ![a].at = "ended"]
  /\ UNCHANGED <<call, serving, conns, opened, replyCh, derailed>>

-----------------------------------------------------------------------------

CallsNext ==
  \/ \E q \in Calls : Begin(q) \/ MakeConn(q) \/ GiveUp(q) \/ Result(q)
                      \/ Serve(q) \/ TakeAnswer(q) \/ AskTimeout(q)
  \/ \E a \in Addresses : TakeCall(a) \/ Reply(a) \/ PutReply(a) \/ Handled(a) \/ Panic(a)
                          \/ StopActor(a)

CallsSpec == CallsInit /\ [][CallsNext]_callVars

-----------------------------------------------------------------------------
(* Properties. *)

Answers == [of : Calls \cup {NoCall}, payload : Payloads]

CallsTypeOK ==
  /\ call \in [Calls -> [at : {"unused", "locking", "sent", "returned", "failed"},
                         kind : {"Tell", "Ask"}, to : Addresses, payload : Payloads, conn : Nat]]
  /\ serving \in [Calls -> [at : {"none", "asking", "answered", "refused"}, answer : Answers]]
  /\ conns \in [Addresses -> Nat] /\ opened \in [Addresses -> Nat]
  /\ actor \in [Addresses -> [at : {"idle", "handling", "replying", "ended"}, box : Seq(Calls),
                              message : Calls \cup {NoCall}, replyFn : Calls \cup {NoCall},
                              prev : Calls \cup {NoCall}, replies : 0..MaxReplies]]
  /\ replyCh \in [Calls -> Seq(Answers)]
  /\ derailed \subseteq Calls

\* However many goroutines call a new address at once, one connection to it is
\* made, and every call that goes out uses that one.
OneConnectionPerAddress ==
  /\ \A a \in Addresses : opened[a] <= 1
  /\ \A q \in Calls : call[q].conn \in {NoConn, conns[call[q].to]}

\* the answer a caller was given belongs to its question
AnswersOwnQuestion(q) == serving[q].answer.of \in {NoCall, q}

\* the actor at a is in a Reply for which there is no room and nobody who waits
Stuck(a) ==
  LET q == actor[a].replyFn IN
  actor[a].at = "replying" /\ serving[q].at # "asking" /\ replyCh[q] # <<>>

\* Timeouts, late replies and further messages to the same actor never give a
\* caller the answer to another one's question, and never leave an actor in a
\* Reply for ever, if its handler replies once to a message; except for a
\* question whose handler panicked: its reply function is not taken back, so what
\* the actor replies to later messages goes there.
QuestionsAreKeptApart ==
  /\ \A q \in Calls \ derailed : AnswersOwnQuestion(q)
  /\ \A a \in Addresses : Stuck(a) => actor[a].replies > 1 \/ actor[a].replyFn \in derailed
=============================================================================
