-------------------------- MODULE MembershipProofs --------------------------
(***************************************************************************)
(* Proofs about Membership: for every number of clients, every interval    *)
(* and every bound, the types, the meaning of version zero, that nothing   *)
(* revives a suspected member, and that a scan leaves no silent member     *)
(* alive; for a pair of nodes, that neither suspects the other.            *)
(***************************************************************************)
EXTENDS Membership, SequenceTheorems, TLAPS

\* The types are preserved by every action on their own.
LEMMA TypeInit == Init => TypeOK
  BY MembershipAssumption
     DEF Init, TypeOK, FirstList, Lists, Info, Changes, Nodes, Entry, Unknown, Never

\* What Merge keeps or takes: an entry of one of the two lists.
LEMMA MergeType ==
  ASSUME NEW list \in Lists, NEW incoming \in Lists
  PROVE  /\ Merge(list, incoming) \in Lists
         /\ \A m \in Newer(list, incoming) : incoming[m] \in Info
  BY DEF Merge, Newer, Lists, Info, Unknown, Entry

\* What the detector writes of a member it has not heard of: never that it is
\* alive, and never with version zero.
LEMMA RaisedType ==
  ASSUME NEW x \in Snapshots, NEW silent
  PROVE  /\ Judged(silent) \in {"suspected", "dead"}
         /\ Raised(x, Judged(silent)) \in Info
         /\ Raised(x, Judged(silent)).status \in {"suspected", "dead"}
         /\ Raised(x, Judged(silent)).version # 0
<1>1. Judged(silent) \in {"suspected", "dead"}
  BY DEF Judged
<1>2. x.version \in 0..MaxVersion /\ MaxVersion \in Nat \ {0}
  BY MembershipAssumption DEF Snapshots
<1>3. Bump(x.version) \in 1..MaxVersion
  BY <1>2 DEF Bump
<1> QED BY <1>1, <1>3 DEF Raised, Entry, Info

\* A look at an entry judges it if its member is overdue, and writes nothing.
LEMMA ScanMemberEffect ==
  ASSUME TypeOK, NEW n \in Nodes, ScanMember(n)
  PROVE  \E x \in scan[n], e \in Info :
           /\ x.node \in Nodes
           /\ scan' = [scan EXCEPT ![n] = @ \ {x}]
           /\ e.status \in {"suspected", "dead"} /\ e.version # 0
           /\ \/ /\ Overdue(age[n][x.node])
                 /\ judged' = [judged EXCEPT ![n] = {[node |-> x.node, entry |-> e]}]
              \/ ~Overdue(age[n][x.node]) /\ judged' = judged
<1>1. PICK x \in scan[n] :
        /\ scan' = [scan EXCEPT ![n] = @ \ {x}]
        /\ \/ /\ Overdue(age[n][x.node])
              /\ judged' = [judged EXCEPT ![n] =
                   {[node |-> x.node, entry |-> Raised(x, Judged(age[n][x.node]))]}]
           \/ ~Overdue(age[n][x.node]) /\ judged' = judged
  BY DEF ScanMember
<1>2. x \in Snapshots /\ x.node \in Nodes
  BY DEF TypeOK, Snapshots
<1> DEFINE e == Raised(x, Judged(age[n][x.node]))
<1>3. e \in Info /\ e.status \in {"suspected", "dead"} /\ e.version # 0
  BY <1>2, RaisedType
<1>4. \/ /\ Overdue(age[n][x.node])
         /\ judged' = [judged EXCEPT ![n] = {[node |-> x.node, entry |-> e]}]
      \/ ~Overdue(age[n][x.node]) /\ judged' = judged
  BY <1>1
<1> HIDE DEF e
<1> QED BY <1>1, <1>2, <1>3, <1>4

\* What was judged is written, and nothing else.
LEMMA ScanWriteEffect ==
  ASSUME TypeOK, NEW n \in Nodes, ScanWrite(n)
  PROVE  \E x \in judged[n] :
           /\ x.node \in Nodes /\ x.entry \in Info
           /\ judged' = [judged EXCEPT ![n] = @ \ {x}]
           /\ members' = [members EXCEPT ![n][x.node] = x.entry]
           /\ verdict' = [verdict EXCEPT ![n] = Notices(n, x, x.entry.status)]
           /\ \A k, m \in Nodes :
                members'[k][m] = IF k = n /\ m = x.node THEN x.entry ELSE members[k][m]
<1>1. PICK x \in judged[n] :
        /\ judged' = [judged EXCEPT ![n] = @ \ {x}]
        /\ members' = [members EXCEPT ![n][x.node] = x.entry]
        /\ verdict' = [verdict EXCEPT ![n] = Notices(n, x, x.entry.status)]
  BY DEF ScanWrite
<1>2. x.node \in Nodes /\ x.entry \in Info
  BY DEF TypeOK, Judgements
<1>3. members \in [Nodes -> Lists] /\ members[n] \in [Nodes -> Info \cup {Unknown}]
  BY DEF TypeOK, Lists
<1>4. ASSUME NEW k \in Nodes, NEW m \in Nodes
      PROVE  members'[k][m] = IF k = n /\ m = x.node THEN x.entry ELSE members[k][m]
  BY <1>1, <1>2, <1>3
<1> QED BY <1>1, <1>2, <1>4

\* Receiving merges the list of a well-formed message and renews its sender.
LEMMA ReceiveEffect ==
  ASSUME TypeOK, NEW n \in Nodes, Receive(n)
  PROVE  \E msg \in Messages :
           /\ msg = inbox[n][1] /\ 1 \in DOMAIN inbox[n]
           /\ msg.sender \in Nodes /\ msg.list \in Lists
           /\ inbox' = [inbox EXCEPT ![n] = Tail(@)]
           /\ members' = [members EXCEPT ![n] = Merge(@, msg.list)]
           /\ age' = [age EXCEPT ![n][msg.sender] = 0]
<1>1. inbox[n] \in Seq(Messages) /\ inbox[n] # <<>>
  BY DEF Receive, TypeOK
<1>2. Head(inbox[n]) \in Messages /\ Head(inbox[n]) = inbox[n][1] /\ 1 \in DOMAIN inbox[n]
  BY <1>1, HeadTailProperties, LenProperties
<1>3. Head(inbox[n]).sender \in Nodes /\ Head(inbox[n]).list \in Lists
  BY <1>2 DEF Messages
<1>4. /\ inbox' = [inbox EXCEPT ![n] = Tail(@)]
      /\ members' = [members EXCEPT ![n] = Merge(@, Head(inbox[n]).list)]
      /\ age' = [age EXCEPT ![n][Head(inbox[n]).sender] = 0]
  BY DEF Receive, Seen
<1> QED BY <1>2, <1>3, <1>4

\* Every action of a node, of a Seed, of a process and of the clock keeps the types.
LEMMA TypeStep == TypeOK /\ [Next]_vars => TypeOK'
<1> SUFFICES ASSUME TypeOK, [Next]_vars PROVE TypeOK'
  OBVIOUS
<1> USE MembershipAssumption
<1>1. ASSUME NEW n \in Nodes, GossipNone(n) PROVE TypeOK'
  BY <1>1 DEF GossipNone, TypeOK
<1>2. ASSUME NEW n \in Nodes, Gossip(n) PROVE TypeOK'
  <2>1. PICK msg \in letter[n] :
          inbox' = [inbox EXCEPT ![target[n]] = Append(@, msg)] \/ inbox' = inbox
    BY <1>2 DEF Gossip
  <2>2. msg \in Messages /\ target[n] \in Nodes /\ inbox[target[n]] \in Seq(Messages)
    BY DEF TypeOK
  <2>3. Append(inbox[target[n]], msg) \in Seq(Messages)
    BY <2>2, AppendProperties
  <2> DEFINE longer == Append(inbox[target[n]], msg)
  <2>4. inbox' = [inbox EXCEPT ![target[n]] = longer] \/ inbox' = inbox
    BY <2>1
  <2> HIDE DEF longer
  <2>5. longer \in Seq(Messages)
    BY <2>3 DEF longer
  <2>6. inbox' \in [Nodes -> Seq(Messages)]
    BY <2>2, <2>4, <2>5 DEF TypeOK
  <2> QED BY <1>2, <2>6 DEF Gossip, TypeOK
<1>15. ASSUME NEW n \in Nodes, GossipPick(n) PROVE TypeOK'
  <2>1. PICK m \in Nodes : target' = [target EXCEPT ![n] = m]
    BY <1>15 DEF GossipPick, Peers
  <2>2. target' \in [Nodes -> Nodes]
    BY <2>1 DEF TypeOK
  <2> QED BY <1>15, <2>2 DEF GossipPick, TypeOK
<1>16. ASSUME NEW n \in Nodes, GossipCompose(n) PROVE TypeOK'
  <2> DEFINE msg == [sender |-> n, list |-> members[n]]
  <2>1. msg \in Messages
    BY DEF TypeOK, Messages
  <2>2. letter' = [letter EXCEPT ![n] = {msg}]
    BY <1>16 DEF GossipCompose
  <2> HIDE DEF msg
  <2>3. letter' \in [Nodes -> SUBSET Messages]
    BY <2>1, <2>2 DEF TypeOK
  <2> QED BY <1>16, <2>3 DEF GossipCompose, TypeOK
<1>3. ASSUME NEW n \in Nodes, Receive(n) PROVE TypeOK'
  <2> DEFINE msg == Head(inbox[n])
             news == {[node |-> m, status |-> msg.list[m].status] :
                        m \in Newer(members[n], msg.list)}
  <2>1. /\ inbox[n] \in Seq(Messages) /\ inbox[n] # <<>>
        /\ inbox' = [inbox EXCEPT ![n] = Tail(@)]
        /\ members' = [members EXCEPT ![n] = Merge(@, msg.list)]
        /\ changed' = [changed EXCEPT ![n] = news]
        /\ age' = [age EXCEPT ![n][msg.sender] = 0]
    BY <1>3 DEF Receive, Seen, TypeOK
  <2>2. msg \in Messages /\ Tail(inbox[n]) \in Seq(Messages)
    BY <2>1, HeadTailProperties
  <2>3. members[n] \in Lists /\ msg.list \in Lists /\ msg.sender \in Nodes
    BY <2>2 DEF TypeOK, Messages
  <2>4. Merge(members[n], msg.list) \in Lists
    BY <2>3, MergeType
  <2>5. news \in SUBSET Changes
    BY <2>3, MergeType DEF Newer, Changes, Info
  <2> HIDE DEF msg, news
  <2>6. members' \in [Nodes -> Lists]
    BY <2>1, <2>4 DEF TypeOK
  <2>7. changed' \in [Nodes -> SUBSET Changes]
    BY <2>1, <2>5 DEF TypeOK
  <2>8. age' \in [Nodes -> [Nodes -> {Never} \cup 0..DeadAfter]]
    BY <2>1, <2>3 DEF TypeOK
  <2>9. inbox' \in [Nodes -> Seq(Messages)]
    BY <2>1, <2>2 DEF TypeOK
  <2> QED BY <1>3, <2>6, <2>7, <2>8, <2>9 DEF Receive, TypeOK
<1>4. ASSUME NEW n \in Nodes, NEW x \in Changes, OnChange(n, x)
      PROVE  ring' \in [Nodes -> SUBSET Nodes] /\ downs' \subseteq Nodes
  <2>1. x.node \in Nodes
    BY DEF Changes
  <2> QED BY <1>4, <2>1 DEF OnChange, TypeOK
<1>5. ASSUME NEW n \in Nodes, ReceiveCallback(n) PROVE TypeOK'
  <2>1. PICK x \in changed[n] : changed' = [changed EXCEPT ![n] = @ \ {x}] /\ OnChange(n, x)
    BY <1>5 DEF ReceiveCallback
  <2>2. x \in Changes
    BY DEF TypeOK
  <2>3. ring' \in [Nodes -> SUBSET Nodes] /\ downs' \subseteq Nodes
    BY <1>4, <2>1, <2>2
  <2>4. changed' \in [Nodes -> SUBSET Changes]
    BY <2>1 DEF TypeOK
  <2> QED BY <1>5, <2>3, <2>4 DEF ReceiveCallback, TypeOK
<1>6. ASSUME NEW n \in Nodes, ScanStart(n) PROVE TypeOK'
  <2> DEFINE snapshot == {[node |-> m, version |-> members[n][m].version] :
                            m \in Known(members[n]) \ {n}}
  <2>1. \A m \in Known(members[n]) : m \in Nodes /\ members[n][m].version \in 0..MaxVersion
    BY DEF Known, TypeOK, Lists, Info
  <2>2. snapshot \in SUBSET Snapshots
    BY <2>1 DEF Snapshots
  <2>3. scan' = [scan EXCEPT ![n] = snapshot]
    BY <1>6 DEF ScanStart
  <2> HIDE DEF snapshot
  <2>4. scan' \in [Nodes -> SUBSET Snapshots]
    BY <2>2, <2>3 DEF TypeOK
  <2> QED BY <1>6, <2>4 DEF ScanStart, TypeOK
<1>7. ASSUME NEW n \in Nodes, ScanMember(n) PROVE TypeOK'
  <2>1. PICK x \in scan[n], e \in Info :
          /\ x.node \in Nodes
          /\ scan' = [scan EXCEPT ![n] = @ \ {x}]
          /\ \/ judged' = [judged EXCEPT ![n] = {[node |-> x.node, entry |-> e]}]
             \/ judged' = judged
    BY <1>7, ScanMemberEffect
  <2>2. [node |-> x.node, entry |-> e] \in Judgements
    BY <2>1 DEF Judgements
  <2> DEFINE one == {[node |-> x.node, entry |-> e]}
  <2>5. one \in SUBSET Judgements
    BY <2>2
  <2>6. judged' = [judged EXCEPT ![n] = one] \/ judged' = judged
    BY <2>1
  <2> HIDE DEF one
  <2>3. judged' \in [Nodes -> SUBSET Judgements]
    <3>1. judged \in [Nodes -> SUBSET Judgements]
      BY DEF TypeOK
    <3>2. CASE judged' = judged
      BY <3>1, <3>2
    <3>3. CASE judged' = [judged EXCEPT ![n] = one]
      BY <2>5, <3>1, <3>3
    <3> QED BY <2>6, <3>2, <3>3
  <2>4. scan' \in [Nodes -> SUBSET Snapshots]
    BY <2>1 DEF TypeOK
  <2> QED BY <1>7, <2>3, <2>4 DEF ScanMember, TypeOK
<1>17. ASSUME NEW n \in Nodes, ScanWrite(n) PROVE TypeOK'
  <2>1. PICK x \in judged[n] :
          /\ x.node \in Nodes /\ x.entry \in Info
          /\ judged' = [judged EXCEPT ![n] = @ \ {x}]
          /\ members' = [members EXCEPT ![n][x.node] = x.entry]
          /\ verdict' = [verdict EXCEPT ![n] = Notices(n, x, x.entry.status)]
    BY <1>17, ScanWriteEffect
  <2>2. members' \in [Nodes -> Lists]
    <3>1. members \in [Nodes -> Lists] /\ members[n] \in Lists
      BY DEF TypeOK
    <3>2. [members[n] EXCEPT ![x.node] = x.entry] \in Lists
      BY <2>1, <3>1 DEF Lists
    <3> QED BY <2>1, <3>1, <3>2
  <2>3. Notices(n, x, x.entry.status) \in SUBSET Changes
    BY <2>1 DEF Notices, Changes, Info
  <2>4. verdict' \in [Nodes -> SUBSET Changes]
    BY <2>1, <2>3 DEF TypeOK
  <2>5. judged' \in [Nodes -> SUBSET Judgements]
    BY <2>1 DEF TypeOK
  <2> QED BY <1>17, <2>2, <2>4, <2>5 DEF ScanWrite, TypeOK
<1>8. ASSUME NEW n \in Nodes, ScanCallback(n) PROVE TypeOK'
  <2>1. PICK x \in verdict[n] : verdict' = [verdict EXCEPT ![n] = @ \ {x}] /\ OnChange(n, x)
    BY <1>8 DEF ScanCallback
  <2>2. x \in Changes
    BY DEF TypeOK
  <2>3. ring' \in [Nodes -> SUBSET Nodes] /\ downs' \subseteq Nodes
    BY <1>4, <2>1, <2>2
  <2>4. verdict' \in [Nodes -> SUBSET Changes]
    BY <2>1 DEF TypeOK
  <2> QED BY <1>8, <2>3, <2>4 DEF ScanCallback, TypeOK
<1>9. ASSUME NEW c \in Clients, SeedUpsert(c) PROVE TypeOK'
  <2>1. c \in Nodes /\ Coordinator \in Nodes /\ Entry("alive", 0) \in Info
    BY DEF Nodes, Entry, Info
  <2>2. members' = [members EXCEPT ![Coordinator][c] = Entry("alive", 0)]
    BY <1>9 DEF SeedUpsert
  <2>3. members' \in [Nodes -> Lists]
    BY <2>1, <2>2 DEF TypeOK, Lists
  <2> QED BY <1>9, <2>3 DEF SeedUpsert, TypeOK
<1>10. CASE SeedRing
  BY <1>10 DEF SeedRing, TypeOK, Nodes
<1>11. ASSUME NEW c \in Clients, ClientCrash(c) PROVE TypeOK'
  <2>1. c \in Nodes /\ <<>> \in Seq(Messages)
    BY EmptySeq DEF Nodes
  <2>2. inbox' = [inbox EXCEPT ![c] = <<>>]
    BY <1>11 DEF ClientCrash
  <2>3. inbox' \in [Nodes -> Seq(Messages)]
    BY <2>1, <2>2 DEF TypeOK
  <2> QED BY <1>11, <2>3 DEF ClientCrash, TypeOK
<1>12. ASSUME NEW c \in Clients, ClientRestart(c) PROVE TypeOK'
  <2>1. FirstList(c) \in Lists
    BY DEF FirstList, Lists, Info, Entry, Nodes
  <2>2. c \in Nodes /\ Coordinator \in Nodes
    BY DEF Nodes
  <2> QED BY <1>12, <2>1, <2>2 DEF ClientRestart, TypeOK
<1>13. CASE Tick
  <2>1. age' \in [Nodes -> [Nodes -> {Never} \cup 0..DeadAfter]]
    BY <1>13 DEF Tick, TypeOK
  <2> QED BY <1>13, <2>1 DEF Tick, TypeOK
<1>14. CASE UNCHANGED vars
  BY <1>14 DEF vars, TypeOK
<1> QED
  BY <1>1, <1>2, <1>3, <1>5, <1>6, <1>7, <1>8, <1>9, <1>10, <1>11, <1>12, <1>13, <1>14,
     <1>15, <1>16, <1>17
     DEF Next, Loops, GossipLoop, ReceiveLoop, DetectorLoop, Seed

\* Every variable of the membership keeps its type, in all interleavings.
THEOREM TypeCorrect == Spec => []TypeOK
  BY TypeInit, TypeStep, PTL DEF Spec

-----------------------------------------------------------------------------
(* Version zero. *)

\* a list in which alive and version zero are the same
Honest(list) == \A m \in Nodes : list[m].status = "alive" <=> list[m].version = 0

\* A merge of lists in which alive means version zero is such a list.
LEMMA MergeIsHonest ==
  ASSUME NEW list \in Lists, NEW incoming \in Lists, Honest(list), Honest(incoming)
  PROVE  Honest(Merge(list, incoming))
  BY DEF Merge, Honest

\* A first list holds fresh entries only.
LEMMA AliveInit == Init => AliveIsVersionZero
  BY DEF Init, AliveIsVersionZero, FirstList, Entry, Unknown

\* No action writes an alive entry with a raised version, or another one without.
LEMMA AliveStep ==
  TypeOK /\ TypeOK' /\ AliveIsVersionZero /\ [Next]_vars => AliveIsVersionZero'
<1> SUFFICES ASSUME TypeOK, TypeOK', AliveIsVersionZero, [Next]_vars
             PROVE  AliveIsVersionZero'
  OBVIOUS
<1> DEFINE Lists0 == \A n \in Nodes : Honest(members[n])
           Box0(n) == \A i \in DOMAIN inbox[n] : Honest(inbox[n][i].list)
           Letters0 == \A n \in Nodes : \A msg \in letter[n] : Honest(msg.list)
           Judged0 == \A n \in Nodes : \A x \in judged[n] :
                        x.entry.status # "alive" /\ x.entry.version # 0
<1>0. /\ Lists0 /\ Letters0 /\ Judged0 /\ \A n \in Nodes : Box0(n)
      /\ Lists0' /\ Letters0' /\ Judged0' /\ (\A n \in Nodes : Box0(n)') => AliveIsVersionZero'
  BY DEF AliveIsVersionZero, Honest
<1>1. ASSUME NEW n \in Nodes, Gossip(n) PROVE AliveIsVersionZero'
  <2>1. PICK msg \in letter[n] :
          inbox' = [inbox EXCEPT ![target[n]] = Append(@, msg)] \/ inbox' = inbox
    BY <1>1 DEF Gossip
  <2>2. /\ msg \in Messages /\ Honest(msg.list)
        /\ target[n] \in Nodes /\ inbox[target[n]] \in Seq(Messages)
    BY <1>0 DEF TypeOK
  <2> DEFINE longer == Append(inbox[target[n]], msg)
  <2>3. \A i \in DOMAIN longer : Honest(longer[i].list)
    BY <2>2, <1>0, AppendProperties, LenProperties
  <2>4. inbox' = [inbox EXCEPT ![target[n]] = longer] \/ inbox' = inbox
    BY <2>1
  <2> HIDE DEF longer
  <2>5. \A k \in Nodes : Box0(k)'
    BY <2>3, <2>4, <1>0 DEF TypeOK
  <2>6. members' = members /\ judged' = judged /\ letter' = [letter EXCEPT ![n] = {}]
    BY <1>1 DEF Gossip
  <2>7. Letters0'
    BY <1>0, <2>6 DEF TypeOK
  <2> QED BY <1>0, <2>5, <2>6, <2>7 DEF Honest
<1>2. ASSUME NEW n \in Nodes, Receive(n) PROVE AliveIsVersionZero'
  <2>1. PICK msg \in Messages :
          /\ msg = inbox[n][1] /\ 1 \in DOMAIN inbox[n] /\ msg.list \in Lists
          /\ inbox' = [inbox EXCEPT ![n] = Tail(@)]
          /\ members' = [members EXCEPT ![n] = Merge(@, msg.list)]
    BY <1>2, ReceiveEffect
  <2>2. Honest(Merge(members[n], msg.list)) /\ members[n] \in Lists
    BY <2>1, <1>0, MergeIsHonest DEF TypeOK
  <2>3. Lists0'
    BY <1>0, <2>1, <2>2 DEF TypeOK, Honest
  <2>4. inbox[n] \in Seq(Messages) /\ inbox[n] # <<>>
    BY <1>2 DEF Receive, TypeOK
  <2>5. \A i \in DOMAIN Tail(inbox[n]) : Honest(Tail(inbox[n])[i].list)
    BY <1>0, <2>4, HeadTailProperties, LenProperties
  <2>6. \A k \in Nodes : Box0(k)'
    BY <1>0, <2>1, <2>5 DEF TypeOK, Honest
  <2>7. UNCHANGED <<letter, judged>>
    BY <1>2 DEF Receive
  <2> QED BY <1>0, <2>3, <2>6, <2>7
<1>3. ASSUME NEW n \in Nodes, ScanWrite(n) PROVE AliveIsVersionZero'
  <2>1. PICK x \in judged[n] :
          \A k, m \in Nodes :
            members'[k][m] = IF k = n /\ m = x.node THEN x.entry ELSE members[k][m]
    BY <1>3, ScanWriteEffect
  <2>2. x.entry.status # "alive" /\ x.entry.version # 0
    BY <1>0
  <2>3. Lists0'
    BY <1>0, <2>1, <2>2 DEF Honest
  <2>4. UNCHANGED <<inbox, letter>> /\ \A k \in Nodes : judged'[k] \subseteq judged[k]
    BY <1>3 DEF ScanWrite, TypeOK
  <2>5. Judged0'
    BY <1>0, <2>4
  <2> QED BY <1>0, <2>3, <2>4, <2>5
<1>4. ASSUME NEW c \in Clients, SeedUpsert(c) PROVE AliveIsVersionZero'
  <2>1. members' = [members EXCEPT ![Coordinator][c] = Entry("alive", 0)]
        /\ UNCHANGED <<inbox, letter, judged>>
    BY <1>4 DEF SeedUpsert
  <2>2. c \in Nodes /\ Coordinator \in Nodes
    BY DEF Nodes
  <2>3. Lists0'
    BY <1>0, <2>1, <2>2 DEF TypeOK, Lists, Honest, Entry
  <2> QED BY <1>0, <2>1, <2>3 DEF Honest
<1>5. ASSUME NEW c \in Clients, ClientCrash(c) PROVE AliveIsVersionZero'
  <2>1. /\ members' = members /\ inbox' = [inbox EXCEPT ![c] = <<>>]
        /\ letter' = [letter EXCEPT ![c] = {}] /\ judged' = [judged EXCEPT ![c] = {}]
    BY <1>5 DEF ClientCrash
  <2>2. \A n \in Nodes : Box0(n)'
    BY <1>0, <2>1, EmptySeq DEF TypeOK
  <2>3. Letters0' /\ Judged0'
    BY <1>0, <2>1 DEF TypeOK
  <2> QED BY <1>0, <2>1, <2>2, <2>3
<1>6. ASSUME NEW c \in Clients, ClientRestart(c) PROVE AliveIsVersionZero'
  <2>1. Honest(FirstList(c)) /\ members' = [members EXCEPT ![c] = FirstList(c)]
        /\ UNCHANGED <<inbox, letter, judged>>
    BY <1>6 DEF Honest, FirstList, Entry, Unknown, ClientRestart
  <2>2. Lists0'
    BY <1>0, <2>1 DEF TypeOK, Honest
  <2> QED BY <1>0, <2>1, <2>2 DEF Honest
<1>9. ASSUME NEW n \in Nodes, GossipCompose(n) PROVE AliveIsVersionZero'
  <2>1. /\ UNCHANGED <<members, inbox, judged>>
        /\ letter' = [letter EXCEPT ![n] = {[sender |-> n, list |-> members[n]]}]
    BY <1>9 DEF GossipCompose
  <2>2. Letters0'
    BY <1>0, <2>1 DEF TypeOK
  <2> QED BY <1>0, <2>1, <2>2
<1>10. ASSUME NEW n \in Nodes, ScanMember(n) PROVE AliveIsVersionZero'
  <2>1. PICK x \in scan[n], e \in Info :
          /\ e.status \in {"suspected", "dead"} /\ e.version # 0
          /\ \/ judged' = [judged EXCEPT ![n] = {[node |-> x.node, entry |-> e]}]
             \/ judged' = judged
    BY <1>10, ScanMemberEffect
  <2> DEFINE one == {[node |-> x.node, entry |-> e]}
  <2>4. \A y \in one : y.entry.status # "alive" /\ y.entry.version # 0
    BY <2>1
  <2>5. judged' = [judged EXCEPT ![n] = one] \/ judged' = judged
    BY <2>1
  <2> HIDE DEF one
  <2>2. Judged0'
    <3>1. CASE judged' = judged
      BY <1>0, <3>1
    <3>2. CASE judged' = [judged EXCEPT ![n] = one]
      <4>1. judged'[n] = one /\ \A k \in Nodes : k # n => judged'[k] = judged[k]
        BY <3>2 DEF TypeOK
      <4> QED BY <1>0, <2>4, <4>1
    <3> QED BY <2>5, <3>1, <3>2
  <2>3. UNCHANGED <<members, inbox, letter>>
    BY <1>10 DEF ScanMember
  <2> QED BY <1>0, <2>2, <2>3
<1>7. CASE UNCHANGED <<members, inbox, letter, judged>>
  BY <1>7 DEF AliveIsVersionZero
<1>8. \/ UNCHANGED <<members, inbox, letter, judged>>
      \/ \E n \in Nodes : \/ Receive(n) \/ ScanMember(n) \/ ScanWrite(n)
                          \/ GossipCompose(n) \/ Gossip(n)
      \/ \E c \in Clients : SeedUpsert(c) \/ ClientCrash(c) \/ ClientRestart(c)
  BY DEF Next, vars, Loops, GossipLoop, ReceiveLoop, DetectorLoop, Seed, GossipNone,
         GossipPick, ReceiveCallback, ScanStart, ScanCallback, SeedRing, Tick
<1> QED BY <1>1, <1>2, <1>3, <1>4, <1>5, <1>6, <1>7, <1>8, <1>9, <1>10

\* Alive and version zero are the same everywhere, so no gossip message can
\* refute what a failure detector has written.
THEOREM AliveIsAlwaysVersionZero == Spec => []AliveIsVersionZero
  BY TypeInit, TypeStep, AliveInit, AliveStep, PTL DEF Spec

-----------------------------------------------------------------------------
(* No revival. *)

\* Merge takes higher versions only, and those are never alive.
LEMMA RevivalStep ==
  TypeOK /\ AliveIsVersionZero /\ [Next]_vars => [NoRevivalStep]_vars
<1> SUFFICES ASSUME TypeOK, AliveIsVersionZero, [Next]_vars,
                    NEW n \in Nodes, NEW m \in Nodes,
                    members[n][m].status \in {"suspected", "dead"},
                    members'[n][m].status = "alive"
             PROVE  \/ n = Coordinator /\ m \in joined' \ joined
                    \/ ~up[n] /\ up'[n]
  BY DEF NoRevivalStep
<1>0. members[n] \in Lists /\ members[n][m] \in Info /\ members[n][m].version > 0
  BY DEF TypeOK, AliveIsVersionZero, Lists, Info, Unknown, Entry
<1>1. ASSUME NEW k \in Nodes, Receive(k) PROVE FALSE
  <2>1. PICK msg \in Messages :
          /\ msg = inbox[k][1] /\ 1 \in DOMAIN inbox[k] /\ msg.list \in Lists
          /\ members' = [members EXCEPT ![k] = Merge(@, msg.list)]
    BY <1>1, ReceiveEffect
  <2>2. msg.list[m].status = "alive" <=> msg.list[m].version = 0
    BY <2>1 DEF AliveIsVersionZero
  <2>3. \/ members'[n][m] = members[n][m]
        \/ msg.list[m].version > members[n][m].version /\ members'[n][m] = msg.list[m]
    BY <2>1 DEF Merge, Newer, TypeOK
  <2> QED BY <1>0, <2>2, <2>3 DEF Info
<1>2. ASSUME NEW k \in Nodes, ScanWrite(k) PROVE FALSE
  <2>1. PICK x \in judged[k] :
          members'[n][m] = IF n = k /\ m = x.node THEN x.entry ELSE members[n][m]
    BY <1>2, ScanWriteEffect
  <2>2. x.entry.status # "alive"
    BY DEF AliveIsVersionZero
  <2> QED BY <2>1, <2>2
<1>3. ASSUME NEW c \in Clients, SeedUpsert(c) PROVE n = Coordinator /\ m \in joined' \ joined
  <2>1. members' = [members EXCEPT ![Coordinator][c] = Entry("alive", 0)]
        /\ c \in joined' \ joined
    BY <1>3 DEF SeedUpsert
  <2>2. \A k, l \in Nodes : k # Coordinator \/ l # c => members'[k][l] = members[k][l]
    BY <2>1 DEF TypeOK, Lists
  <2> QED BY <2>1, <2>2
<1>4. ASSUME NEW c \in Clients, ClientRestart(c) PROVE ~up[n] /\ up'[n]
  <2>1. /\ members' = [members EXCEPT ![c] = FirstList(c)]
        /\ ~up[c] /\ up' = [up EXCEPT ![c] = TRUE]
    BY <1>4 DEF ClientRestart
  <2>2. \A k \in Nodes \ {c} : members'[k] = members[k]
    BY <2>1 DEF TypeOK
  <2> QED BY <2>1, <2>2 DEF TypeOK
<1>5. \/ members' = members
      \/ \E k \in Nodes : Receive(k) \/ ScanWrite(k)
      \/ \E c \in Clients : SeedUpsert(c) \/ ClientRestart(c)
  BY DEF Next, vars, Loops, GossipLoop, ReceiveLoop, DetectorLoop, Seed, GossipNone,
         GossipPick, GossipCompose, Gossip, ReceiveCallback, ScanStart, ScanMember,
         ScanCallback, SeedRing, ClientCrash, Tick
<1> QED BY <1>1, <1>2, <1>3, <1>4, <1>5

\* Gossip, scans and crashes in any order never bring a suspected or dead
\* member back to life: only a new join and a new process do.
THEOREM SuspicionIsForGood == Spec => NoRevival
  BY TypeInit, TypeStep, AliveInit, AliveStep, RevivalStep, PTL DEF Spec, NoRevival

-----------------------------------------------------------------------------
(* Silence. *)

\* A node knows itself, whoever sends a list knows itself, and whoever has been
\* heard of is known: so a snapshot holds everybody the detector may judge.
Acquainted ==
  /\ \A n \in Nodes : members[n][n] # Unknown
  /\ \A n \in Nodes : \A i \in DOMAIN inbox[n] :
       inbox[n][i].list[inbox[n][i].sender] # Unknown
  /\ \A n \in Nodes : \A msg \in letter[n] : msg.list[msg.sender] # Unknown
  /\ \A n, m \in Nodes : age[n][m] # Never => members[n][m] # Unknown

\* What makes SilenceIsNoticed inductive: a silent member is either marked in
\* the list, or still to be looked at or to be written by the scan that goes on.
SilenceIsBeingNoticed ==
  \A n \in Clients : \A m \in Nodes \ {n} :
    up[n] /\ n \notin dueScan /\ age[n][m] >= SuspectAfter =>
      \/ members[n][m].status \in {"suspected", "dead"}
      \/ \E x \in scan[n] : x.node = m
      \/ \E x \in judged[n] : x.node = m

\* At first nobody has heard of anybody.
LEMMA AcquaintedInit == Init => Acquainted
  BY DEF Init, Acquainted, FirstList, Entry, Unknown

\* A known member stays known, unless its list is a new process's.
LEMMA StaysKnown ==
  ASSUME TypeOK, [Next]_vars, NEW n \in Nodes, NEW m \in Nodes,
         members[n][m] # Unknown
  PROVE  members'[n][m] # Unknown \/ (n \in Clients /\ ClientRestart(n))
<1>0. members[n][m] \in Info /\ Unknown \notin Info
  BY DEF TypeOK, Lists, Info, Unknown, Entry
<1>1. ASSUME NEW k \in Nodes, Receive(k) PROVE members'[n][m] # Unknown
  <2>1. PICK msg \in Messages :
          /\ msg.list \in Lists
          /\ members' = [members EXCEPT ![k] = Merge(@, msg.list)]
    BY <1>1, ReceiveEffect
  <2>2. \/ members'[n][m] = members[n][m]
        \/ m \in Newer(members[n], msg.list) /\ members'[n][m] = msg.list[m]
    BY <2>1 DEF Merge, TypeOK
  <2>3. members[n] \in Lists
    BY DEF TypeOK
  <2> QED BY <1>0, <2>1, <2>2, <2>3, MergeType
<1>2. ASSUME NEW k \in Nodes, ScanWrite(k) PROVE members'[n][m] # Unknown
  <2>1. PICK x \in judged[k] :
          /\ x.entry \in Info
          /\ members'[n][m] = IF n = k /\ m = x.node THEN x.entry ELSE members[n][m]
    BY <1>2, ScanWriteEffect
  <2> QED BY <1>0, <2>1
<1>3. ASSUME NEW c \in Clients, SeedUpsert(c) PROVE members'[n][m] # Unknown
  <2>1. members'[n][m] = members[n][m] \/ members'[n][m] = Entry("alive", 0)
    BY <1>3 DEF SeedUpsert, TypeOK, Lists
  <2> QED BY <2>1 DEF Entry, Unknown
<1>4. ASSUME NEW c \in Clients, ClientRestart(c), n # c PROVE members'[n][m] # Unknown
  BY <1>4 DEF ClientRestart, TypeOK
<1>5. \/ members' = members
      \/ \E k \in Nodes : Receive(k) \/ ScanWrite(k)
      \/ \E c \in Clients : SeedUpsert(c) \/ ClientRestart(c)
  BY DEF Next, vars, Loops, GossipLoop, ReceiveLoop, DetectorLoop, Seed, GossipNone,
         GossipPick, GossipCompose, Gossip, ReceiveCallback, ScanStart, ScanMember,
         ScanCallback, SeedRing, ClientCrash, Tick
<1> QED BY <1>1, <1>2, <1>3, <1>4, <1>5

\* Whoever is heard of, or holds a message of somebody, has an entry for it.
LEMMA AcquaintedStep == TypeOK /\ Acquainted /\ [Next]_vars => Acquainted'
<1> SUFFICES ASSUME TypeOK, Acquainted, [Next]_vars PROVE Acquainted'
  OBVIOUS
<1> DEFINE Box(n) == \A i \in DOMAIN inbox[n] :
                       inbox[n][i].list[inbox[n][i].sender] # Unknown
<1>1. ASSUME NEW n \in Nodes PROVE members'[n][n] # Unknown
  <2>1. FirstList(n)[n] # Unknown
    BY DEF FirstList, Entry, Unknown
  <2>2. ClientRestart(n) => members'[n] = FirstList(n)
    BY DEF ClientRestart, TypeOK
  <2> QED BY <2>1, <2>2, StaysKnown DEF Acquainted
<1>2. ASSUME NEW n \in Nodes PROVE Box(n)'
  <2>0. Box(n) /\ inbox[n] \in Seq(Messages)
    BY DEF Acquainted, TypeOK
  <2>1. ASSUME NEW k \in Nodes, Gossip(k), target[k] = n PROVE Box(n)'
    <3>1. PICK msg \in letter[k] : inbox'[n] = Append(inbox[n], msg) \/ inbox'[n] = inbox[n]
      BY <2>1 DEF Gossip, TypeOK
    <3>2. msg \in Messages /\ msg.list[msg.sender] # Unknown
      BY DEF TypeOK, Acquainted
    <3> DEFINE longer == Append(inbox[n], msg)
    <3>3. \A i \in DOMAIN longer : longer[i].list[longer[i].sender] # Unknown
      BY <2>0, <3>2, AppendProperties, LenProperties
    <3>4. inbox'[n] = longer \/ inbox'[n] = inbox[n]
      BY <3>1
    <3> HIDE DEF longer
    <3> QED BY <2>0, <3>3, <3>4
  <2>2. CASE Receive(n)
    <3>1. inbox'[n] = Tail(inbox[n]) /\ inbox[n] # <<>>
      BY <2>2 DEF Receive, TypeOK
    <3> QED BY <2>0, <3>1, HeadTailProperties, LenProperties
  <2>3. CASE inbox'[n] = <<>>
    BY <2>3
  <2>4. CASE inbox'[n] = inbox[n]
    BY <2>0, <2>4
  <2>5. \/ \E k \in Nodes : Gossip(k) /\ target[k] = n
        \/ Receive(n) \/ inbox'[n] = <<>> \/ inbox'[n] = inbox[n]
    <3>1. \A k \in Nodes : Gossip(k) /\ target[k] # n => inbox'[n] = inbox[n]
      BY DEF Gossip, TypeOK
    <3>2. \A k \in Nodes : Receive(k) /\ k # n => inbox'[n] = inbox[n]
      BY DEF Receive, TypeOK
    <3>3. \A c \in Clients : ClientCrash(c) => inbox'[n] \in {<<>>, inbox[n]}
      BY DEF ClientCrash, TypeOK
    <3> QED
      BY <3>1, <3>2, <3>3
         DEF Next, vars, Loops, GossipLoop, ReceiveLoop, DetectorLoop, Seed, GossipNone,
             GossipPick, GossipCompose, ReceiveCallback, ScanStart, ScanMember, ScanWrite,
             ScanCallback, SeedUpsert, SeedRing, ClientRestart, Tick
  <2> QED BY <2>1, <2>2, <2>3, <2>4, <2>5
<1>3. ASSUME NEW n \in Nodes, NEW m \in Nodes, age'[n][m] # Never
      PROVE  members'[n][m] # Unknown
  <2>1. ASSUME NEW k \in Nodes, Receive(k), age[n][m] = Never PROVE members'[n][m] # Unknown
    <3>1. PICK msg \in Messages :
            /\ msg = inbox[k][1] /\ 1 \in DOMAIN inbox[k]
            /\ msg.sender \in Nodes /\ msg.list \in Lists
            /\ members' = [members EXCEPT ![k] = Merge(@, msg.list)]
            /\ age' = [age EXCEPT ![k][msg.sender] = 0]
      BY <2>1, ReceiveEffect
    <3>2. n = k /\ m = msg.sender
      BY <1>3, <2>1, <3>1 DEF TypeOK
    <3>3. msg.list[m] # Unknown
      BY <3>1, <3>2 DEF Acquainted
    <3>4. members'[n] = Merge(members[n], msg.list) /\ members[n] \in Lists
      BY <3>1, <3>2 DEF TypeOK
    <3>5. msg.list[m].version > -1
      BY <3>1, <3>3 DEF Lists, Info
    <3>6. CASE members[n][m] = Unknown
      BY <3>3, <3>4, <3>5, <3>6 DEF Merge, Newer, Unknown, Entry
    <3>7. CASE members[n][m] # Unknown
      BY <3>3, <3>4, <3>7 DEF Merge
    <3> QED BY <3>6, <3>7
  <2>2. CASE age[n][m] # Never
    <3>1. members[n][m] # Unknown
      BY <2>2 DEF Acquainted
    <3>2. n \in Clients /\ ClientRestart(n) => age'[n][m] = Never
      BY DEF ClientRestart, TypeOK
    <3> QED BY <1>3, <3>1, <3>2, StaysKnown
  <2>3. age[n][m] # Never \/ \E k \in Nodes : Receive(k)
    <3>1. Tick => (age'[n][m] # Never => age[n][m] # Never)
      BY DEF Tick, Never, TypeOK
    <3>2. \A c \in Clients : ClientRestart(c) => age'[n][m] = Never \/ age'[n] = age[n]
      BY DEF ClientRestart, TypeOK
    <3> QED
      BY <1>3, <3>1, <3>2
         DEF Next, vars, Loops, GossipLoop, ReceiveLoop, DetectorLoop, Seed, GossipNone,
             GossipPick, GossipCompose, Gossip, ReceiveCallback, ScanStart, ScanMember,
             ScanWrite, ScanCallback, SeedUpsert, SeedRing, ClientCrash
  <2> QED BY <2>1, <2>2, <2>3
<1>4. ASSUME NEW n \in Nodes, NEW msg \in letter'[n]
      PROVE  msg.list[msg.sender] # Unknown
  <2>1. ASSUME NEW k \in Nodes, GossipCompose(k) PROVE msg.list[msg.sender] # Unknown
    <3>1. letter' = [letter EXCEPT ![k] = {[sender |-> k, list |-> members[k]]}]
      BY <2>1 DEF GossipCompose
    <3>2. msg = [sender |-> k, list |-> members[k]] \/ msg \in letter[n]
      BY <3>1 DEF TypeOK
    <3> QED BY <3>2 DEF Acquainted
  <2>2. CASE msg \in letter[n]
    BY <2>2 DEF Acquainted
  <2>3. msg \in letter[n] \/ \E k \in Nodes : GossipCompose(k)
    <3>1. \A k \in Nodes : Gossip(k) => letter'[n] \subseteq letter[n]
      BY DEF Gossip, TypeOK
    <3>2. \A c \in Clients : ClientCrash(c) => letter'[n] \subseteq letter[n]
      BY DEF ClientCrash, TypeOK
    <3> QED
      BY <3>1, <3>2
         DEF Next, vars, Loops, GossipLoop, ReceiveLoop, DetectorLoop, Seed, GossipNone,
             GossipPick, Receive, ReceiveCallback, ScanStart, ScanMember, ScanWrite,
             ScanCallback, SeedUpsert, SeedRing, ClientRestart, Tick
  <2> QED BY <2>1, <2>2, <2>3
<1> QED BY <1>1, <1>2, <1>3, <1>4 DEF Acquainted


\* At first nobody has been silent for long.
LEMMA SilenceInit == Init => SilenceIsBeingNoticed
  BY MembershipAssumption DEF Init, SilenceIsBeingNoticed, Nodes, Never

\* A silent member is held suspected or dead, or is still to be looked at by the scan.
LEMMA SilenceStep ==
  TypeOK /\ AliveIsVersionZero /\ Acquainted /\ SilenceIsBeingNoticed /\ [Next]_vars
    => SilenceIsBeingNoticed'
<1> SUFFICES ASSUME TypeOK, AliveIsVersionZero, Acquainted, SilenceIsBeingNoticed,
                    [Next]_vars,
                    NEW n \in Clients, NEW m \in Nodes \ {n},
                    up'[n], n \notin dueScan', age'[n][m] >= SuspectAfter
             PROVE  \/ members'[n][m].status \in {"suspected", "dead"}
                    \/ \E x \in scan'[n] : x.node = m
                    \/ \E x \in judged'[n] : x.node = m
  BY DEF SilenceIsBeingNoticed
<1> DEFINE Marked == members[n][m].status \in {"suspected", "dead"}
           Pending == (\E x \in scan[n] : x.node = m) \/ (\E x \in judged[n] : x.node = m)
<1>0. /\ n \in Nodes /\ m \in Nodes /\ n # Coordinator
      /\ age[n][m] \in {-1} \cup 0..DeadAfter
      /\ SuspectAfter \in Nat \ {0} /\ DeadAfter \in Nat
  BY MembershipAssumption DEF Nodes, TypeOK, Never
<1>1. up[n] /\ n \notin dueScan /\ age[n][m] >= SuspectAfter => Marked \/ Pending
  BY DEF SilenceIsBeingNoticed
\* the step is neither the client's restart nor a tick
<1>2. ~ClientRestart(n) /\ ~Tick
  <2>1. ClientRestart(n) => age'[n][m] = -1
    BY <1>0 DEF ClientRestart, TypeOK, Never
  <2>2. Tick => n \in dueScan'
    BY <1>0 DEF Tick
  <2> QED BY <1>0, <2>1, <2>2
<1>3. up[n]
  <2>1. \A k \in Nodes : Loops(k) => up' = up
    BY DEF Loops, GossipLoop, ReceiveLoop, DetectorLoop, GossipNone, GossipPick,
           GossipCompose, Gossip, Receive, ReceiveCallback, ScanStart, ScanMember,
           ScanWrite, ScanCallback
  <2>2. Seed => up' = up
    BY DEF Seed, SeedUpsert, SeedRing
  <2>3. \A c \in Clients : (ClientCrash(c) \/ (ClientRestart(c) /\ c # n)) => (up'[n] => up[n])
    <3> SUFFICES ASSUME NEW c \in Clients, ClientCrash(c) \/ (ClientRestart(c) /\ c # n), up'[n]
                 PROVE  up[n]
      OBVIOUS
    <3>1. /\ up \in [Nodes -> BOOLEAN]
          /\ \/ up' = [up EXCEPT ![c] = FALSE]
             \/ c # n /\ up' = [up EXCEPT ![c] = TRUE]
      BY DEF ClientCrash, ClientRestart, TypeOK
    <3>2. CASE up' = [up EXCEPT ![c] = FALSE]
      <4>1. c # n
        BY <1>0, <3>1, <3>2
      <4> QED BY <1>0, <3>1, <3>2, <4>1
    <3>3. CASE c # n /\ up' = [up EXCEPT ![c] = TRUE]
      BY <1>0, <3>1, <3>3
    <3> QED BY <3>1, <3>2, <3>3
  <2> QED BY <1>2, <2>1, <2>2, <2>3 DEF Next, vars
<1>4. age[n][m] >= SuspectAfter
  <2>1. ASSUME NEW k \in Nodes, Receive(k) PROVE age'[n][m] \in {0, age[n][m]}
    <3>1. PICK msg \in Messages : age' = [age EXCEPT ![k][msg.sender] = 0]
      BY <2>1, ReceiveEffect
    <3>2. age \in [Nodes -> [Nodes -> {Never} \cup 0..DeadAfter]]
      BY DEF TypeOK
    <3> QED BY <1>0, <3>1, <3>2
  <2>2. \A c \in Clients : ClientRestart(c) => age'[n][m] = age[n][m]
    BY <1>0, <1>2 DEF ClientRestart, TypeOK
  <2>3. age'[n][m] \in {0, age[n][m]}
    BY <1>2, <2>1, <2>2
       DEF Next, vars, Loops, GossipLoop, ReceiveLoop, DetectorLoop, Seed, GossipNone,
           GossipPick, GossipCompose, Gossip, ReceiveCallback, ScanStart, ScanMember,
           ScanWrite, ScanCallback, SeedUpsert, SeedRing, ClientCrash
  <2> QED BY <1>0, <2>3
\* a mark stays: an entry is not forgotten, and it is not revived
<1>5. ASSUME Marked PROVE Marked'
  <2>1. members[n][m] # Unknown
    BY <1>5 DEF Unknown, Entry
  <2>2. members'[n][m] # Unknown
    BY <1>0, <1>2, <2>1, StaysKnown
  <2>3. members'[n][m] \in Info
    BY <1>0, <2>2, TypeStep DEF TypeOK, Lists
  <2>4. members'[n][m].status # "alive"
    BY <1>0, <1>3, <1>5, RevivalStep DEF NoRevivalStep, vars
  <2> QED BY <2>3, <2>4 DEF Info
<1>6. CASE ScanStart(n)
  <2>1. members[n][m] # Unknown
    BY <1>0, <1>4 DEF Acquainted, Never
  <2>2. [node |-> m, version |-> members[n][m].version] \in scan'[n]
    BY <1>0, <1>6, <2>1 DEF ScanStart, Known, TypeOK
  <2> QED BY <2>2
<1>7. CASE ScanMember(n)
  <2>1. PICK x \in scan[n], e \in Info :
          /\ scan' = [scan EXCEPT ![n] = @ \ {x}] /\ x.node \in Nodes
          /\ \/ judged' = [judged EXCEPT ![n] = {[node |-> x.node, entry |-> e]}]
             \/ ~Overdue(age[n][x.node])
    BY <1>0, <1>7, ScanMemberEffect
  <2>2. CASE x.node = m
    <3>1. judged'[n] = {[node |-> m, entry |-> e]}
      BY <1>0, <1>4, <2>1, <2>2 DEF Overdue, TypeOK
    <3> QED BY <3>1
  <2>3. CASE x.node # m
    <3>1. scan'[n] = scan[n] \ {x} /\ dueScan' = dueScan /\ judged[n] = {}
      BY <1>0, <1>7, <2>1 DEF ScanMember, TypeOK
    <3> QED BY <1>1, <1>3, <1>4, <1>5, <2>3, <3>1
  <2> QED BY <2>2, <2>3
<1>9. CASE ScanWrite(n)
  <2>1. PICK x \in judged[n] :
          /\ \A l \in Nodes : members'[n][l] = IF l = x.node THEN x.entry ELSE members[n][l]
          /\ judged'[n] = judged[n] \ {x}
    <3>1. judged \in [Nodes -> SUBSET Judgements]
      BY DEF TypeOK
    <3>2. PICK x \in judged[n] :
            /\ judged' = [judged EXCEPT ![n] = @ \ {x}]
            /\ \A k, l \in Nodes :
                 members'[k][l] = IF k = n /\ l = x.node THEN x.entry ELSE members[k][l]
      BY <1>0, <1>9, ScanWriteEffect
    <3> QED BY <1>0, <3>1, <3>2
  <2>2. x.entry.status \in {"suspected", "dead"}
    <3>1. x.entry \in Info /\ x.entry.status # "alive"
      BY <1>0 DEF TypeOK, Judgements, AliveIsVersionZero
    <3> QED BY <3>1 DEF Info
  <2>3. CASE x.node = m
    BY <1>0, <2>1, <2>2, <2>3
  <2>4. CASE x.node # m
    <3>1. scan'[n] = scan[n] /\ dueScan' = dueScan
      BY <1>9 DEF ScanWrite
    <3> QED BY <1>1, <1>3, <1>4, <1>5, <2>1, <2>4, <3>1
  <2> QED BY <2>3, <2>4
<1>8. CASE ~ScanStart(n) /\ ~ScanMember(n) /\ ~ScanWrite(n)
  <2>1. \A k \in Nodes : (ScanStart(k) \/ ScanMember(k) \/ ScanWrite(k)) /\ k # n =>
          scan'[n] = scan[n] /\ judged'[n] = judged[n] /\ (n \in dueScan => n \in dueScan')
    BY <1>0 DEF ScanStart, ScanMember, ScanWrite, TypeOK
  <2>2. \A c \in Clients : ClientCrash(c) =>
          scan'[n] = scan[n] /\ judged'[n] = judged[n] /\ (n \in dueScan => n \in dueScan')
    BY <1>0 DEF ClientCrash, TypeOK, Nodes
  <2>3. scan'[n] = scan[n] /\ judged'[n] = judged[n] /\ (n \in dueScan => n \in dueScan')
    BY <1>0, <1>2, <1>8, <2>1, <2>2
       DEF Next, vars, Loops, GossipLoop, ReceiveLoop, DetectorLoop, Seed,
           GossipNone, GossipPick, GossipCompose, Gossip, Receive, ReceiveCallback,
           ScanCallback, SeedUpsert, SeedRing, ClientRestart
  <2> QED BY <1>1, <1>3, <1>4, <1>5, <2>3
<1> QED BY <1>6, <1>7, <1>8, <1>9

\* A completed scan has marked every member that was silent for the suspicion
\* interval, in spite of its stale snapshot and of the gossip that came meanwhile.
THEOREM SilenceIsAlwaysNoticed == Spec => []SilenceIsNoticed
<1>1. TypeOK /\ SilenceIsBeingNoticed => SilenceIsNoticed
  BY DEF SilenceIsBeingNoticed, SilenceIsNoticed
<1> QED
  BY <1>1, TypeInit, TypeStep, AliveInit, AliveStep, AcquaintedInit, AcquaintedStep,
     SilenceInit, SilenceStep, PTL DEF Spec

-----------------------------------------------------------------------------
(* A pair of nodes. *)

\* The coordinator and one client, which finish the work of a tick before the
\* next one, over a network that loses nothing; intervals of two ticks or more.
Pair == (\E c : Clients = {c}) /\ Punctual /\ ~Lossy /\ SuspectAfter >= 2

\* a list in which nobody has been suspected
Trusting(list) == \A m \in Nodes : list[m].status \in {"alive", "unknown"}

HoldsAlive(n, m) == members[n][m].status = "alive"

\* a message to n: from the other, who knows n
Letter(n, msg) == msg.sender # n /\ Trusting(msg.list) /\ HoldsAlive(msg.sender, n)

\* n has the message of this tick still to send
Owes(n) == n \in dueGossip \/ target[n] # n

\* a gossip under way is that of the last tick: it has a target that its sender knows
Underway(n) ==
  /\ target[n] # n => (HoldsAlive(n, target[n]) /\ n \notin dueGossip)
  /\ \A msg \in letter[n] : msg.sender = n /\ target[n] # n /\ Trusting(msg.list)

\* An age above zero only means that the message of this tick has not been taken:
\* the sender has still to send it, or it waits in the inbox, where nothing else is.
PairInv ==
  crashes = 0 =>
    /\ \A n \in Nodes : up[n] /\ Trusting(members[n]) /\ judged[n] = {} /\ Underway(n)
    /\ \A n \in Nodes : inbox[n] = <<>> \/ \E msg \in Messages : inbox[n] = <<msg>> /\ Letter(n, msg)
    /\ \A n, m \in Nodes :
         /\ age[n][m] \in {Never, 0, 1}
         /\ age[n][m] # Never => (n # m /\ HoldsAlive(m, n))
         /\ age[n][m] = 1 => (Owes(m) \/ inbox[n] # <<>>)
         /\ (Owes(m) /\ n # m) => (inbox[n] = <<>>)

\* Of two nodes those that are not the third are one.
LEMMA TwoNodes ==
  ASSUME Pair, NEW n \in Nodes, NEW m \in Nodes, NEW k \in Nodes, n # k, m # k
  PROVE  n = m
BY DEF Pair, Nodes

\* A message from a trusting node takes nothing alive away, and suspects nobody.
LEMMA TrustIsKept ==
  ASSUME NEW list \in Lists, NEW incoming \in Lists, Honest(list), Honest(incoming),
         Trusting(list), Trusting(incoming)
  PROVE  /\ Trusting(Merge(list, incoming))
         /\ \A m \in Nodes : list[m].status = "alive" => (Merge(list, incoming)[m].status = "alive")
<1>1. Trusting(Merge(list, incoming))
  BY DEF Trusting, Merge
<1>2. ASSUME NEW m \in Nodes, list[m].status = "alive"
      PROVE  Merge(list, incoming)[m].status = "alive"
  <2>1. list[m].version = 0
    BY <1>2 DEF Honest
  <2>2. incoming[m].version = 0 \/ incoming[m] = Unknown
    <3>1. incoming[m].status = "alive" \/ incoming[m].status = "unknown"
      BY DEF Trusting
    <3>2. incoming[m] \in Info \cup {Unknown}
      BY DEF Lists
    <3>3. incoming[m].status = "unknown" => incoming[m] = Unknown
      BY <3>2 DEF Info
    <3> QED BY <3>1, <3>3 DEF Honest
  <2>3. m \notin Newer(list, incoming)
    BY <2>1, <2>2 DEF Newer, Unknown, Entry
  <2> QED BY <1>2, <2>3 DEF Merge
<1> QED BY <1>1, <1>2

\* Nobody who was alive is not, and nothing else has changed that the invariant
\* is about.
LEMMA NothingToTheMatter ==
  ASSUME TypeOK, PairInv, crashes' = 0 => (crashes = 0),
         UNCHANGED <<up, inbox, age, dueGossip, target, letter, judged>>,
         \A n \in Nodes : Trusting(members[n]) => Trusting(members[n])',
         \A n, m \in Nodes : HoldsAlive(n, m) => HoldsAlive(n, m)'
  PROVE  PairInv'
<1> SUFFICES ASSUME crashes' = 0 PROVE PairInv'
  BY DEF PairInv
<1>1. /\ \A n \in Nodes : up'[n] /\ Trusting(members'[n]) /\ judged'[n] = {} /\ Underway(n)
      /\ \A n \in Nodes : inbox'[n] = <<>> \/ \E msg \in Messages : inbox'[n] = <<msg>> /\ Letter(n, msg)
      /\ \A n, m \in Nodes :
           /\ age'[n][m] \in {Never, 0, 1}
           /\ age'[n][m] # Never => (n # m /\ HoldsAlive(m, n))
           /\ age'[n][m] = 1 => (Owes(m) \/ inbox'[n] # <<>>)
           /\ (Owes(m) /\ n # m) => (inbox'[n] = <<>>)
  BY DEF PairInv
<1>2. \A n \in Nodes, msg \in Messages : Letter(n, msg) => Letter(n, msg)'
  BY DEF Letter, Messages
<1>3. \A n \in Nodes : (Owes(n)' <=> Owes(n)) /\ (Underway(n) => Underway(n)')
  <2> SUFFICES ASSUME NEW n \in Nodes PROVE (Owes(n)' <=> Owes(n)) /\ (Underway(n) => Underway(n)')
    OBVIOUS
  <2>1. target[n] \in Nodes
    BY DEF TypeOK
  <2> QED BY <2>1 DEF Owes, Underway
<1> QED BY <1>1, <1>2, <1>3 DEF PairInv

\* The gossip of a node goes to the other one and finds room, and every tick there
\* is somebody to send it to once anything has been sent.
LEMMA GossipPair ==
  ASSUME Pair, TypeOK, PairInv, crashes = 0, NEW n \in Nodes, GossipLoop(n)
  PROVE  PairInv'
<1>0. UNCHANGED <<up, members, age, crashes, judged>>
  BY DEF GossipLoop, GossipNone, GossipPick, GossipCompose, Gossip
<1>1. \A k, m \in Nodes : HoldsAlive(k, m)' <=> HoldsAlive(k, m)
  BY <1>0 DEF HoldsAlive
<1>2. \A k \in Nodes, msg \in Messages : Letter(k, msg) => Letter(k, msg)'
  BY <1>1 DEF Letter, Messages
<1>5. ASSUME NEW k \in Nodes,
             target'[k] = target[k], letter'[k] = letter[k], k \in dueGossip' => k \in dueGossip
      PROVE  Underway(k)'
  <2>1. target[k] \in Nodes /\ Underway(k)
    BY DEF TypeOK, PairInv
  <2> QED BY <1>1, <1>5, <2>1 DEF Underway
\* what is left to show when the inboxes stay as they are
<1>6. ASSUME inbox' = inbox, \A k \in Nodes : Underway(k)',
             \A k \in Nodes : Owes(k)' => Owes(k),
             \A k \in Nodes : Owes(k) => (Owes(k)' \/ \A l \in Nodes : age[l][k] # 1)
      PROVE  PairInv'
  BY <1>0, <1>1, <1>2, <1>6 DEF PairInv
<1>3. CASE GossipNone(n)
  <2>1. /\ UNCHANGED <<inbox, target, letter>> /\ Peers(n) = {} /\ target[n] = n
        /\ dueGossip' = dueGossip \ {n}
    BY <1>3 DEF GossipNone
  <2>2. \A k \in Nodes : age[k][n] # 1
    <3> SUFFICES ASSUME NEW k \in Nodes, age[k][n] = 1 PROVE FALSE
      OBVIOUS
    <3>1. k # n /\ HoldsAlive(n, k)
      BY DEF PairInv, Never
    <3> QED BY <2>1, <3>1 DEF Peers, HoldsAlive
  <2>3. \A k \in Nodes : Underway(k)'
    BY <1>5, <2>1
  <2> QED BY <1>6, <2>1, <2>2, <2>3 DEF Owes
<1>7. CASE GossipPick(n)
  <2>1. PICK m \in Peers(n) : target' = [target EXCEPT ![n] = m]
    BY <1>7 DEF GossipPick
  <2>2. /\ UNCHANGED <<inbox, letter>> /\ dueGossip' = dueGossip \ {n}
        /\ n \in dueGossip /\ target[n] = n
    BY <1>7 DEF GossipPick
  <2>3. m \in Nodes /\ m # n /\ HoldsAlive(n, m)
    BY DEF Peers, HoldsAlive
  <2>4. target'[n] = m /\ \A k \in Nodes : k # n => target'[k] = target[k]
    BY <2>1 DEF TypeOK
  <2>5. letter[n] = {}
    BY <2>2 DEF PairInv, Underway
  <2>6. Underway(n)'
    BY <1>1, <2>2, <2>3, <2>4, <2>5 DEF Underway
  <2>7. \A k \in Nodes : Underway(k)'
    BY <1>5, <2>2, <2>4, <2>6
  <2>8. \A k \in Nodes : Owes(k)' <=> Owes(k)
    BY <2>2, <2>3, <2>4 DEF Owes
  <2> QED BY <1>6, <2>2, <2>7, <2>8
<1>8. CASE GossipCompose(n)
  <2>1. /\ UNCHANGED <<inbox, target, dueGossip>> /\ target[n] # n
        /\ letter' = [letter EXCEPT ![n] = {[sender |-> n, list |-> members[n]]}]
    BY <1>8 DEF GossipCompose
  <2>2. /\ letter'[n] = {[sender |-> n, list |-> members[n]]}
        /\ \A k \in Nodes : k # n => letter'[k] = letter[k]
    BY <2>1 DEF TypeOK
  <2>3. Trusting(members[n]) /\ Underway(n) /\ target[n] \in Nodes
    BY DEF PairInv, TypeOK
  <2>4. Underway(n)'
    BY <1>1, <2>1, <2>2, <2>3 DEF Underway
  <2>5. \A k \in Nodes : Underway(k)'
    BY <1>5, <2>1, <2>2, <2>4
  <2> QED BY <1>6, <2>1, <2>5 DEF Owes
<1>4. CASE Gossip(n)
  <2>12. PICK m \in Nodes : m = target[n]
    BY DEF TypeOK
  <2>0. PICK msg \in letter[n] :
          \/ /\ up[m] /\ Len(inbox[m]) < ChanCap
             /\ inbox' = [inbox EXCEPT ![m] = Append(@, msg)]
          \/ /\ ~up[m] \/ Len(inbox[m]) = ChanCap \/ Lossy
             /\ inbox' = inbox
    BY <1>4, <2>12 DEF Gossip
  <2>1. /\ m \in Nodes /\ msg \in Messages /\ msg.sender = n /\ Trusting(msg.list)
        /\ m # n /\ HoldsAlive(n, m) /\ n \notin dueGossip
    BY <2>12 DEF TypeOK, PairInv, Underway
  <2>9. /\ dueGossip' = dueGossip /\ target'[n] = n /\ letter'[n] = {}
        /\ \A k \in Nodes : k # n => (target'[k] = target[k] /\ letter'[k] = letter[k])
    BY <1>4 DEF Gossip, TypeOK
  <2>2. inbox[m] = <<>> /\ up[m]
    BY <2>1, <2>12 DEF PairInv, Owes
  <2>3. inbox' = [inbox EXCEPT ![m] = Append(@, msg)]
    <3>1. Len(inbox[m]) = 0
      BY <2>2
    <3>2. Len(inbox[m]) # ChanCap /\ ~Lossy
      BY <3>1, MembershipAssumption DEF Pair
    <3> QED BY <2>0, <2>2, <3>2
  <2>5. inbox'[m] = <<msg>> /\ \A k \in Nodes : k # m => (inbox'[k] = inbox[k])
    <3>1. Append(<<>>, msg) = <<msg>>
      OBVIOUS
    <3>2. Append(inbox[m], msg) = <<msg>>
      BY <2>2, <3>1
    <3>3. inbox \in [Nodes -> Seq(Messages)]
      BY DEF TypeOK
    <3>4. inbox'[m] = Append(inbox[m], msg) /\ \A k \in Nodes : k # m => (inbox'[k] = inbox[k])
      BY <2>1, <2>3, <3>3, Zenon
    <3> QED BY <3>2, <3>4, Zenon
  <2>6. Letter(m, msg)'
    <3>1. HoldsAlive(n, m)'
      BY <1>1, <2>1
    <3>2. target'[n] = n
      BY <2>9
    <3> QED BY <2>1, <3>1 DEF Letter, HoldsAlive
  <2>7. \A k \in Nodes : inbox'[k] = <<>> \/ \E x \in Messages : inbox'[k] = <<x>> /\ Letter(k, x)'
    <3>1. inbox'[m] = <<msg>> /\ Letter(m, msg)' /\ msg \in Messages
      BY <2>1, <2>5, <2>6
    <3>2. ASSUME NEW k \in Nodes, k # m
          PROVE  inbox'[k] = <<>> \/ \E x \in Messages : inbox'[k] = <<x>> /\ Letter(k, x)'
      BY <1>2, <2>5, <3>2 DEF PairInv
    <3> QED BY <3>1, <3>2, Zenon
  <2>10. ~Owes(n)' /\ \A k \in Nodes : k # n => (Owes(k)' <=> Owes(k))
    BY <2>1, <2>9 DEF Owes
  <2>8. ASSUME NEW k \in Nodes, NEW j \in Nodes
        PROVE  /\ age[k][j] = 1 => (Owes(j)' \/ inbox'[k] # <<>>)
               /\ (Owes(j)' /\ k # j) => (inbox'[k] = <<>>)
    <3>1. CASE k = m
      <4>1. inbox'[k] # <<>>
        BY <2>5, <3>1
      <4>2. ASSUME Owes(j)', k # j PROVE FALSE
        <5>1. j # n
          BY <2>10, <4>2
        <5>2. j = n
          BY <2>1, <3>1, <4>2, TwoNodes
        <5> QED BY <5>1, <5>2
      <4> QED BY <4>1, <4>2
    <3>2. CASE k # m
      <4>1. k = n
        BY <2>1, <3>2, TwoNodes
      <4>2. age[k][j] = 1 => (j # n /\ (Owes(j) \/ inbox[k] # <<>>))
        BY <4>1 DEF PairInv, Never
      <4>3. (Owes(j) /\ k # j) => (inbox[k] = <<>>)
        BY DEF PairInv
      <4> QED BY <2>10, <2>5, <3>2, <4>2, <4>3
    <3> QED BY <3>1, <3>2
  <2>11. \A k \in Nodes : Underway(k)'
    <3>1. Underway(n)'
      BY <2>9 DEF Underway
    <3> QED BY <1>5, <2>9, <3>1
  <2> QED BY <1>0, <1>1, <2>7, <2>8, <2>11 DEF PairInv
<1> QED BY <1>3, <1>4, <1>7, <1>8 DEF GossipLoop

\* The message of the tick is taken, and its sender is young again.
LEMMA ReceivePair ==
  ASSUME Pair, TypeOK, AliveIsVersionZero, PairInv, crashes = 0, NEW n \in Nodes, Receive(n)
  PROVE  PairInv'
<1>1. PICK msg \in Messages :
           /\ msg = inbox[n][1] /\ 1 \in DOMAIN inbox[n]
           /\ msg.sender \in Nodes /\ msg.list \in Lists
           /\ inbox' = [inbox EXCEPT ![n] = Tail(@)]
           /\ members' = [members EXCEPT ![n] = Merge(@, msg.list)]
           /\ age' = [age EXCEPT ![n][msg.sender] = 0]
  BY ReceiveEffect
<1>2. UNCHANGED <<up, dueGossip, crashes, target, letter, judged>> /\ inbox[n] # <<>>
  BY DEF Receive
<1>3. inbox[n] = <<msg>> /\ Letter(n, msg)
  <2>1. PICK x \in Messages : inbox[n] = <<x>> /\ Letter(n, x)
    BY <1>2 DEF PairInv
  <2>2. x = msg
    BY <1>1, <2>1
  <2> QED BY <2>1, <2>2
<1>4. inbox'[n] = <<>> /\ \A k \in Nodes : k # n => (inbox'[k] = inbox[k])
  <2>1. Tail(<<msg>>) = <<>>
    OBVIOUS
  <2>2. Tail(inbox[n]) = <<>>
    BY <1>3, <2>1
  <2>3. inbox \in [Nodes -> Seq(Messages)]
    BY DEF TypeOK
  <2>4. inbox'[n] = Tail(inbox[n]) /\ \A k \in Nodes : k # n => (inbox'[k] = inbox[k])
    BY <1>1, <2>3, Zenon
  <2> QED BY <2>2, <2>4, Zenon
<1>5. Honest(members[n]) /\ Honest(msg.list) /\ Trusting(members[n]) /\ members[n] \in Lists
  <2>1. Honest(members[n]) /\ Honest(inbox[n][1].list)
    BY <1>1 DEF AliveIsVersionZero, Honest
  <2>2. Trusting(members[n]) /\ members[n] \in Lists
    BY DEF PairInv, TypeOK
  <2> QED BY <1>1, <2>1, <2>2
<1>6. /\ \A k \in Nodes : Trusting(members'[k])
      /\ \A k, m \in Nodes : HoldsAlive(k, m) => HoldsAlive(k, m)'
  <2>1. Trusting(Merge(members[n], msg.list)) /\
        \A m \in Nodes : members[n][m].status = "alive" => (Merge(members[n], msg.list)[m].status = "alive")
    BY <1>1, <1>3, <1>5, TrustIsKept DEF Letter
  <2>2. members'[n] = Merge(members[n], msg.list) /\ \A k \in Nodes : k # n => (members'[k] = members[k])
    BY <1>1 DEF TypeOK
  <2> QED BY <2>1, <2>2 DEF PairInv, HoldsAlive
<1>7. \A k \in Nodes, x \in Messages : Letter(k, x) => Letter(k, x)'
  BY <1>6 DEF Letter, Messages
<1>8. ASSUME NEW k \in Nodes, NEW m \in Nodes
      PROVE  /\ age'[k][m] \in {Never, 0, 1}
             /\ age'[k][m] # Never => (k # m /\ HoldsAlive(m, k)')
             /\ age'[k][m] = 1 => (Owes(m) \/ inbox'[k] # <<>>)
             /\ (Owes(m) /\ k # m) => (inbox'[k] = <<>>)
  <2>1. /\ age[k][m] \in {Never, 0, 1}
        /\ age[k][m] # Never => (k # m /\ HoldsAlive(m, k))
        /\ age[k][m] = 1 => (Owes(m) \/ inbox[k] # <<>>)
        /\ (Owes(m) /\ k # m) => (inbox[k] = <<>>)
    BY DEF PairInv
  <2>2. age'[k][m] = IF k = n /\ m = msg.sender THEN 0 ELSE age[k][m]
    <3>1. age[n] \in [Nodes -> {Never} \cup 0..DeadAfter]
      BY DEF TypeOK
    <3> QED BY <1>1, <3>1 DEF TypeOK
  <2>3. CASE k = n /\ m = msg.sender
    <3>1. age'[k][m] = 0 /\ k # m /\ HoldsAlive(m, k)
      BY <1>3, <2>2, <2>3 DEF Letter
    <3> QED BY <1>4, <1>6, <2>3, <3>1
  <2>4. CASE k = n /\ m # msg.sender
    <3>1. m = n
      BY <1>1, <1>3, <2>4, TwoNodes DEF Letter
    <3> QED BY <1>4, <1>6, <2>1, <2>2, <2>4, <3>1 DEF Never
  <2>5. CASE k # n
    BY <1>4, <1>6, <2>1, <2>2, <2>5
  <2> QED BY <2>3, <2>4, <2>5
<1>9. \A k \in Nodes : inbox'[k] = <<>> \/ \E x \in Messages : inbox'[k] = <<x>> /\ Letter(k, x)'
  BY <1>4, <1>7 DEF PairInv
<1>10. ASSUME NEW k \in Nodes
       PROVE  (Owes(k)' <=> Owes(k)) /\ Underway(k)' /\ judged'[k] = {}
  <2>1. target[k] \in Nodes /\ Underway(k) /\ judged[k] = {}
    BY DEF TypeOK, PairInv
  <2> QED BY <1>2, <1>6, <2>1 DEF Owes, Underway
<1> QED BY <1>2, <1>6, <1>8, <1>9, <1>10 DEF PairInv

\* The detector finds everybody young enough and leaves the entry as it is.
LEMMA ScanPair ==
  ASSUME Pair, TypeOK, PairInv, crashes = 0, NEW n \in Nodes, ScanMember(n)
  PROVE  PairInv'
<1>1. PICK x \in scan[n] :
           x.node \in Nodes /\ (Overdue(age[n][x.node]) \/ judged' = judged)
  BY ScanMemberEffect
<1>2. age[n][x.node] \in {-1, 0, 1}
  BY <1>1 DEF PairInv, Never
<1>3. SuspectAfter \in Nat /\ SuspectAfter >= 2
  BY MembershipAssumption DEF Pair
<1>4. ~Overdue(age[n][x.node])
  BY <1>2, <1>3 DEF Overdue
<1>5. UNCHANGED <<members, up, inbox, age, dueGossip, target, letter, judged, crashes>>
  BY <1>1, <1>4 DEF ScanMember
<1> QED BY <1>5, NothingToTheMatter DEF HoldsAlive

\* A fresh entry for a client that joins suspects nobody.
LEMMA SeedPair ==
  ASSUME TypeOK, PairInv, NEW c \in Clients, SeedUpsert(c)
  PROVE  PairInv'
<1>1. /\ members' = [members EXCEPT ![Coordinator][c] = Entry("alive", 0)]
      /\ UNCHANGED <<up, inbox, age, dueGossip, target, letter, judged, crashes>>
  BY DEF SeedUpsert
<1>2. c \in Nodes /\ Coordinator \in Nodes
  BY DEF Nodes
<1>3. ASSUME NEW k \in Nodes, NEW m \in Nodes
      PROVE  \/ members'[k][m] = members[k][m]
             \/ members'[k][m].status = "alive"
  <2>1. members \in [Nodes -> Lists] /\ members[Coordinator] \in [Nodes -> Info \cup {Unknown}]
    BY <1>2 DEF TypeOK, Lists
  <2>2. members'[k][m] = IF k = Coordinator /\ m = c THEN Entry("alive", 0) ELSE members[k][m]
    BY <1>1, <1>2, <2>1
  <2> QED BY <2>2 DEF Entry
<1>4. \A k \in Nodes : Trusting(members[k]) => Trusting(members[k])'
  BY <1>3 DEF Trusting
<1>5. \A k, m \in Nodes : HoldsAlive(k, m) => HoldsAlive(k, m)'
  BY <1>3 DEF HoldsAlive
<1> QED BY <1>1, <1>4, <1>5, NothingToTheMatter

\* When the work of a tick is done every sender is as young as can be; at the next
\* tick everybody has to send again.
LEMMA TickPair ==
  ASSUME Pair, TypeOK, PairInv, crashes = 0, Tick
  PROVE  PairInv'
<1>1. dueGossip = {} /\ \A n \in Nodes : inbox[n] = <<>> /\ target[n] = n
  BY DEF Tick, Pair, Idle
<1>2. /\ UNCHANGED <<up, members, inbox, target, letter, judged, crashes>>
      /\ dueGossip' = {n \in Nodes : up[n]}
      /\ \A n, m \in Nodes : age'[n][m] =
           IF age[n][m] \in 0..(DeadAfter - 1) THEN age[n][m] + 1 ELSE age[n][m]
  BY DEF Tick
<1>3. dueGossip' = Nodes
  BY <1>2 DEF PairInv
<1>4. \A n, m \in Nodes : HoldsAlive(n, m)' <=> HoldsAlive(n, m)
  BY <1>2 DEF HoldsAlive
<1>5. ASSUME NEW n \in Nodes, NEW m \in Nodes
      PROVE  /\ age'[n][m] \in {Never, 0, 1}
             /\ age'[n][m] # Never => (n # m /\ HoldsAlive(m, n)')
  <2>1. age[n][m] \in {Never, 0} /\ (age[n][m] # Never => (n # m /\ HoldsAlive(m, n)))
    BY <1>1 DEF PairInv, Owes
  <2>2. age'[n][m] \in {Never, 0, 1} /\ (age'[n][m] # Never => age[n][m] # Never)
    BY <1>2, <2>1, MembershipAssumption DEF Never
  <2> QED BY <1>4, <2>1, <2>2
<1>6. \A n \in Nodes : inbox'[n] = <<>>
  BY <1>1, <1>2
<1>7. \A n \in Nodes : up'[n] /\ Trusting(members'[n])
  BY <1>2 DEF PairInv
<1>8. \A n \in Nodes : judged'[n] = {} /\ Underway(n)'
  <2>1. \A n \in Nodes : letter[n] = {} /\ judged[n] = {}
    BY <1>1 DEF PairInv, Underway
  <2> QED BY <1>1, <1>2, <2>1 DEF Underway
<1>9. \A n \in Nodes : Owes(n)'
  BY <1>3 DEF Owes
<1> QED BY <1>5, <1>6, <1>7, <1>8, <1>9 DEF PairInv

\* At the start nobody has heard of anybody.
LEMMA PairInit == Init => PairInv
<1> SUFFICES ASSUME Init PROVE PairInv
  OBVIOUS
<1>1. \A n \in Nodes : Trusting(FirstList(n))
  BY DEF Trusting, FirstList, Entry, Unknown
<1>2. /\ \A n \in Nodes : members[n] = FirstList(n) /\ up[n] /\ inbox[n] = <<>>
      /\ \A n, m \in Nodes : age[n][m] = Never
      /\ dueGossip = {}
      /\ \A n \in Nodes : target[n] = n /\ letter[n] = {} /\ judged[n] = {}
  BY DEF Init
<1> QED BY <1>1, <1>2 DEF PairInv, Underway, Owes, Never

\* Every action that leaves a crash out keeps the pair alive to each other.
LEMMA PairStep ==
  ASSUME Pair, TypeOK, TypeOK', AliveIsVersionZero, PairInv, [Next]_vars
  PROVE  PairInv'
<1> SUFFICES ASSUME crashes' = 0 PROVE PairInv'
  BY DEF PairInv
<1>1. ASSUME UNCHANGED <<members, up, inbox, age, dueGossip, target, letter, judged, crashes>>
      PROVE  PairInv'
  BY <1>1, NothingToTheMatter DEF HoldsAlive
<1>2. ASSUME NEW n \in Nodes, GossipLoop(n) PROVE PairInv'
  <2>1. crashes = 0
    BY <1>2 DEF GossipLoop, GossipNone, GossipPick, GossipCompose, Gossip
  <2> QED BY <1>2, <2>1, GossipPair
<1>3. ASSUME NEW n \in Nodes, ReceiveLoop(n) PROVE PairInv'
  <2>1. CASE Receive(n)
    <3>1. crashes = 0
      BY <2>1 DEF Receive
    <3> QED BY <2>1, <3>1, ReceivePair
  <2>2. CASE ReceiveCallback(n)
    BY <1>1, <2>2 DEF ReceiveCallback
  <2> QED BY <1>3, <2>1, <2>2 DEF ReceiveLoop
<1>4. ASSUME NEW n \in Nodes, DetectorLoop(n) PROVE PairInv'
  <2>1. CASE ScanMember(n)
    <3>1. crashes = 0
      BY <2>1 DEF ScanMember
    <3> QED BY <2>1, <3>1, ScanPair
  <2>2. CASE ScanStart(n)
    BY <1>1, <2>2 DEF ScanStart
  <2>3. CASE ScanCallback(n)
    BY <1>1, <2>3 DEF ScanCallback
  <2>4. CASE ScanWrite(n)
    <3>1. crashes = 0 /\ judged[n] # {}
      BY <2>4 DEF ScanWrite
    <3> QED BY <3>1 DEF PairInv
  <2> QED BY <1>4, <2>1, <2>2, <2>3, <2>4 DEF DetectorLoop
<1>5. CASE Seed
  <2>1. CASE SeedRing
    BY <1>1, <2>1 DEF SeedRing
  <2>2. ASSUME NEW c \in Clients, SeedUpsert(c) PROVE PairInv'
    BY <2>2, SeedPair
  <2> QED BY <1>5, <2>1, <2>2 DEF Seed
<1>6. ASSUME NEW c \in Clients, ClientCrash(c) PROVE PairInv'
  <2>1. crashes \in Nat /\ crashes' = crashes + 1
    BY <1>6, MembershipAssumption DEF ClientCrash, TypeOK
  <2> QED BY <2>1
<1>7. ASSUME NEW c \in Clients, ClientRestart(c) PROVE PairInv'
  <2>1. c \in Nodes /\ ~up[c] /\ crashes = 0
    BY <1>7 DEF ClientRestart, Nodes
  <2> QED BY <2>1 DEF PairInv
<1>8. CASE Tick
  <2>1. crashes = 0
    BY <1>8 DEF Tick
  <2> QED BY <1>8, <2>1, TickPair
<1>9. CASE UNCHANGED vars
  BY <1>1, <1>9 DEF vars
<1> QED BY <1>2, <1>3, <1>4, <1>5, <1>6, <1>7, <1>8, <1>9 DEF Next, Loops

\* As long as neither has crashed, neither of a pair of nodes suspects the other, for
\* any intervals of two ticks or more, any capacity of gossipCh and any order of
\* the loops, Seed calls included.
THEOREM PairIsNeverSuspected ==
  ASSUME Pair
  PROVE  Spec => []NoFalseSuspicionOfAPair
<1>1. Init => PairInv
  BY PairInit
<1>2. TypeOK /\ TypeOK' /\ AliveIsVersionZero /\ PairInv /\ [Next]_vars => PairInv'
  BY PairStep
<1>3. PairInv => NoFalseSuspicionOfAPair
  BY DEF PairInv, Trusting, NoFalseSuspicionOfAPair
<1> QED BY <1>1, <1>2, <1>3, TypeCorrect, AliveIsAlwaysVersionZero, PTL DEF Spec
=============================================================================
