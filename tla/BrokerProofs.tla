---------------------------- MODULE BrokerProofs ----------------------------
(***************************************************************************)
(* Proofs about Broker for every set of connections, client ids, filters   *)
(* and topics.                                                             *)
(***************************************************************************)
EXTENDS Broker, TLAPS

Places == {"reading", "connack", "delivering", "closed"}
Sessions == [clean : BOOLEAN, writer : Conns \cup {NoConn}, nextPid : 0..PidLimit]
Targets == [id : Ids, qos : QoS]
Work == [to : SUBSET Targets, qos : QoS \cup {0}, out : Conns \cup {NoConn}]

(* A handler has a CONNECT pending exactly while CONNACK drains, and no id  *)
(* once it is closed.  A CONNECT under a second id has mixed up the first.  *)
Handlers ==
  \A c \in Conns :
    /\ pending[c] # NoClient <=> pc[c] = "connack"
    /\ pc[c] = "closed" => cid[c] = NoClient
    /\ pc[c] = "connack" /\ cid[c] \notin {NoClient, pending[c]} => cid[c] \in mixed

(* The inductive invariant.                                                 *)
IInv ==
  /\ TypeOK
  /\ Handlers
  /\ SessionFollowsConnection
  /\ SubscriptionsLeadSomewhere
  /\ SchedulerFollowsConnection

-----------------------------------------------------------------------------
(* Among the levels of service of a client's matching filters is a highest. *)
LEMMA GrantedType ==
  ASSUME trie \in Tree!Tries, NEW t, NEW i \in Tree!Subscribers(trie, t)
  PROVE  i \in Ids /\ Tree!GrantedQoS(trie, t, i) \in QoS
<1> DEFINE M == Tree!Matched(t)
           V == {q \in QoS : \E f \in M : trie[f][i] = q}
<1>1. i \in Ids /\ M \subseteq Filters /\ \E f \in M : trie[f][i] # NotSub
  <2>1. M \subseteq Filters
    BY Zenon DEF Tree!Matched
  <2> HIDE DEF M
  <2> QED BY <2>1 DEF Tree!Subscribers, M
<1> HIDE DEF M
<1>2. \A f \in M : trie[f][i] \in QoS \cup {NotSub}
  BY <1>1 DEF Tree!Tries
<1>3. V # {} /\ V \subseteq 0..3
  BY <1>1, <1>2, QoSAssumption
<1>4. \E q \in V : \A r \in V : r <= q
  <2>1. CASE 3 \in V BY <2>1, <1>3
  <2>2. CASE 3 \notin V /\ 2 \in V BY <2>2, <1>3
  <2>3. CASE 3 \notin V /\ 2 \notin V /\ 1 \in V BY <2>3, <1>3
  <2>4. CASE 3 \notin V /\ 2 \notin V /\ 1 \notin V BY <2>4, <1>3
  <2> QED BY <2>1, <2>2, <2>3, <2>4
<1>5. \E q \in QoS : /\ \E f \in M : trie[f][i] = q
                     /\ \A f \in M : trie[f][i] # NotSub => trie[f][i] <= q
  BY <1>2, <1>4
<1> QED BY <1>1, <1>5 DEF Tree!GrantedQoS, M

(* Packet ids stay within their range.                                      *)
LEMMA NextPidType == \A n \in 0..PidLimit : NextPid(n) \in 1..PidLimit
BY PidAssumption DEF NextPid

(* The trie's operations.                                                   *)
LEMMA TrieOps ==
  ASSUME trie \in Tree!Tries, NEW i \in Ids
  PROVE  /\ \A subs \in [Filters -> QoS \cup {NotSub}] :
              /\ Tree!Subscribed(trie, subs, i) \in Tree!Tries
              /\ \A f \in Filters, x \in Ids \ {i} :
                   Tree!Subscribed(trie, subs, i)[f][x] = trie[f][x]
         /\ \A fs \in SUBSET Filters :
              /\ Tree!Unsubscribed(trie, fs, i) \in Tree!Tries
              /\ \A f \in Filters, x \in Ids :
                   Tree!Unsubscribed(trie, fs, i)[f][x] \in {trie[f][x], NotSub}
         /\ Tree!WithoutClient(trie, i) \in Tree!Tries
         /\ \A f \in Filters, x \in Ids :
              Tree!WithoutClient(trie, i)[f][x] = IF x = i THEN NotSub ELSE trie[f][x]
<1> USE DEF Tree!Tries
<1>1. ASSUME NEW subs \in [Filters -> QoS \cup {NotSub}]
      PROVE  /\ Tree!Subscribed(trie, subs, i) \in Tree!Tries
             /\ \A f \in Filters, x \in Ids \ {i} :
                  Tree!Subscribed(trie, subs, i)[f][x] = trie[f][x]
  BY DEF Tree!Subscribed
<1>2. ASSUME NEW fs \in SUBSET Filters
      PROVE  /\ Tree!Unsubscribed(trie, fs, i) \in Tree!Tries
             /\ \A f \in Filters, x \in Ids :
                  Tree!Unsubscribed(trie, fs, i)[f][x] \in {trie[f][x], NotSub}
  BY DEF Tree!Unsubscribed
<1>3. /\ Tree!WithoutClient(trie, i) \in Tree!Tries
      /\ \A f \in Filters, x \in Ids :
           Tree!WithoutClient(trie, i)[f][x] = IF x = i THEN NotSub ELSE trie[f][x]
  BY DEF Tree!WithoutClient
<1> QED BY <1>1, <1>2, <1>3

(* Nobody is connected, nobody subscribes.                                  *)
LEMMA InitInv == Init => IInv
<1> SUFFICES ASSUME Init PROVE IInv
  OBVIOUS
<1> USE NullsAssumption, PidAssumption
<1>1. TypeOK
  <2>1. trie \in Tree!Tries
    BY DEF Init, Tree!EmptyTrie, Tree!Tries
  <2>2. NoSession \in Sessions
    BY DEF NoSession, Sessions
  <2> QED BY <2>1, <2>2 DEF Init, TypeOK, NoWork, Ids, Sessions
<1>2. Handlers
  BY DEF Init, Handlers
<1>3. SessionFollowsConnection
  BY DEF Init, SessionFollowsConnection, Owns, NoSession, Unmixed
<1>4. SubscriptionsLeadSomewhere
  BY DEF Init, SubscriptionsLeadSomewhere, Tree!EmptyTrie, Unmixed, Ids
<1>5. SchedulerFollowsConnection
  BY DEF Init, SchedulerFollowsConnection, Unmixed
<1> QED BY <1>1, <1>2, <1>3, <1>4, <1>5 DEF IInv

-----------------------------------------------------------------------------
(* The parts of the type invariant a step of one handler can touch.         *)
LEMMA Types ==
  ASSUME TypeOK
  PROVE  /\ pc \in [Conns -> Places] /\ cid \in [Conns -> Ids] /\ pending \in [Conns -> Ids]
         /\ targets \in [Conns -> Work]
         /\ sessions \in [Clients -> Sessions] /\ trie \in Tree!Tries
         /\ scheds \in [Clients -> {"none", "fresh", "resumed"}]
         /\ cache \subseteq Clients /\ mixed \subseteq Clients
         /\ Clients \subseteq Ids /\ NoClient \in Ids
BY DEF TypeOK, Places, Sessions, Ids, Targets, Work

(* For an id that is not mixed up at most one connection owns it.           *)
LEMMA OneOwner ==
  ASSUME SessionFollowsConnection, NEW x \in Unmixed, NEW c \in Conns, NEW d \in Conns,
         Owns(c, x), Owns(d, x)
  PROVE  c = d
BY DEF SessionFollowsConnection

(* The clean-up of a connection that is not mixed up, or whose pending id   *)
(* is counted as mixed from now on.                                         *)
LEMMA LeaveInv ==
  ASSUME IInv, NEW c \in Conns, Live(c), Leave(c),
         mixed' \subseteq Clients, mixed \subseteq mixed',
         pending[c] = NoClient \/ pending[c] \in mixed'
  PROVE  IInv'
<1> USE DEF IInv
<1> USE NullsAssumption
<1> DEFINE x == cid[c]
<1>1. /\ pc \in [Conns -> Places] /\ cid \in [Conns -> Ids] /\ pending \in [Conns -> Ids]
      /\ sessions \in [Clients -> Sessions] /\ trie \in Tree!Tries
      /\ scheds \in [Clients -> {"none", "fresh", "resumed"}]
      /\ cache \subseteq Clients /\ mixed \subseteq Clients
      /\ Clients \subseteq Ids /\ NoClient \in Ids
  BY Types
<1>2. /\ pc' = [pc EXCEPT ![c] = "closed"] /\ cid' = [cid EXCEPT ![c] = NoClient]
      /\ pending' = [pending EXCEPT ![c] = NoClient]
      /\ targets' = [targets EXCEPT ![c] = NoWork]
  BY DEF Leave
<1>3. /\ x = NoClient => UNCHANGED <<sessions, trie, scheds, cache>>
      /\ x # NoClient =>
           /\ sessions' = [sessions EXCEPT ![x] = Removed(x)]
           /\ trie' = Tree!WithoutClient(trie, x)
           /\ scheds' = [scheds EXCEPT ![x] = "none"]
           /\ cache' \subseteq Clients
  BY <1>1 DEF Leave, Ids
<1>4. x # NoClient => x \in Clients /\ Removed(x) \in Sessions /\ Removed(x).writer = NoConn
  BY <1>1, PidAssumption DEF Removed, NoSession, Sessions, Ids
<1>5. /\ sessions' \in [Clients -> Sessions]
      /\ scheds' \in [Clients -> {"none", "fresh", "resumed"}] /\ cache' \subseteq Clients
  BY <1>1, <1>3, <1>4
<1>6. /\ trie' \in Tree!Tries
      /\ \A f \in Filters, y \in Ids :
           trie'[f][y] = IF x # NoClient /\ y = x THEN NotSub ELSE trie[f][y]
  BY <1>1, <1>3, TrieOps
<1>7. TypeOK'
  <2>1. pc' \in [Conns -> Places] /\ cid' \in [Conns -> Ids] /\ pending' \in [Conns -> Ids]
    BY <1>1, <1>2 DEF Places
  <2>2. targets' \in [Conns -> Work]
    BY <1>2, Types DEF NoWork, Work
  <2> QED BY <1>5, <1>6, <2>1, <2>2 DEF TypeOK, Places, Sessions, Targets, Work
<1>8. Handlers'
  BY <1>1, <1>2 DEF Handlers
<1>9. /\ Unmixed' \subseteq Unmixed
      /\ \A d \in Conns, y \in Clients : Owns(d, y)' <=> d # c /\ Owns(d, y)
      /\ \A y \in Unmixed' : Owns(c, y) <=> y = x
  BY <1>1, <1>2 DEF Unmixed, Owns, Live
<1>10. SessionFollowsConnection'
  <2> SUFFICES ASSUME NEW y \in Unmixed', NEW d \in Conns
               PROVE  Owns(d, y)' <=> sessions'[y].writer = d
    BY DEF SessionFollowsConnection
  <2>1. y \in Clients /\ y \in Unmixed
    BY <1>9 DEF Unmixed
  <2>2. Owns(d, y) <=> sessions[y].writer = d
    BY <2>1 DEF SessionFollowsConnection
  <2>3. Owns(c, y) <=> sessions[y].writer = c
    BY <2>1 DEF SessionFollowsConnection
  <2>4. CASE y = x
    BY <1>1, <1>3, <1>4, <1>9, <2>1, <2>2, <2>3, <2>4
  <2>5. CASE y # x
    BY <1>1, <1>3, <1>9, <2>1, <2>2, <2>3, <2>5
  <2> QED BY <2>4, <2>5
<1>11. SubscriptionsLeadSomewhere'
  <2> SUFFICES ASSUME NEW y \in Unmixed', NEW f \in Filters, trie'[f][y] # NotSub
               PROVE  \E d \in Conns : Owns(d, y)' /\ Writer(y)' = d
    BY DEF SubscriptionsLeadSomewhere
  <2>1. y \in Clients /\ y \in Unmixed /\ y # x /\ trie[f][y] # NotSub
    BY <1>1, <1>6, <1>9 DEF Unmixed
  <2>2. PICK d \in Conns : Owns(d, y) /\ Writer(y) = d
    BY <2>1 DEF SubscriptionsLeadSomewhere
  <2>3. Owns(d, y)' /\ sessions'[y] = sessions[y]
    BY <1>1, <1>3, <1>9, <2>1, <2>2
  <2> QED BY <2>2, <2>3 DEF Writer
<1>12. SchedulerFollowsConnection'
  <2> SUFFICES ASSUME NEW y \in Unmixed'
               PROVE  scheds'[y] # "none" <=> \E d \in Conns : Live(d)' /\ cid'[d] = y
    BY DEF SchedulerFollowsConnection
  <2>1. y \in Clients /\ y \in Unmixed /\ y # NoClient
    BY <1>9 DEF Unmixed
  <2>2. scheds[y] # "none" <=> \E d \in Conns : Live(d) /\ cid[d] = y
    BY <2>1 DEF SchedulerFollowsConnection
  <2>3. \A d \in Conns : Live(d)' /\ cid'[d] = y <=> d # c /\ Live(d) /\ cid[d] = y
    BY <1>1, <1>2, <2>1 DEF Live
  <2>4. CASE y = x
    <3>1. \A d \in Conns : Live(d) /\ cid[d] = y => d = c
      BY <2>1, <2>4, OneOwner DEF Owns
    <3> QED BY <1>1, <1>3, <2>1, <2>3, <2>4, <3>1
  <2>5. CASE y # x
    BY <1>1, <1>3, <2>1, <2>2, <2>3, <2>5
  <2> QED BY <2>4, <2>5
<1> QED BY <1>7, <1>8, <1>10, <1>11, <1>12

(* A connection that hangs up, or whose CONNACK fails.                      *)
LEMMA HangupInv ==
  ASSUME IInv, NEW c \in Conns, Hangup(c) \/ ConnackFails(c)
  PROVE  IInv'
<1>1. TypeOK /\ Handlers /\ pending[c] \in Ids /\ mixed \subseteq Clients
  BY DEF IInv, TypeOK
<1>2. Live(c) /\ Leave(c) /\ mixed \subseteq mixed' /\ mixed' \subseteq Clients
      /\ (pending[c] = NoClient \/ pending[c] \in mixed')
  BY <1>1 DEF Hangup, ConnackFails, Live, Handlers, Ids
<1> QED BY <1>2, LeaveInv

(* CONNECT: the id is this connection's from now on, or mixed up.           *)
LEMMA ConnectInv == ASSUME IInv, NEW c \in Conns, Connect(c) PROVE IInv'
<1> USE DEF IInv
<1> USE NullsAssumption
<1>1. /\ pc \in [Conns -> Places] /\ cid \in [Conns -> Ids] /\ pending \in [Conns -> Ids]
      /\ sessions \in [Clients -> Sessions] /\ trie \in Tree!Tries
      /\ scheds \in [Clients -> {"none", "fresh", "resumed"}]
      /\ cache \subseteq Clients /\ mixed \subseteq Clients
      /\ Clients \subseteq Ids /\ NoClient \in Ids
  BY Types
<1>2. PICK x \in Clients, clean \in BOOLEAN :
        /\ pc[c] = "reading"
        /\ sessions' = [sessions EXCEPT ![x] = Created(x, clean, c)]
        /\ pending' = [pending EXCEPT ![c] = x]
        /\ pc' = [pc EXCEPT ![c] = "connack"]
        /\ mixed' = mixed
             \cup {y \in {x} : \E d \in Conns \ {c} : Owns(d, y)}
             \cup {y \in Clients : y = cid[c] /\ y # x}
        /\ UNCHANGED <<cid, targets, trie, scheds, cache>>
  BY DEF Connect
<1>3. Created(x, clean, c) \in Sessions /\ Created(x, clean, c).writer = c
  BY <1>1, PidAssumption DEF Created, Sessions
<1>4. sessions' \in [Clients -> Sessions] /\ sessions'[x].writer = c
      /\ \A y \in Clients \ {x} : sessions'[y] = sessions[y]
  BY <1>1, <1>2, <1>3
<1>5. mixed' \subseteq Clients /\ mixed \subseteq mixed' /\ Unmixed' \subseteq Unmixed
  BY <1>1, <1>2 DEF Unmixed
<1>6. TypeOK'
  <2>1. pc' \in [Conns -> Places] /\ pending' \in [Conns -> Ids]
    BY <1>1, <1>2 DEF Places
  <2> QED BY <1>1, <1>2, <1>4, <1>5, <2>1 DEF TypeOK, Places, Sessions
<1>7. Handlers'
  <2>1. x # NoClient
    OBVIOUS
  <2>2. cid[c] \notin {NoClient, x} => cid[c] \in mixed'
    BY <1>1, <1>2 DEF Ids
  <2> QED BY <1>1, <1>2, <1>5, <2>1, <2>2 DEF Handlers
<1>8. pending[c] = NoClient
  BY <1>2 DEF Handlers
<1>9. \A y \in Unmixed', d \in Conns :
        /\ y # x => (Owns(d, y)' <=> Owns(d, y))
        /\ y = x => (Owns(d, y)' <=> d = c)
  BY <1>1, <1>2, <1>8 DEF Unmixed, Owns, Live
<1>10. SessionFollowsConnection'
  BY <1>4, <1>5, <1>9 DEF SessionFollowsConnection, Unmixed
<1>11. SubscriptionsLeadSomewhere'
  <2> SUFFICES ASSUME NEW y \in Unmixed', NEW f \in Filters, trie[f][y] # NotSub
               PROVE  \E d \in Conns : Owns(d, y)' /\ Writer(y)' = d
    BY <1>2 DEF SubscriptionsLeadSomewhere
  <2>1. PICK d \in Conns : Owns(d, y) /\ Writer(y) = d
    BY <1>5 DEF SubscriptionsLeadSomewhere
  <2>2. y \in Clients
    BY DEF Unmixed
  <2>3. Writer(y)' = sessions'[y].writer /\ Writer(y) = sessions[y].writer
    BY <2>2 DEF Writer
  <2> QED BY <1>4, <1>9, <2>1, <2>2, <2>3
<1>12. SchedulerFollowsConnection'
  <2>1. \A d \in Conns : Live(d)' <=> Live(d)
    BY <1>1, <1>2 DEF Live
  <2> QED BY <1>2, <1>5, <2>1 DEF SchedulerFollowsConnection
<1> QED BY <1>6, <1>7, <1>10, <1>11, <1>12

(* CONNACK is out: what was pending is the connection's id.                 *)
LEMMA ConnectedInv == ASSUME IInv, NEW c \in Conns, Connected(c) PROVE IInv'
<1> USE DEF IInv
<1> USE NullsAssumption
<1> DEFINE x == pending[c]
<1>1. /\ pc \in [Conns -> Places] /\ cid \in [Conns -> Ids] /\ pending \in [Conns -> Ids]
      /\ sessions \in [Clients -> Sessions] /\ trie \in Tree!Tries
      /\ scheds \in [Clients -> {"none", "fresh", "resumed"}]
      /\ cache \subseteq Clients /\ mixed \subseteq Clients
      /\ Clients \subseteq Ids /\ NoClient \in Ids
  BY Types
<1>2. /\ pc[c] = "connack" /\ cid' = [cid EXCEPT ![c] = x]
      /\ pending' = [pending EXCEPT ![c] = NoClient]
      /\ scheds' = [scheds EXCEPT ![x] = IF x \in cache THEN "resumed" ELSE "fresh"]
      /\ pc' = [pc EXCEPT ![c] = "reading"]
      /\ UNCHANGED <<targets, sessions, trie, cache, mixed>>
  BY DEF Connected
<1>3. x \in Clients /\ (cid[c] \in Unmixed => cid[c] = x)
  BY <1>1, <1>2 DEF Handlers, Ids, Unmixed
<1>4. TypeOK'
  <2>1. pc' \in [Conns -> Places] /\ cid' \in [Conns -> Ids] /\ pending' \in [Conns -> Ids]
        /\ scheds' \in [Clients -> {"none", "fresh", "resumed"}]
    BY <1>1, <1>2, <1>3 DEF Places
  <2> QED BY <1>1, <1>2, <2>1 DEF TypeOK, Places, Sessions
<1>5. Handlers'
  BY <1>1, <1>2 DEF Handlers
<1>6. \A y \in Unmixed, d \in Conns : Owns(d, y)' <=> Owns(d, y)
  BY <1>1, <1>2, <1>3 DEF Unmixed, Owns, Live
<1>7. Unmixed' = Unmixed
  BY <1>2 DEF Unmixed
<1>8. SessionFollowsConnection'
  BY <1>2, <1>6, <1>7 DEF SessionFollowsConnection
<1>9. SubscriptionsLeadSomewhere'
  <2>1. \A y : Writer(y)' = Writer(y)
    BY <1>2 DEF Writer
  <2> QED BY <1>2, <1>6, <1>7, <2>1 DEF SubscriptionsLeadSomewhere
<1>10. SchedulerFollowsConnection'
  <2> SUFFICES ASSUME NEW y \in Unmixed
               PROVE  scheds'[y] # "none" <=> \E d \in Conns : Live(d)' /\ cid'[d] = y
    BY <1>7 DEF SchedulerFollowsConnection
  <2>1. y \in Clients
    BY DEF Unmixed
  <2>2. CASE y = x
    BY <1>1, <1>2, <1>3, <2>2 DEF Live
  <2>3. CASE y # x
    <3>1. cid[c] # y
      BY <1>3, <2>3
    <3>2. \A d \in Conns : Live(d)' /\ cid'[d] = y <=> Live(d) /\ cid[d] = y
      BY <1>1, <1>2, <2>3, <3>1 DEF Live
    <3>3. scheds'[y] = scheds[y]
      BY <1>1, <1>2, <2>1, <2>3
    <3> QED BY <3>2, <3>3 DEF SchedulerFollowsConnection
  <2> QED BY <2>2, <2>3
<1> QED BY <1>4, <1>5, <1>8, <1>9, <1>10

-----------------------------------------------------------------------------
(* One round of the loop over subscribers: it ends, or writes to the writer *)
(* of a session of another id, whose next packet id may advance.            *)
LEMMA DeliverEffect ==
  ASSUME TypeOK, NEW c \in Conns, NEW to \in SUBSET Targets, NEW q \in QoS \cup {0},
         Deliver(c, to, q)
  PROVE  /\ targets' \in [Conns -> Work]
         /\ \A d \in Conns \ {c} : targets'[d] = targets[d]
         /\ pc' \in {[pc EXCEPT ![c] = "reading"], [pc EXCEPT ![c] = "delivering"]}
         /\ \/ targets'[c].out = NoConn /\ UNCHANGED sessions
            \/ \E x \in Clients \ {cid[c]} :
                 /\ targets'[c].out \in Conns /\ targets'[c].out = sessions[x].writer
                 /\ sessions' \in {sessions,
                                  [sessions EXCEPT ![x].nextPid = NextPid(sessions[x].nextPid)]}
<1> USE NullsAssumption
<1>1. /\ sessions \in [Clients -> Sessions]
      /\ targets \in [Conns -> Work]
  BY Types
<1> DEFINE others == {s \in to : s.id \notin {cid[c], NoClient}}
           reachable == {s \in others : Writer(s.id) # NoConn}
<1>3. CASE targets' = [targets EXCEPT ![c] = NoWork] /\ pc' = [pc EXCEPT ![c] = "reading"]
           /\ UNCHANGED sessions
  BY <1>1, <1>3 DEF NoWork, Work
<1>4. CASE \E s \in reachable, passed \in SUBSET (others \ reachable) :
             /\ targets' = [targets EXCEPT ![c] =
                  [to |-> others \ (passed \cup {s}), qos |-> q, out |-> Writer(s.id)]]
             /\ pc' = [pc EXCEPT ![c] = "delivering"]
             /\ sessions' = IF s.qos > 0 /\ q > 0
                            THEN [sessions EXCEPT ![s.id].nextPid = NextPid(@)]
                            ELSE sessions
  <2>1. PICK s \in reachable, passed \in SUBSET (others \ reachable) :
             /\ targets' = [targets EXCEPT ![c] =
                  [to |-> others \ (passed \cup {s}), qos |-> q, out |-> Writer(s.id)]]
             /\ pc' = [pc EXCEPT ![c] = "delivering"]
             /\ sessions' = IF s.qos > 0 /\ q > 0
                            THEN [sessions EXCEPT ![s.id].nextPid = NextPid(@)]
                            ELSE sessions
    BY <1>4
  <2>2. s \in Targets /\ s.id \in Clients \ {cid[c]} /\ Writer(s.id) # NoConn
    BY DEF Targets, Ids
  <2>3. Writer(s.id) = sessions[s.id].writer /\ Writer(s.id) \in Conns
    BY <1>1, <2>2 DEF Writer, Sessions
  <2>4. sessions' \in {sessions,
                      [sessions EXCEPT ![s.id].nextPid = NextPid(sessions[s.id].nextPid)]}
    BY <2>1
  <2>5. [to |-> others \ (passed \cup {s}), qos |-> q, out |-> Writer(s.id)] \in Work
    BY <2>3 DEF Work
  <2> HIDE DEF others, reachable
  <2> QED BY <1>1, <2>1, <2>2, <2>3, <2>4, <2>5
<1> QED BY <1>3, <1>4 DEF Deliver

(* What a PUBLISH has to serve, at its beginning and later.                 *)
LEMMA PublishDelivers ==
  ASSUME TypeOK, NEW c \in Conns, Publish(c) \/ DeliverNext(c)
  PROVE  /\ pc[c] \in {"reading", "delivering"}
         /\ \E to \in SUBSET Targets, q \in QoS \cup {0} : Deliver(c, to, q)
         /\ UNCHANGED <<cid, pending, trie, scheds, cache, mixed>>
<1>1. CASE Publish(c)
  <2>1. PICK t \in Topics, q \in QoS :
          Deliver(c, {[id |-> i, qos |-> Tree!GrantedQoS(trie, t, i)] :
                        i \in Tree!Subscribers(trie, t)}, q)
    BY <1>1 DEF Publish
  <2> DEFINE to == {[id |-> i, qos |-> Tree!GrantedQoS(trie, t, i)] :
                      i \in Tree!Subscribers(trie, t)}
  <2>2. to \subseteq Targets
    <3>1. \A i \in Tree!Subscribers(trie, t) :
            i \in Ids /\ Tree!GrantedQoS(trie, t, i) \in QoS
      BY Types, GrantedType
    <3> QED BY <3>1 DEF Targets
  <2> HIDE DEF to
  <2>3. Deliver(c, to, q)
    BY <2>1 DEF to
  <2> QED BY <1>1, <2>2, <2>3 DEF Publish
<1>2. CASE DeliverNext(c)
  <2>1. targets[c].to \in SUBSET Targets /\ targets[c].qos \in QoS \cup {0}
    BY Types DEF Work
  <2> QED BY <1>2, <2>1 DEF DeliverNext
<1> QED BY <1>1, <1>2

(* Serving a subscriber changes nobody's session but for a packet id.       *)
LEMMA DeliverInv ==
  ASSUME IInv, NEW c \in Conns, Publish(c) \/ DeliverNext(c) PROVE IInv'
<1> USE DEF IInv
<1> USE NullsAssumption
<1>1. /\ pc \in [Conns -> Places] /\ cid \in [Conns -> Ids] /\ pending \in [Conns -> Ids]
      /\ sessions \in [Clients -> Sessions]
  BY Types
<1>2. /\ pc[c] \in {"reading", "delivering"}
      /\ UNCHANGED <<cid, pending, trie, scheds, cache, mixed>>
  BY PublishDelivers
<1>3. /\ targets' \in [Conns -> Work]
      /\ pc' \in {[pc EXCEPT ![c] = "reading"], [pc EXCEPT ![c] = "delivering"]}
      /\ \/ UNCHANGED sessions
         \/ \E x \in Clients :
              sessions' \in {sessions,
                            [sessions EXCEPT ![x].nextPid = NextPid(sessions[x].nextPid)]}
  BY PublishDelivers, DeliverEffect
<1>4. /\ sessions' \in [Clients -> Sessions]
      /\ \A x \in Clients : sessions'[x].writer = sessions[x].writer
  <2>1. CASE UNCHANGED sessions
    BY <1>1, <2>1
  <2>2. CASE \E x \in Clients :
               sessions' = [sessions EXCEPT ![x].nextPid = NextPid(sessions[x].nextPid)]
    <3>1. PICK x \in Clients :
             sessions' = [sessions EXCEPT ![x].nextPid = NextPid(sessions[x].nextPid)]
      BY <2>2
    <3>2. sessions[x] \in Sessions /\ NextPid(sessions[x].nextPid) \in 0..PidLimit
      BY <1>1, NextPidType, PidAssumption DEF Sessions
    <3> QED BY <1>1, <3>1, <3>2 DEF Sessions
  <2> QED BY <1>3, <2>1, <2>2
<1>5. pc' \in [Conns -> Places] /\ (\A d \in Conns : Live(d)' <=> Live(d))
      /\ (\A d \in Conns : pc'[d] = "connack" <=> pc[d] = "connack")
      /\ (\A d \in Conns : pc'[d] = "closed" <=> pc[d] = "closed")
  BY <1>1, <1>2, <1>3 DEF Places, Live
<1>6. TypeOK'
  BY <1>2, <1>3, <1>4, <1>5 DEF TypeOK, Places, Sessions, Work, Targets
<1>7. Handlers'
  BY <1>2, <1>5 DEF Handlers
<1>8. \A x \in Clients, d \in Conns : Owns(d, x)' <=> Owns(d, x)
  BY <1>2, <1>5 DEF Owns
<1>9. Unmixed' = Unmixed /\ Unmixed \subseteq Clients
  BY <1>2 DEF Unmixed
<1>10. SessionFollowsConnection'
  BY <1>4, <1>8, <1>9 DEF SessionFollowsConnection
<1>11. SubscriptionsLeadSomewhere'
  <2>1. \A x \in Clients : Writer(x)' = Writer(x)
    BY <1>4 DEF Writer
  <2> QED BY <1>2, <1>8, <1>9, <2>1 DEF SubscriptionsLeadSomewhere
<1>12. SchedulerFollowsConnection'
  BY <1>2, <1>5, <1>9 DEF SchedulerFollowsConnection
<1> QED BY <1>6, <1>7, <1>10, <1>11, <1>12

(* Subscriptions change under the id of the connection, which owns it.      *)
LEMMA SubscribeInv ==
  ASSUME IInv, NEW c \in Conns, Subscribe(c) \/ Unsubscribe(c) PROVE IInv'
<1> USE DEF IInv
<1> USE NullsAssumption
<1>1. cid[c] \in Ids /\ trie \in Tree!Tries /\ pc[c] = "reading"
      /\ UNCHANGED <<pc, cid, pending, targets, sessions, scheds, cache, mixed>>
  BY Types DEF Subscribe, Unsubscribe
<1>2. /\ trie' \in Tree!Tries
      /\ \A f \in Filters, x \in Ids \ {cid[c]} : trie'[f][x] \in {trie[f][x], NotSub}
  BY <1>1, TrieOps DEF Subscribe, Unsubscribe
<1>3. TypeOK' /\ Handlers' /\ SessionFollowsConnection' /\ SchedulerFollowsConnection'
  BY <1>1, <1>2 DEF TypeOK, Handlers, SessionFollowsConnection, SchedulerFollowsConnection,
                    Owns, Live, Unmixed
<1>4. SubscriptionsLeadSomewhere'
  <2> SUFFICES ASSUME NEW x \in Unmixed, NEW f \in Filters, trie'[f][x] # NotSub
               PROVE  \E d \in Conns : Owns(d, x) /\ Writer(x) = d
    BY <1>1 DEF SubscriptionsLeadSomewhere, Unmixed, Owns, Live, Writer
  <2>1. x \in Clients /\ x \in Ids
    BY DEF Unmixed, Ids
  <2>2. CASE x = cid[c]
    <3>1. Owns(c, x)
      BY <1>1, <2>2 DEF Owns, Live
    <3>2. Writer(x) = c
      BY <2>1, <3>1 DEF SessionFollowsConnection, Writer
    <3> QED BY <3>1, <3>2
  <2>3. CASE x # cid[c]
    BY <1>2, <2>1, <2>3 DEF SubscriptionsLeadSomewhere
  <2> QED BY <2>2, <2>3
<1> QED BY <1>3, <1>4

(* Every step keeps the invariant.                                          *)
LEMMA StepInv == IInv /\ [Next]_vars => IInv'
<1> SUFFICES ASSUME IInv, [Next]_vars PROVE IInv'
  OBVIOUS
<1>1. ASSUME NEW c \in Conns, Handler(c) PROVE IInv'
  BY <1>1, HangupInv, ConnectInv, ConnectedInv, DeliverInv, SubscribeInv DEF Handler
<1>2. CASE UNCHANGED vars
  <2>1. UNCHANGED <<pc, cid, pending, targets, sessions, trie, scheds, cache, mixed>>
    BY <1>2 DEF vars
  <2> QED BY <2>1 DEF IInv, TypeOK, Handlers, SessionFollowsConnection,
                      SubscriptionsLeadSomewhere, SchedulerFollowsConnection,
                      Owns, Live, Unmixed, Writer
<1> QED BY <1>1, <1>2 DEF Next

(* The inductive invariant holds in every reachable state.                  *)
THEOREM Invariance == Spec => []IInv
BY InitInv, StepInv, PTL DEF Spec

(* Every variable keeps its type, packet ids their 16 bits.                 *)
THEOREM TypeCorrect == Spec => []TypeOK
<1>1. IInv => TypeOK
  BY DEF IInv
<1> QED BY <1>1, Invariance, PTL

(* Unless two connections compete for an id, its session's writer is that   *)
(* of its one live connection.                                              *)
THEOREM SessionsFollow == Spec => []SessionFollowsConnection
<1>1. IInv => SessionFollowsConnection
  BY DEF IInv
<1> QED BY <1>1, Invariance, PTL

(* ... its subscriptions lead to that connection.                           *)
THEOREM SubscriptionsFollow == Spec => []SubscriptionsLeadSomewhere
<1>1. IInv => SubscriptionsLeadSomewhere
  BY DEF IInv
<1> QED BY <1>1, Invariance, PTL

(* ... and it has a scheduler exactly while it is connected.                *)
THEOREM SchedulersFollow == Spec => []SchedulerFollowsConnection
<1>1. IInv => SchedulerFollowsConnection
  BY DEF IInv
<1> QED BY <1>1, Invariance, PTL

-----------------------------------------------------------------------------
(* Only the loop over subscribers chooses a connection to write to.         *)
LEMMA OnlyDeliverWrites ==
  ASSUME TypeOK, NEW c \in Conns, [Next]_vars,
         targets'[c] # targets[c], targets'[c].out # NoConn
  PROVE  Publish(c) \/ DeliverNext(c)
<1>1. targets \in [Conns -> Work] /\ NoWork.out = NoConn
  BY Types DEF NoWork
<1>2. PICK d \in Conns : Handler(d)
  BY DEF Next, vars
<1>3. CASE Hangup(d) \/ ConnackFails(d)
  BY <1>1, <1>3 DEF Hangup, ConnackFails, Leave
<1>4. CASE Connect(d) \/ Connected(d) \/ Subscribe(d) \/ Unsubscribe(d)
  BY <1>4 DEF Connect, Connected, Subscribe, Unsubscribe
<1>5. CASE Publish(d) \/ DeliverNext(d)
  <2>1. \A e \in Conns \ {d} : targets'[e] = targets[e]
    BY <1>5, PublishDelivers, DeliverEffect
  <2> QED BY <1>5, <2>1
<1> QED BY <1>2, <1>3, <1>4, <1>5 DEF Handler

(* However old the list of subscribers is, a PUBLISH is written only to a   *)
(* connection that is open, and never back to the publisher.                *)
THEOREM PublishesReachOthers == Spec => WritesReachOthers
<1>1. ASSUME IInv, [Next]_vars, NEW c \in Conns, targets'[c].out # NoConn,
             targets'[c] # targets[c], mixed = {}
      PROVE  Live(targets'[c].out) /\ targets'[c].out # c
  <2> USE DEF IInv
  <2>1. Publish(c) \/ DeliverNext(c)
    BY <1>1, OnlyDeliverWrites
  <2>2. pc[c] \in {"reading", "delivering"}
    BY <1>1, <2>1, PublishDelivers
  <2>3. PICK x \in Clients \ {cid[c]} :
          targets'[c].out \in Conns /\ targets'[c].out = sessions[x].writer
    BY <1>1, <2>1, PublishDelivers, DeliverEffect
  <2>4. Owns(targets'[c].out, x)
    BY <1>1, <2>3 DEF SessionFollowsConnection, Unmixed
  <2>5. ~Owns(c, x)
    <3>1. pending[c] = NoClient
      BY <1>1, <2>2 DEF Handlers
    <3> QED BY <2>3, <3>1, NullsAssumption DEF Owns
  <2> QED BY <2>4, <2>5 DEF Owns
<1>2. IInv /\ [Next]_vars =>
        [\A c \in Conns :
           LET d == targets'[c].out
           IN  d # NoConn /\ targets'[c] # targets[c] /\ mixed = {} => Live(d) /\ d # c]_vars
  BY <1>1
<1> QED BY <1>2, Invariance, PTL DEF Spec, WritesReachOthers

(* Packet ids of a persistent session are never set back by a reconnect and *)
(* advance one at a time.                                                   *)
THEOREM PacketIdsGoOn == Spec => PersistentIdsGoOn
<1> DEFINE GoesOn(x) ==
      LET before == sessions[x]
          after == sessions'[x]
      IN  HasSession(x) /\ ~before.clean /\ ~after.clean =>
            \/ after.nextPid = before.nextPid
            \/ after.nextPid = NextPid(before.nextPid) /\ after.writer = before.writer
<1>1. ASSUME IInv, Next, NEW x \in Clients PROVE GoesOn(x)
  <2>1. sessions \in [Clients -> Sessions]
    BY <1>1, Types DEF IInv
  <2>2. PICK c \in Conns : Handler(c)
    BY <1>1 DEF Next
  <2>3. CASE Hangup(c) \/ ConnackFails(c)
    <3>1. sessions'[x] \in {sessions[x], Removed(x)}
      BY <2>1, <2>3 DEF Hangup, ConnackFails, Leave
    <3>2. Removed(x).clean \/ Removed(x).nextPid = sessions[x].nextPid
      BY <2>1 DEF Removed, NoSession, Sessions
    <3> QED BY <3>1, <3>2
  <2>4. CASE Connect(c)
    <3>1. PICK y \in Clients, clean \in BOOLEAN :
            sessions' = [sessions EXCEPT ![y] = Created(y, clean, c)]
      BY <2>4 DEF Connect
    <3>2. HasSession(y) =>
            Created(y, clean, c).clean \/ Created(y, clean, c).nextPid = sessions[y].nextPid
      BY <2>1 DEF Created, Sessions
    <3> QED BY <2>1, <3>1, <3>2
  <2>5. CASE Connected(c) \/ Subscribe(c) \/ Unsubscribe(c)
    BY <2>5 DEF Connected, Subscribe, Unsubscribe
  <2>6. CASE Publish(c) \/ DeliverNext(c)
    <3>1. CASE UNCHANGED sessions
      BY <3>1
    <3>2. CASE \E y \in Clients :
                 sessions' = [sessions EXCEPT ![y].nextPid = NextPid(sessions[y].nextPid)]
      BY <2>1, <3>2 DEF Sessions
    <3>3. \/ UNCHANGED sessions
          \/ \E y \in Clients :
               sessions' = [sessions EXCEPT ![y].nextPid = NextPid(sessions[y].nextPid)]
      BY <1>1, <2>6, PublishDelivers, DeliverEffect DEF IInv
    <3> QED BY <3>1, <3>2, <3>3
  <2> QED BY <2>2, <2>3, <2>4, <2>5, <2>6 DEF Handler
<1>2. IInv /\ [Next]_vars => [\A x \in Clients : GoesOn(x)]_vars
  BY <1>1
<1> QED BY <1>2, Invariance, PTL DEF Spec, PersistentIdsGoOn
=============================================================================
