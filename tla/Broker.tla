------------------------------- MODULE Broker -------------------------------
(***************************************************************************)
(* QDAPBroker (broker/broker.py) with its SessionStore, its TopicTree, the *)
(* schedulers it keeps for its clients and the process-wide SessionCache   *)
(* of their profiles.  Every connection has a handler coroutine; an action *)
(* runs one handler from an await to the next, so everything a handler     *)
(* keeps across a drain (the id it will answer to, the subscribers it has  *)
(* still to serve) is a variable of its own and may be stale when used.    *)
(***************************************************************************)
EXTENDS Integers, Sequences, FiniteSets

CONSTANTS
  Conns,     \* connections: a handler, its reader and its writer
  Clients,   \* MQTT client ids
  NoConn,    \* a session's writer is None
  NoClient,  \* client_id is None: no CONNECT has been handled
  Filters, Topics, QoS, NotSub,
  PidLimit   \* 65535: packet ids are 1..PidLimit

ASSUME PidAssumption == PidLimit \in Nat \ {0}
ASSUME NullsAssumption == NoClient \notin Clients /\ NoConn \notin Conns
ASSUME QoSAssumption == QoS \subseteq 0..3 /\ NotSub \notin QoS

Ids == Clients \cup {NoClient}
Tree == INSTANCE TopicTree

VARIABLES
  pc,        \* where each handler is
  cid,       \* handle_client's local client_id
  pending,   \* _handle_packet's client_id while CONNACK drains
  targets,   \* subscribers a PUBLISH has still to serve, with its QoS
  sessions,  \* SessionStore._sessions
  trie,      \* topic_tree
  scheds,    \* self._schedulers: is there one, and has it a device?
  cache,     \* clients with a profile in the SessionCache
  mixed      \* history: ids whose connections got in each other's way

vars == <<pc, cid, pending, targets, sessions, trie, scheds, cache, mixed>>

NoSession == [clean |-> TRUE, writer |-> NoConn, nextPid |-> 0]
NoWork == [to |-> {}, qos |-> 0, out |-> NoConn]

Live(c) == pc[c] # "closed"
Owns(c, x) == Live(c) /\ x \in {cid[c], pending[c]}

(* A connection nobody has opened yet is one that has sent nothing.         *)
Init ==
  /\ pc = [c \in Conns |-> "reading"]
  /\ cid = [c \in Conns |-> NoClient]
  /\ pending = [c \in Conns |-> NoClient]
  /\ targets = [c \in Conns |-> NoWork]
  /\ sessions = [x \in Clients |-> NoSession]
  /\ trie = Tree!EmptyTrie
  /\ scheds = [x \in Clients |-> "none"]
  /\ cache = {}
  /\ mixed = {}

-----------------------------------------------------------------------------
(* SessionStore                                                             *)
HasSession(x) == sessions[x] # NoSession
Writer(x) == IF x = NoClient THEN NoConn ELSE sessions[x].writer

(* mutant of Created: a persistent session is made anew like a clean one    *)
CreatedAfresh(x, clean, c) == [clean |-> clean, writer |-> c, nextPid |-> 1]

Created(x, clean, c) ==
  IF clean \/ ~HasSession(x)
  THEN [clean |-> clean, writer |-> c, nextPid |-> 1]
  ELSE [sessions[x] EXCEPT !.writer = c]

RemovedNothing(x) == sessions[x]                    \* mutant of Removed

Removed(x) ==
  IF sessions[x].clean THEN NoSession ELSE [sessions[x] EXCEPT !.writer = NoConn]

NextPidUnbounded(n) == n + 1                        \* mutant of NextPid

NextPid(n) == (n % PidLimit) + 1

-----------------------------------------------------------------------------
(* mutant of Leave: the client stays in the topic tree                      *)
LeaveSubscribed(c) ==
  /\ pc' = [pc EXCEPT ![c] = "closed"]
  /\ targets' = [targets EXCEPT ![c] = NoWork]
  /\ pending' = [pending EXCEPT ![c] = NoClient]
  /\ IF cid[c] = NoClient
     THEN UNCHANGED <<sessions, scheds>>
     ELSE /\ sessions' = [sessions EXCEPT ![cid[c]] = Removed(cid[c])]
          /\ scheds' = [scheds EXCEPT ![cid[c]] = "none"]
  /\ cid' = [cid EXCEPT ![c] = NoClient]
  /\ UNCHANGED <<trie, cache>>

(* The `finally` of handle_client, under the id of the last CONNECT that    *)
(* was answered.  detach_device saves a profile only under a device id.     *)
Leave(c) ==
  /\ pc' = [pc EXCEPT ![c] = "closed"]
  /\ targets' = [targets EXCEPT ![c] = NoWork]
  /\ pending' = [pending EXCEPT ![c] = NoClient]
  /\ IF cid[c] = NoClient
     THEN UNCHANGED <<sessions, trie, scheds, cache>>
     ELSE /\ sessions' = [sessions EXCEPT ![cid[c]] = Removed(cid[c])]
          /\ trie' = Tree!WithoutClient(trie, cid[c])
          /\ scheds' = [scheds EXCEPT ![cid[c]] = "none"]
          /\ cache' = IF scheds[cid[c]] = "resumed" THEN cache \cup {cid[c]} ELSE cache
  /\ cid' = [cid EXCEPT ![c] = NoClient]

(* End of stream, 120 s without a packet, a packet that does not parse,     *)
(* DISCONNECT (which _handle_packet turns into ConnectionResetError), or a  *)
(* PUBACK, SUBACK, UNSUBACK or PINGRESP whose drain raises.  The drain of   *)
(* such a reply is not a state of its own: until it ends the handler keeps  *)
(* nothing that could become stale.                                         *)
Hangup(c) ==
  /\ pc[c] = "reading"
  /\ Leave(c)
  /\ UNCHANGED mixed

-----------------------------------------------------------------------------
(* CONNECT up to the drain of CONNACK.  Nothing asks whether the id is in   *)
(* use by another connection, or whether this one has another id already.   *)
Connect(c) ==
  \E x \in Clients, clean \in BOOLEAN :
    /\ pc[c] = "reading"
    /\ sessions' = [sessions EXCEPT ![x] = Created(x, clean, c)]
    /\ pending' = [pending EXCEPT ![c] = x]
    /\ pc' = [pc EXCEPT ![c] = "connack"]
    /\ mixed' = mixed
         \cup {y \in {x} : \E d \in Conns \ {c} : Owns(d, y)}
         \cup {y \in Clients : y = cid[c] /\ y # x}
    /\ UNCHANGED <<cid, targets, trie, scheds, cache>>

(* mutant of Connected: the scheduler is not registered                     *)
ConnectedOnly(c) ==
  /\ pc[c] = "connack"
  /\ cid' = [cid EXCEPT ![c] = pending[c]]
  /\ pending' = [pending EXCEPT ![c] = NoClient]
  /\ pc' = [pc EXCEPT ![c] = "reading"]
  /\ UNCHANGED <<targets, sessions, trie, scheds, cache, mixed>>

(* CONNACK is out: a fresh QFTScheduler is attached to the device.  It      *)
(* takes the device's id only if the cache has a profile for it.            *)
Connected(c) ==
  /\ pc[c] = "connack"
  /\ cid' = [cid EXCEPT ![c] = pending[c]]
  /\ pending' = [pending EXCEPT ![c] = NoClient]
  /\ scheds' = [scheds EXCEPT ![pending[c]] =
                  IF pending[c] \in cache THEN "resumed" ELSE "fresh"]
  /\ pc' = [pc EXCEPT ![c] = "reading"]
  /\ UNCHANGED <<targets, sessions, trie, cache, mixed>>

(* The drain of CONNACK raises: handle_client never learns the new id, and  *)
(* cleans up for the one it had before, if any.                             *)
ConnackFails(c) ==
  /\ pc[c] = "connack"
  /\ mixed' = mixed \cup {pending[c]}
  /\ Leave(c)

-----------------------------------------------------------------------------
(* mutant of Deliver: the publisher gets its own message back               *)
DeliverEcho(c, to, q) ==
  LET reachable == {s \in to : Writer(s.id) # NoConn}
  IN  \/ /\ reachable = {}
         /\ targets' = [targets EXCEPT ![c] = NoWork]
         /\ pc' = [pc EXCEPT ![c] = "reading"]
         /\ UNCHANGED sessions
      \/ \E s \in reachable :
           /\ targets' = [targets EXCEPT ![c] =
                [to |-> to \ {s}, qos |-> q, out |-> Writer(s.id)]]
           /\ pc' = [pc EXCEPT ![c] = "delivering"]
           /\ UNCHANGED sessions

(* The loop over the subscribers of a PUBLISH, as far as the next drain.    *)
(* `to` holds those the loop has not come to; in the order of the list,     *)
(* which can be any, it passes over those without a writer.  `q` is the     *)
(* publisher's QoS.  Subscribers without an id never have a writer.         *)
Deliver(c, to, q) ==
  LET others == {s \in to : s.id \notin {cid[c], NoClient}}
      reachable == {s \in others : Writer(s.id) # NoConn}
  IN  \/ /\ reachable = {}
         /\ targets' = [targets EXCEPT ![c] = NoWork]
         /\ pc' = [pc EXCEPT ![c] = "reading"]
         /\ UNCHANGED sessions
      \/ \E s \in reachable, passed \in SUBSET (others \ reachable) :
           /\ targets' = [targets EXCEPT ![c] =
                [to |-> others \ (passed \cup {s}), qos |-> q, out |-> Writer(s.id)]]
           /\ pc' = [pc EXCEPT ![c] = "delivering"]
           /\ sessions' = IF s.qos > 0 /\ q > 0
                          THEN [sessions EXCEPT ![s.id].nextPid = NextPid(@)]
                          ELSE sessions

Publish(c) ==
  /\ pc[c] = "reading"
  /\ \E t \in Topics, q \in QoS :
       Deliver(c, {[id |-> i, qos |-> Tree!GrantedQoS(trie, t, i)] :
                     i \in Tree!Subscribers(trie, t)}, q)
  /\ UNCHANGED <<cid, pending, trie, scheds, cache, mixed>>

(* The drain of a subscriber's writer ends; when it raises, the exception   *)
(* is swallowed and the loop goes on all the same.                          *)
DeliverNext(c) ==
  /\ pc[c] = "delivering"
  /\ Deliver(c, targets[c].to, targets[c].qos)
  /\ UNCHANGED <<cid, pending, trie, scheds, cache, mixed>>

Subscribe(c) ==
  /\ pc[c] = "reading"
  /\ \E subs \in [Filters -> QoS \cup {NotSub}] :
       trie' = Tree!Subscribed(trie, subs, cid[c])
  /\ UNCHANGED <<pc, cid, pending, targets, sessions, scheds, cache, mixed>>

Unsubscribe(c) ==
  /\ pc[c] = "reading"
  /\ \E fs \in SUBSET Filters : trie' = Tree!Unsubscribed(trie, fs, cid[c])
  /\ UNCHANGED <<pc, cid, pending, targets, sessions, scheds, cache, mixed>>

Handler(c) ==
  \/ Hangup(c)
  \/ Connect(c) \/ Connected(c) \/ ConnackFails(c)
  \/ Publish(c) \/ DeliverNext(c)
  \/ Subscribe(c) \/ Unsubscribe(c)

Next == \E c \in Conns : Handler(c)
Spec == Init /\ [][Next]_vars

-----------------------------------------------------------------------------
TypeOK ==
  /\ pc \in [Conns -> {"reading", "connack", "delivering", "closed"}]
  /\ cid \in [Conns -> Ids]
  /\ pending \in [Conns -> Ids]
  /\ targets \in [Conns -> [to : SUBSET [id : Ids, qos : QoS], qos : QoS \cup {0},
                            out : Conns \cup {NoConn}]]
  /\ sessions \in [Clients -> [clean : BOOLEAN, writer : Conns \cup {NoConn},
                               nextPid : 0..PidLimit]]
  /\ trie \in Tree!Tries
  /\ scheds \in [Clients -> {"none", "fresh", "resumed"}]
  /\ cache \subseteq Clients
  /\ mixed \subseteq Clients

Unmixed == Clients \ mixed

(* Unless connections got in each other's way over an id, a session's       *)
(* writer is that of the one live connection of that id, through every      *)
(* interleaving of hang-ups, reconnects and drains.                         *)
SessionFollowsConnection ==
  \A x \in Unmixed, c \in Conns : Owns(c, x) <=> sessions[x].writer = c

(* ... its subscriptions lead to a live connection (none outlives its own,  *)
(* none is left that match() finds and get_writer() cannot serve) ...       *)
SubscriptionsLeadSomewhere ==
  \A x \in Unmixed, f \in Filters :
    trie[f][x] # NotSub => \E c \in Conns : Owns(c, x) /\ Writer(x) = c

(* ... and it has a scheduler exactly while it is connected.                *)
SchedulerFollowsConnection ==
  \A x \in Unmixed :
    scheds[x] # "none" <=> \E c \in Conns : Live(c) /\ cid[c] = x

(* A PUBLISH is written only to a connection that is open at that moment,   *)
(* however old the list of subscribers is, and never back to the publisher  *)
(* (broker.py:109).                                                         *)
WritesReachOthers ==
  [][\A c \in Conns :
       LET d == targets'[c].out
       IN  d # NoConn /\ targets'[c] # targets[c] /\ mixed = {} => Live(d) /\ d # c]_vars

(* The packet ids of a persistent session go on where they stopped: a       *)
(* reconnect leaves them alone, and otherwise they advance one at a time.   *)
PersistentIdsGoOn ==
  [][\A x \in Clients :
       LET before == sessions[x]
           after == sessions'[x]
       IN  HasSession(x) /\ ~before.clean /\ ~after.clean =>
             \/ after.nextPid = before.nextPid
             \/ after.nextPid = NextPid(before.nextPid) /\ after.writer = before.writer]_vars

(* qft_scheduler.py:262, "save the state when the connection closes, called *)
(* in the broker's on_disconnect handler": after the clean-up of a client   *)
(* that had a scheduler, the cache has its profile.                         *)
DisconnectSavesProfile ==
  [][\A x \in Clients : scheds[x] # "none" /\ scheds'[x] = "none" => x \in cache']_vars

=============================================================================
