----------------------------- MODULE TopicTree -----------------------------
(***************************************************************************)
(* The subscription trie of the broker (broker/topic_tree.py).  A filter   *)
(* is the sequence of its levels; the trie's node for it is the path to    *)
(* it, so a trie is a function from paths to the subscribers of the node.  *)
(* A node without subscribers is not told apart from a missing one.        *)
(***************************************************************************)
EXTENDS Integers, Sequences, FiniteSets

CONSTANTS
  Ids,      \* client ids that can subscribe
  Filters,  \* the topic filters in use, sequences of levels
  QoS,      \* the levels of service asked for, two bits of a packet
  NotSub    \* "no subscription"

ASSUME QoSAssumption == QoS \subseteq 0..3 /\ NotSub \notin QoS

Plus == "+"
Hash == "#"

Tries == [Filters -> [Ids -> QoS \cup {NotSub}]]
EmptyTrie == [f \in Filters |-> [i \in Ids |-> NotSub]]

(* `subs` gives the QoS asked for each filter of a SUBSCRIBE.               *)
Subscribed(trie, subs, i) ==
  [f \in Filters |-> IF subs[f] # NotSub THEN [trie[f] EXCEPT ![i] = subs[f]] ELSE trie[f]]

Unsubscribed(trie, fs, i) ==
  [f \in Filters |-> IF f \in fs THEN [trie[f] EXCEPT ![i] = NotSub] ELSE trie[f]]

WithoutClient(trie, i) == [f \in Filters |-> [trie[f] EXCEPT ![i] = NotSub]]

(***************************************************************************)
(* _match_node walks from the root along the levels of the topic, at each  *)
(* one into the child of that name and into the child "+": the paths it    *)
(* stands at after n levels.                                               *)
(***************************************************************************)
Paths(topic) ==
  LET At[n \in 0..Len(topic)] ==
        IF n = 0 THEN {<<>>}
        ELSE {Append(p, l) : p \in At[n - 1], l \in {topic[n], Plus}}
  IN  At

MatchedParent(topic) ==                             \* mutant of Matched
  Filters \cap
    (Paths(topic)[Len(topic)]
       \cup {Append(p, Hash) : p \in UNION {Paths(topic)[n] : n \in 0..Len(topic)}})

(* Before each level it also takes the subscribers of the child "#", so "#" *)
(* never matches its parent.                                                *)
Matched(topic) ==
  Filters \cap
    (Paths(topic)[Len(topic)]
       \cup {Append(p, Hash) : p \in UNION {Paths(topic)[n] : n \in 0..Len(topic) - 1}})

(* The clients match() returns, and for each the highest QoS it asked for.  *)
Subscribers(trie, topic) ==
  {i \in Ids : \E f \in Matched(topic) : trie[f][i] # NotSub}
GrantedQoS(trie, topic, i) ==
  CHOOSE q \in QoS :
    /\ \E f \in Matched(topic) : trie[f][i] = q
    /\ \A f \in Matched(topic) : trie[f][i] # NotSub => trie[f][i] <= q

(* What a filter means: "+" is any one level, a final "#" any levels, at    *)
(* least one; "#" elsewhere is a level like any other, which no topic has.  *)
Means(f, t) ==
  LET LevelsFit(n) == \A k \in 1..n : f[k] \in {t[k], Plus}
      n == Len(f)
  IN  \/ n = Len(t) /\ LevelsFit(n)
      \/ n <= Len(t) /\ f[n] = Hash /\ LevelsFit(n - 1)
=============================================================================
