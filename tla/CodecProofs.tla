----------------------------- MODULE CodecProofs -----------------------------
(***************************************************************************)
(* Proofs about the codecs of the protocol, for every value of their       *)
(* constants: the topic tree, the erasure code and the framing that        *)
(* Algorithms gives inputs to, whatever the filters, topics, codes and     *)
(* messages; and the delta compression of DeltaCodec, whatever the         *)
(* schemas and values.                                                     *)
(***************************************************************************)
EXTENDS Algorithms, DeltaCodec, Inductions, SequenceTheorems

-----------------------------------------------------------------------------
(* Strings; the provers do not know that "+" is one.                         *)
Levels == STRING \cup {Plus, Hash}

(* Filters and topics are sequences of levels.                              *)
LEMMA LevelsOf ==
  /\ \A f \in Filters : f \in Seq(Levels) /\ Len(f) \in Nat \ {0}
  /\ \A t \in Topics : t \in Seq(Levels)
<1>1. ASSUME NEW s \in Seq(STRING) PROVE s \in Seq(Levels)
  <2>1. s \in [1..Len(s) -> STRING] /\ Len(s) \in Nat
    OBVIOUS
  <2>2. s \in [1..Len(s) -> Levels]
    BY <2>1 DEF Levels
  <2> QED BY <2>1, <2>2
<1>2. ASSUME NEW s \in Seq(STRING), s # << >> PROVE Len(s) \in Nat \ {0}
  BY <1>2
<1> QED BY <1>1, <1>2, LevelsAssumption

(* A sequence is a function on the places up to its length.                 *)
LEMMA SeqOfLen ==
  ASSUME NEW S, NEW s \in Seq(S), NEW n, n = Len(s)
  PROVE  s \in [1..n -> S]
OBVIOUS

(* The paths of n levels that fit the first n levels of a topic.            *)
Fitting(topic, n) ==
  {p \in [1..n -> Levels] : \A k \in 1..n : p[k] \in {topic[k], Plus}}

Longer(paths, level) == {Append(p, l) : p \in paths, l \in {level, Plus}}

(* A path that fits one level more ends in the literal level or in +.       *)
LEMMA FittingGrows ==
  ASSUME NEW topic \in Seq(Levels), NEW n \in 1..Len(topic)
  PROVE  Fitting(topic, n) = Longer(Fitting(topic, n - 1), topic[n])
<1>1. ASSUME NEW p \in Fitting(topic, n - 1), NEW l \in {topic[n], Plus}
      PROVE  Append(p, l) \in Fitting(topic, n)
  <2>1. p \in [1..n - 1 -> Levels] /\ p \in Seq(Levels) /\ Len(p) = n - 1
    BY DEF Fitting
  <2>2. topic[n] \in Levels /\ l \in Levels
    BY ElementOfSeq DEF Levels
  <2>3. /\ Append(p, l) \in Seq(Levels) /\ Len(Append(p, l)) = n
        /\ Append(p, l)[n] = l
        /\ \A k \in 1..n - 1 : Append(p, l)[k] = p[k]
    BY <2>1, <2>2
  <2>6. Append(p, l) \in [1..n -> Levels]
    BY <2>3, SeqOfLen
  <2>4. \A k \in 1..n : k = n \/ k \in 1..n - 1
    OBVIOUS
  <2>5. \A k \in 1..n : Append(p, l)[k] \in {topic[k], Plus}
    BY <2>3, <2>4, <2>1 DEF Fitting
  <2> QED BY <2>5, <2>6 DEF Fitting
<1>2. ASSUME NEW q \in Fitting(topic, n)
      PROVE  \E p \in Fitting(topic, n - 1), l \in {topic[n], Plus} : q = Append(p, l)
  <2> DEFINE p == [k \in 1..n - 1 |-> q[k]]
  <2>1. q \in [1..n -> Levels] /\ q[n] \in {topic[n], Plus}
    BY DEF Fitting
  <2>2. p \in Fitting(topic, n - 1) /\ p \in Seq(Levels) /\ Len(p) = n - 1
    <3>1. p \in [1..n - 1 -> Levels]
      BY <2>1
    <3>2. \A k \in 1..n - 1 : p[k] \in {topic[k], Plus}
      BY DEF Fitting
    <3>3. p \in Seq(Levels) /\ Len(p) = n - 1
      BY <3>1
    <3> QED BY <3>1, <3>2, <3>3 DEF Fitting
  <2>3. q \in Seq(Levels) /\ Len(q) = n
    BY <2>1
  <2>4. q = Append(p, q[n])
    BY <2>1, <2>2, <2>3
  <2> QED BY <2>1, <2>2, <2>4
<1> DEFINE R == {Append(p, l) : p \in Fitting(topic, n - 1), l \in {topic[n], Plus}}
<1>3. R \subseteq Fitting(topic, n)
  <2> SUFFICES ASSUME NEW q \in R PROVE q \in Fitting(topic, n)
    OBVIOUS
  <2>1. PICK p \in Fitting(topic, n - 1), l \in {topic[n], Plus} : q = Append(p, l)
    OBVIOUS
  <2> QED BY <1>1, <2>1
<1>4. Fitting(topic, n) \subseteq R
  BY <1>2
<1> QED BY <1>3, <1>4 DEF Longer

(* The descent of TopicNode.match() reaches exactly the paths that fit:     *)
(* the recursive function of the model has the closed form of Fitting.      *)
LEMMA PathsFit ==
  ASSUME NEW topic \in Seq(Levels), NEW n \in 0..Len(topic)
  PROVE  Paths(topic)[n] = Fitting(topic, n)
<1> DEFINE IsAt(At) ==
             At = [m \in 0..Len(topic) |-> IF m = 0 THEN {<< >>} ELSE Longer(At[m - 1], topic[m])]
           closed == [m \in 0..Len(topic) |-> Fitting(topic, m)]
           T == {m \in Nat : m <= Len(topic) => Paths(topic)[m] = Fitting(topic, m)}
<1>1. Fitting(topic, 0) = {<< >>}
  <2>1. ASSUME NEW p \in Fitting(topic, 0) PROVE p = << >>
    BY DEF Fitting
  <2>2. << >> \in Fitting(topic, 0)
    BY DEF Fitting
  <2> QED BY <2>1, <2>2
<1>2. \A m \in 1..Len(topic) : Fitting(topic, m) = Longer(closed[m - 1], topic[m])
  <2> SUFFICES ASSUME NEW m \in 1..Len(topic) PROVE Fitting(topic, m) = Longer(closed[m - 1], topic[m])
    OBVIOUS
  <2>1. closed[m - 1] = Fitting(topic, m - 1)
    OBVIOUS
  <2> QED BY <2>1, FittingGrows
<1>3. Paths(topic) = CHOOSE At : IsAt(At)
  BY DEF Paths, Longer
<1>4. IsAt(closed)
  <2> SUFFICES ASSUME NEW m \in 0..Len(topic)
               PROVE  Fitting(topic, m) = IF m = 0 THEN {<< >>} ELSE Longer(closed[m - 1], topic[m])
    OBVIOUS
  <2> QED BY <1>1, <1>2
<1>5. IsAt(Paths(topic))
  <2> HIDE DEF IsAt, closed
  <2> QED BY <1>3, <1>4
<1>6. 0 \in T
  BY <1>1, <1>5
<1>7. \A m \in T \cap Nat : m + 1 \in T
  <2> SUFFICES ASSUME NEW m \in T, m + 1 <= Len(topic)
               PROVE Paths(topic)[m + 1] = Fitting(topic, m + 1)
    OBVIOUS
  <2>1. m + 1 \in 1..Len(topic) /\ m + 1 - 1 = m /\ m <= Len(topic)
    OBVIOUS
  <2>2. Paths(topic)[m + 1] = Longer(Paths(topic)[m + 1 - 1], topic[m + 1])
    <3>1. m + 1 \in 0..Len(topic) /\ m + 1 # 0
      BY <2>1
    <3>2. \A k \in 0..Len(topic) : k # 0 =>
            Paths(topic)[k] = Longer(Paths(topic)[k - 1], topic[k])
      BY <1>5
    <3> QED BY <3>1, <3>2
  <2> QED BY <2>1, <2>2, FittingGrows
<1>8. Nat \subseteq T
  <2> HIDE DEF T
  <2> QED BY <1>6, <1>7, AllNaturals
<1> QED BY <1>8

(* A filter is found by match() exactly when it means the topic.            *)
LEMMA MatchedMeans ==
  ASSUME NEW topic \in Topics, NEW f \in Filters
  PROVE  f \in Matched(topic) <=> Means(f, topic)
<1> DEFINE n == Len(f)
           LevelsFit(m) == \A k \in 1..m : f[k] \in {topic[k], Plus}
<1>1. topic \in Seq(Levels) /\ f \in Seq(Levels) /\ n \in Nat /\ n # 0 /\ Len(topic) \in Nat
  BY LevelsOf
<1>2. f \in Matched(topic) <=>
        \/ f \in Fitting(topic, Len(topic))
        \/ \E m \in 0..Len(topic) - 1 : \E p \in Fitting(topic, m) : f = Append(p, Hash)
  <2>1. Paths(topic)[Len(topic)] = Fitting(topic, Len(topic))
    BY <1>1, PathsFit
  <2>2. \A m \in 0..Len(topic) - 1 : Paths(topic)[m] = Fitting(topic, m)
    BY <1>1, PathsFit
  <2> QED BY <2>1, <2>2 DEF Matched
<1>3. f \in Fitting(topic, Len(topic)) <=> n = Len(topic) /\ LevelsFit(n)
  BY <1>1 DEF Fitting
<1>4. ASSUME NEW m \in 0..Len(topic) - 1, NEW p \in Fitting(topic, m), f = Append(p, Hash)
      PROVE  n <= Len(topic) /\ f[n] = Hash /\ LevelsFit(n - 1)
  <2>1. p \in Seq(Levels) /\ Len(p) = m /\ \A k \in 1..m : p[k] \in {topic[k], Plus}
    BY DEF Fitting
  <2>2. n = m + 1 /\ f[n] = Hash /\ \A k \in 1..m : f[k] = p[k]
    BY <1>4, <2>1
  <2> QED BY <1>1, <2>1, <2>2
<1>5. ASSUME n <= Len(topic), f[n] = Hash, LevelsFit(n - 1)
      PROVE  \E m \in 0..Len(topic) - 1 : \E p \in Fitting(topic, m) : f = Append(p, Hash)
  <2> DEFINE p == [k \in 1..n - 1 |-> f[k]]
  <2>1. p \in Fitting(topic, n - 1) /\ p \in Seq(Levels) /\ Len(p) = n - 1
    BY <1>1, <1>5 DEF Fitting
  <2>2. f = Append(p, Hash)
    BY <1>1, <1>5, <2>1
  <2>3. n - 1 \in 0..Len(topic) - 1
    BY <1>1, <1>5
  <2> QED BY <2>1, <2>2, <2>3
<1> QED BY <1>2, <1>3, <1>4, <1>5 DEF Means

(* What matching delivers after subscribing, for every topic and every      *)
(* trie one client has built: the greatest QoS of the filters that mean     *)
(* it.                                                                      *)
LEMMA TopicsAreMatched ==
  ASSUME NEW t \in Topics, NEW f \in Filters, NEW g \in Filters, NEW i \in Ids,
         NEW q \in [{f, g} -> QoS]
  PROVE  LET trie == Subscribed(EmptyTrie,
                       [h \in Filters |-> IF h \in DOMAIN q THEN q[h] ELSE NotSub], i)
             meant == {h \in DOMAIN q : Means(h, t)}
         IN  /\ i \in Subscribers(trie, t) <=> meant # {}
             /\ meant # {} => GrantedQoS(trie, t, i) = Max({q[h] : h \in meant})
<1> DEFINE subs == [h \in Filters |-> IF h \in DOMAIN q THEN q[h] ELSE NotSub]
           trie == Subscribed(EmptyTrie, subs, i)
           meant == {h \in DOMAIN q : Means(h, t)}
           levels == {q[h] : h \in meant}
<1>1. DOMAIN q = {f, g} /\ q[f] \in QoS /\ q[g] \in QoS
  OBVIOUS
<1>2. QoS \subseteq 0..3 /\ NotSub \notin QoS
  BY QoSAssumption
<1>3. \A h \in Filters : trie[h][i] = IF h \in {f, g} THEN q[h] ELSE NotSub
  <2> SUFFICES ASSUME NEW h \in Filters
               PROVE trie[h][i] = IF h \in {f, g} THEN q[h] ELSE NotSub
    OBVIOUS
  <2>1. subs[h] = IF h \in {f, g} THEN q[h] ELSE NotSub
    BY <1>1
  <2>2. EmptyTrie[h] = [j \in Ids |-> NotSub]
    BY DEF EmptyTrie
  <2>3. trie[h] = IF subs[h] # NotSub THEN [EmptyTrie[h] EXCEPT ![i] = subs[h]]
                  ELSE EmptyTrie[h]
    BY DEF Subscribed
  <2>4. subs[h] # NotSub => trie[h][i] = subs[h]
    BY <2>2, <2>3
  <2>5. subs[h] = NotSub => trie[h][i] = NotSub
    BY <2>2, <2>3
  <2> QED BY <2>1, <2>4, <2>5
<1>4. \A h : h \in Matched(t) <=> h \in Filters /\ Means(h, t)
  BY MatchedMeans DEF Matched
<1>5. \A h \in Matched(t) : h \in Filters /\ (trie[h][i] # NotSub <=> h \in meant)
  BY <1>1, <1>2, <1>3, <1>4
<1>6. \A h \in meant : h \in Matched(t) /\ trie[h][i] = q[h] /\ q[h] \in QoS
  BY <1>1, <1>3, <1>4
<1> HIDE DEF trie, meant
<1>7. i \in Subscribers(trie, t) <=> meant # {}
  BY <1>5, <1>6 DEF Subscribers
<1>8. ASSUME meant # {} PROVE GrantedQoS(trie, t, i) = Max(levels)
  <2> DEFINE Granted(x) == /\ \E h \in Matched(t) : trie[h][i] = x
                           /\ \A h \in Matched(t) : trie[h][i] # NotSub => trie[h][i] <= x
  <2>1. levels \subseteq QoS /\ levels # {}
    BY <1>6, <1>8
  <2>2. \E x \in levels : \A y \in levels : x >= y
    <3>1. levels \subseteq {q[f], q[g]}
      <4>1. \A h \in meant : h = f \/ h = g
        BY <1>1 DEF meant
      <4> QED BY <4>1
    <3>4. \A x \in QoS : x \in Int
      BY <1>2
    <3>2. q[f] \in Int /\ q[g] \in Int
      <4> HIDE <1>2
      <4> QED BY <1>1, <3>4
    <3> HIDE DEF levels
    <3> QED BY <2>1, <3>1, <3>2
  <2>3. \A x \in QoS : Granted(x) <=> x \in levels /\ \A y \in levels : x >= y
    <3> SUFFICES ASSUME NEW x \in QoS
                 PROVE  Granted(x) <=> x \in levels /\ \A y \in levels : x >= y
      OBVIOUS
    <3>0. x # NotSub /\ x \in Int /\ \A y \in QoS : y \in Int
      BY <1>2
    <3>1. (\E h \in Matched(t) : trie[h][i] = x) <=> x \in levels
      BY <1>5, <1>6, <3>0
    <3>2. (\A h \in Matched(t) : trie[h][i] # NotSub => trie[h][i] <= x)
            <=> \A y \in levels : y <= x
      BY <1>5, <1>6
    <3>3. \A y \in levels : y <= x <=> x >= y
      BY <2>1, <3>0
    <3> QED BY <3>1, <3>2, <3>3
  <2>4. GrantedQoS(trie, t, i) = CHOOSE x \in QoS : Granted(x)
    BY DEF GrantedQoS
  <2>5. PICK top \in levels : \A y \in levels : top >= y
    BY <2>2
  <2> HIDE DEF Granted, levels
  <2>6. \A x \in QoS : Granted(x) <=> x = top
    <3>1. \A x \in QoS : x \in Int
      BY <1>2
    <3> QED BY <2>1, <2>3, <2>5, <3>1
  <2>7. GrantedQoS(trie, t, i) = top
    BY <2>1, <2>4, <2>6
  <2>8. \A x \in levels : (\A y \in levels : x >= y) <=> x = top
    BY <2>1, <2>3, <2>6
  <2>9. Max(levels) = top
    BY <2>8 DEF Max
  <2> QED BY <2>7, <2>9
<1> QED BY <1>7, <1>8 DEF trie, meant

OtherKinds == {"reports", "queue", "profile", "frame", "flat", "control", "packet",
  "stamp", "delta", "sealed", "hello", "ticket", "signature", "scheduler", "bsm", "denm",
  "radio", "drive", "sight", "scene", "http", "message", "mail", "subframes", "channel",
  "deadline", "spectrum"}

(* A packet case is marked as one.                                          *)
LEMMA PacketKind == ASSUME NEW p, NEW says, Packet(p, says) PROVE case'.of = "packet"
BY DEF Packet

(* The cases of the other algorithms are none of these.                     *)
LEMMA OtherPicks ==
  Next /\ case'.of \notin OtherKinds =>
     \/ PickTopic \/ PickBlock \/ PickGroup \/ PickStream
     \/ PickBatches \/ PickStreams \/ PickPath
<1>1. PickReports => case'.of = "reports"
  BY DEF PickReports
<1>2. PickQueue => case'.of = "queue"
  BY DEF PickQueue
<1>3. PickProfile => case'.of = "profile"
  BY DEF PickProfile
<1>4. PickFrame => case'.of = "frame"
  BY DEF PickFrame
<1>5. PickFlat => case'.of = "flat" \/ case'.of = "control"
  BY DEF PickFlat
<1>6. PickPacket => case'.of = "packet"
  BY PacketKind DEF PickPacket
<1>7. PickStamp => case'.of = "stamp"
  BY DEF PickStamp
<1>8. PickDelta => case'.of = "delta"
  BY DEF PickDelta
<1>9. PickSealed => case'.of = "sealed"
  BY DEF PickSealed
<1>10. PickHello => case'.of = "hello"
  BY DEF PickHello
<1>11. PickTicket => case'.of = "ticket"
  BY DEF PickTicket
<1>12. PickSignature => case'.of = "signature"
  BY DEF PickSignature
<1>13. PickScheduler => case'.of = "scheduler"
  BY DEF PickScheduler
<1>14. PickBsm => case'.of = "bsm"
  BY DEF PickBsm
<1>15. PickDenm => case'.of = "denm"
  BY DEF PickDenm
<1>16. PickRadio => case'.of = "radio"
  BY DEF PickRadio
<1>17. PickTraffic => case'.of = "drive" \/ case'.of = "sight" \/ case'.of = "scene"
  BY DEF PickTraffic
<1>18. PickRequest => case'.of = "http"
  BY DEF PickRequest
<1>19. PickMessage => case'.of = "message" \/ case'.of = "mail"
  BY DEF PickMessage
<1>20. PickSubframes => case'.of = "subframes"
  BY DEF PickSubframes
<1>21. PickChannel => case'.of = "channel"
  BY DEF PickChannel
<1>22. PickDeadline => case'.of = "deadline"
  BY DEF PickDeadline
<1>23. PickSpectrum => case'.of = "spectrum"
  BY DEF PickSpectrum
<1> QED BY <1>1, <1>2, <1>3, <1>4, <1>5, <1>6, <1>7, <1>8, <1>9, <1>10, <1>11, <1>12,
         <1>13, <1>14, <1>15, <1>16, <1>17, <1>18, <1>19, <1>20, <1>21, <1>22, <1>23
         DEF Next, OtherKinds

(* A client is sent a topic exactly when one of its filters means it,       *)
(* with the greatest QoS it subscribed with: TopicTree.subscribe(),         *)
(* match() and unsubscribe(), for any filters, topics and levels of QoS.    *)
THEOREM TopicsDeliver == Spec => []DeliversWhatFiltersMean
<1>1. Init => DeliversWhatFiltersMean
  BY DEF Init, NoCase, DeliversWhatFiltersMean
<1>2. PickTopic => DeliversWhatFiltersMean'
  <2> SUFFICES ASSUME PickTopic PROVE DeliversWhatFiltersMean'
    OBVIOUS
  <2>1. PICK t \in Topics, f \in Filters, g \in Filters, i \in Ids :
          \E q \in [{f, g} -> QoS] :
            case' = [of |-> "topic", topic |-> t, id |-> i, asked |-> q]
    BY DEF PickTopic
  <2>2. PICK q \in [{f, g} -> QoS] :
            case' = [of |-> "topic", topic |-> t, id |-> i, asked |-> q]
    BY <2>1
  <2> QED BY <2>2, TopicsAreMatched DEF DeliversWhatFiltersMean
<1>3. DeliversWhatFiltersMean /\ [Next]_case => DeliversWhatFiltersMean'
  <2>1. CASE UNCHANGED case
    BY <2>1 DEF DeliversWhatFiltersMean
  <2>2. Next /\ case'.of # "topic" => DeliversWhatFiltersMean'
    BY DEF DeliversWhatFiltersMean
  <2>4. PickBlock \/ PickGroup \/ PickStream \/ PickBatches \/ PickStreams \/ PickPath
          => case'.of # "topic"
    BY DEF PickBlock, PickGroup, PickStream, PickBatches, PickStreams, PickPath
  <2>5. "topic" \notin OtherKinds
    BY DEF OtherKinds
  <2>3. Next => PickTopic \/ case'.of # "topic"
    BY OtherPicks, <2>4, <2>5
  <2> QED BY <1>2, <2>1, <2>2, <2>3
<1> QED BY <1>1, <1>3, PTL DEF Spec

-----------------------------------------------------------------------------
Ones(chunks, is, p) == {i \in is : chunks[i][p] = 1}

(* One chunk more changes the number of ones at a place by its own byte.    *)
LEMMA OneMore ==
  ASSUME NEW is, IsFiniteSet(is), NEW chunks, NEW p, NEW i \in is, chunks[i][p] \in Bits
  PROVE  /\ Cardinality(Ones(chunks, is, p)) \in Nat
         /\ Cardinality(Ones(chunks, is \ {i}, p)) \in Nat
         /\ Cardinality(Ones(chunks, is, p))
              = Cardinality(Ones(chunks, is \ {i}, p)) + chunks[i][p]
<1> DEFINE all == Ones(chunks, is, p)
           others == Ones(chunks, is \ {i}, p)
<1>1. IsFiniteSet(all) /\ others = all \ {i} /\ (i \in all <=> chunks[i][p] = 1)
  <2>1. all \in SUBSET is
    BY DEF Ones
  <2>2. IsFiniteSet(all)
    BY <2>1, FS_Subset
  <2> QED BY <2>2 DEF Ones
<1> HIDE DEF all, others
<1>2. /\ IsFiniteSet(all \ {i})
      /\ Cardinality(all \ {i}) = IF i \in all THEN Cardinality(all) - 1 ELSE Cardinality(all)
  BY <1>1, FS_RemoveElement
<1>3. Cardinality(all) \in Nat /\ Cardinality(others) \in Nat
  BY <1>1, <1>2, FS_CardinalityType
<1>4. chunks[i][p] = 0 \/ chunks[i][p] = 1
  BY DEF Bits
<1>5. Cardinality(all) = Cardinality(others) + chunks[i][p]
  BY <1>1, <1>2, <1>3, <1>4
<1> QED BY <1>3, <1>5 DEF all, others

(* The chunks a parity covers.                                              *)
LEMMA StripesAreFinite ==
  ASSUME NEW k \in Nat, NEW r, NEW j
  PROVE  IsFiniteSet(Stripe(k, r, j))
<1>1. IsFiniteSet(0..k - 1)
  BY FS_Interval
<1>2. Stripe(k, r, j) \in SUBSET (0..k - 1)
  BY DEF Stripe
<1> QED BY <1>1, <1>2, FS_Subset

(* Adding an odd number changes the parity.                                 *)
LEMMA OddSums ==
  ASSUME NEW a \in Nat, NEW b \in Nat, NEW c \in Bits, a = b + c
  PROVE  ((a % 2) + b) % 2 = c
BY DEF Bits

(* Adding an even number does not.                                          *)
LEMMA EvenSums ==
  ASSUME NEW a \in Nat, NEW b \in Nat, NEW c \in Bits, NEW d \in Bits
  PROVE  (a + c + d) % 2 = (a + (1 - c) + (1 - d)) % 2
BY DEF Bits

LEMMA Parities == \A a \in Nat : a % 2 \in Bits
BY DEF Bits

(* Numbers are of one stripe when they leave the same remainder.            *)
LEMMA Residues ==
  ASSUME NEW i \in Nat, NEW r \in Nat \ {0}
  PROVE  i % r \in 0..r - 1
OBVIOUS

(* The only chunk of its stripe that is lost, with the parity there.        *)
Alone(lost, n, r, i) ==
  /\ n + (i % r) \notin lost
  /\ \A m \in (0..n - 1) \cap lost : m % r = i % r => m = i

(* The packets of n chunks or messages, none longer than the size, with r   *)
(* parities behind them.                                                    *)
Coded(sent, packets, n, r, size) ==
  /\ DOMAIN sent = 0..n + r - 1
  /\ packets \in [0..n - 1 -> Seq(Bits)]
  /\ \A i \in 0..n - 1 : sent[i] = packets[i] /\ Len(packets[i]) <= size
  /\ \A j \in 0..r - 1 : sent[n + j] \in Seq(Bits)
AllPadded(packets, n, size) == [i \in 0..n - 1 |-> Padded(packets[i], size)]

(* _rebuild() returns what arrived; what is alone in its stripe comes       *)
(* back padded from the parity and the others, and the rest does not come   *)
(* back.                                                                    *)
LEMMA RebuiltIs ==
  ASSUME NEW n \in Nat, NEW r \in Nat \ {0}, NEW size \in Nat, NEW packets, NEW sent,
         Coded(sent, packets, n, r, size), NEW lost, NEW i \in 0..n - 1
  PROVE  LET got == Received(sent, lost)
         IN  /\ i \notin lost => Rebuilt(got, n, r, i) = packets[i]
             /\ i \in lost /\ ~Alone(lost, n, r, i) => Rebuilt(got, n, r, i) = Lost
             /\ i \in lost /\ Alone(lost, n, r, i) =>
                  /\ Rebuilt(got, n, r, i) \in Seq(Bits)
                  /\ sent[n + (i % r)]
                       = Parity(AllPadded(packets, n, size), Stripe(n, r, i % r), size) =>
                       Rebuilt(got, n, r, i) = Padded(packets[i], size)
<1> DEFINE got == Received(sent, lost)
           padded == AllPadded(packets, n, size)
           alone == Alone(lost, n, r, i)
           stripe == Stripe(n, r, i % r)
           parity == got[n + (i % r)]
           gone == {m \in stripe : got[m] = Lost}
           Others(p) == {m \in stripe \ gone : p <= Len(got[m]) /\ got[m][p] = 1}
           sum == [p \in 1..Len(parity) |-> (parity[p] + Cardinality(Others(p))) % 2]
<1>0. /\ DOMAIN sent = 0..n + r - 1 /\ packets \in [0..n - 1 -> Seq(Bits)]
      /\ \A m \in 0..n - 1 : sent[m] = packets[m] /\ Len(packets[m]) <= size
      /\ \A j \in 0..r - 1 : sent[n + j] \in Seq(Bits)
  BY DEF Coded
<1>1. i % r \in 0..r - 1
  <2>1. i \in Nat
    OBVIOUS
  <2> QED BY <2>1, Residues
<1>2. \A m \in 0..n - 1 : got[m] = IF m \in lost THEN Lost ELSE packets[m]
  BY <1>0 DEF Received
<1>3. parity = IF n + (i % r) \in lost THEN Lost ELSE sent[n + (i % r)]
  BY <1>0, <1>1 DEF Received
<1>4. packets[i] # Lost /\ sent[n + (i % r)] # Lost
  BY <1>0, <1>1, LostAssumption
<1>5. stripe \subseteq 0..n - 1 /\ i \in stripe /\ \A m \in 0..n - 1 : m \in stripe <=> m % r = i % r
  BY DEF Stripe
<1>6. \A m \in 0..n - 1 : m \in gone <=> m \in lost /\ m \in stripe
  <2>1. \A m \in 0..n - 1 : packets[m] # Lost
    BY <1>0, LostAssumption
  <2> QED BY <1>2, <1>5, <2>1
<1>7. Rebuilt(got, n, r, i) = IF got[i] # Lost THEN got[i]
                              ELSE IF parity = Lost \/ gone # {i} THEN Lost ELSE sum
  BY DEF Rebuilt
<1>8. IsFiniteSet(stripe)
  BY StripesAreFinite
<1> HIDE DEF got, padded, stripe, parity, gone, Others, sum
<1>9. ASSUME i \notin lost PROVE Rebuilt(got, n, r, i) = packets[i]
  BY <1>2, <1>4, <1>7, <1>9
<1>10. i \in lost => (alone <=> parity # Lost /\ gone = {i})
  <2>1. parity # Lost <=> n + (i % r) \notin lost
    BY <1>3, <1>4
  <2>2. gone \subseteq stripe
    BY DEF gone
  <2>3. i \in lost => (gone = {i} <=> \A m \in (0..n - 1) \cap lost : m % r = i % r => m = i)
    BY <1>5, <1>6, <2>2
  <2> QED BY <2>1, <2>3 DEF Alone
<1>11. ASSUME i \in lost, ~alone PROVE Rebuilt(got, n, r, i) = Lost
  BY <1>2, <1>7, <1>10, <1>11
<1>12. ASSUME i \in lost, alone
       PROVE  /\ Rebuilt(got, n, r, i) \in Seq(Bits)
              /\ sent[n + (i % r)] = Parity(padded, stripe, size) =>
                   Rebuilt(got, n, r, i) = padded[i]
  <2>1. Rebuilt(got, n, r, i) = sum /\ parity = sent[n + (i % r)] /\ parity \in Seq(Bits)
        /\ gone = {i}
    BY <1>0, <1>1, <1>2, <1>3, <1>4, <1>7, <1>10, <1>12
  <2>2. \A p : IsFiniteSet(Others(p)) /\ Cardinality(Others(p)) \in Nat
    <3> TAKE p
    <3>1. Others(p) \in SUBSET stripe
      BY DEF Others
    <3> QED BY <1>8, <3>1, FS_Subset, FS_CardinalityType
  <2>3. sum \in Seq(Bits)
    <3>1. \A p \in 1..Len(parity) : parity[p] \in Bits
      BY <2>1
    <3>2. \A p \in 1..Len(parity) : (parity[p] + Cardinality(Others(p))) % 2 \in Bits
      <4> TAKE p \in 1..Len(parity)
      <4>1. parity[p] \in Nat
        BY <3>1 DEF Bits
      <4>2. Cardinality(Others(p)) \in Nat
        BY <2>2
      <4>3. parity[p] + Cardinality(Others(p)) \in Nat
        BY <4>1, <4>2
      <4> QED BY <4>3, Parities
    <3>3. Len(parity) \in Nat
      BY <2>1
    <3> QED BY <3>2, <3>3, IsASeq DEF sum
  <2>4. ASSUME sent[n + (i % r)] = Parity(padded, stripe, size)
        PROVE  sum = padded[i]
    <3>1. parity = [p \in 1..size |-> Cardinality(Ones(padded, stripe, p)) % 2]
      BY <2>1, <2>4 DEF Parity, Ones
    <3>2. Len(parity) = size
      BY <3>1
    <3>3. padded[i] = [p \in 1..size |-> IF p <= Len(packets[i]) THEN packets[i][p] ELSE 0]
      BY DEF padded, AllPadded, Padded
    <3>4. ASSUME NEW p \in 1..size
          PROVE  (parity[p] + Cardinality(Others(p))) % 2 = padded[i][p]
      <4>1. \A m \in 0..n - 1 : padded[m][p] = IF p <= Len(packets[m]) THEN packets[m][p] ELSE 0
        BY DEF padded, AllPadded, Padded
      <4>2. padded[i][p] \in Bits
        <5>1. CASE p <= Len(packets[i])
          <6>1. packets[i] \in Seq(Bits) /\ Len(packets[i]) \in Nat
            BY <1>0
          <6>2. p \in 1..Len(packets[i])
            BY <5>1, <6>1
          <6>3. packets[i][p] \in Bits
            BY <6>1, <6>2, ElementOfSeq
          <6> QED BY <4>1, <5>1, <6>3
        <5>2. CASE ~(p <= Len(packets[i]))
          BY <4>1, <5>2 DEF Bits
        <5> QED BY <5>1, <5>2
      <4>3. Others(p) = Ones(padded, stripe \ {i}, p)
        <5>1. \A m \in stripe \ {i} : got[m] = packets[m]
          BY <1>2, <1>5, <1>6, <2>1
        <5>2. \A m \in stripe \ {i} : padded[m][p] = 1 <=> p <= Len(got[m]) /\ got[m][p] = 1
          <6> TAKE m \in stripe \ {i}
          <6>1. m \in 0..n - 1 /\ got[m] = packets[m]
            BY <1>5, <5>1
          <6> QED BY <4>1, <6>1
        <5> QED BY <2>1, <5>2 DEF Others, Ones
      <4>4. /\ Cardinality(Ones(padded, stripe, p)) \in Nat
            /\ Cardinality(Ones(padded, stripe \ {i}, p)) \in Nat
            /\ Cardinality(Ones(padded, stripe, p))
                 = Cardinality(Ones(padded, stripe \ {i}, p)) + padded[i][p]
        <5>1. IsFiniteSet(stripe) /\ i \in stripe /\ padded[i][p] \in Bits
          BY <1>5, <1>8, <4>2
        <5>2. Cardinality(Ones(padded, stripe, p)) \in Nat
          BY <5>1, OneMore
        <5>3. Cardinality(Ones(padded, stripe \ {i}, p)) \in Nat
          BY <5>1, OneMore
        <5>4. Cardinality(Ones(padded, stripe, p))
                = Cardinality(Ones(padded, stripe \ {i}, p)) + padded[i][p]
          <6>1. \A c : \A m \in stripe : c[m][p] \in Bits =>
                  Cardinality(Ones(c, stripe, p)) = Cardinality(Ones(c, stripe \ {m}, p)) + c[m][p]
            BY <5>1, OneMore
          <6> QED BY <5>1, <6>1, Zenon
        <5> QED BY <5>2, <5>3, <5>4
      <4>5. parity[p] = Cardinality(Ones(padded, stripe, p)) % 2
        BY <3>1
      <4> QED BY <4>2, <4>3, <4>4, <4>5, OddSums
    <3> QED BY <3>2, <3>3, <3>4 DEF sum
  <2> QED BY <2>1, <2>3, <2>4
<1>13. padded[i] = Padded(packets[i], size)
  BY DEF padded, AllPadded
<1> QED BY <1>9, <1>11, <1>12, <1>13 DEF got, padded, stripe

(* Division with a remainder.                                               *)
LEMMA Quotients ==
  ASSUME NEW n \in Nat, NEW k \in Nat \ {0}
  PROVE  /\ n \div k \in Nat
         /\ k * (n \div k) <= n /\ n < k * (n \div k) + k
OBVIOUS

(* The k chunks of a block hold all of it.                                  *)
LEMMA ChunkSizes ==
  ASSUME NEW k \in Nat \ {0}, NEW data \in Seq(Bits)
  PROVE  ChunkSize(data, k) \in Nat /\ Len(data) <= k * ChunkSize(data, k)
<1>1. Len(data) + k - 1 \in Nat
  OBVIOUS
<1> DEFINE size == (Len(data) + k - 1) \div k
<1>2. size \in Nat /\ Len(data) + k - 1 < k * size + k
  BY <1>1, Quotients
<1>4. k * size \in Nat
  BY <1>2
<1> HIDE DEF size
<1>3. Len(data) <= k * size
  BY <1>2, <1>4
<1> QED BY <1>2, <1>3 DEF size, ChunkSize

(* Which chunk a byte of the block lies in.                                 *)
LEMMA Rows ==
  ASSUME NEW i \in Nat, NEW size \in Nat, NEW p \in 1..size
  PROVE  /\ i * size + p \in Nat \ {0} /\ i * size \in Nat
         /\ (i + 1) * size = i * size + size
         /\ \A j \in Nat : j # i => \A q \in 1..size : j * size + q # i * size + p
<1>1. i * size \in Nat /\ (i + 1) * size = i * size + size
  OBVIOUS
<1>2. ASSUME NEW j \in Nat, j # i, NEW q \in 1..size PROVE j * size + q # i * size + p
  <2>1. CASE j < i
    <3>1. PICK d \in Nat : i = j + 1 + d
      <4>1. i - j - 1 \in Nat /\ i = j + 1 + (i - j - 1)
        BY <2>1
      <4> QED BY <4>1
    <3>2. i * size = j * size + size + d * size /\ d * size \in Nat /\ j * size \in Nat
      BY <3>1
    <3> HIDE <3>1
    <3> QED BY <3>2
  <2>2. CASE i < j
    <3>1. PICK d \in Nat : j = i + 1 + d
      <4>1. j - i - 1 \in Nat /\ j = i + 1 + (j - i - 1)
        BY <2>2
      <4> QED BY <4>1
    <3>2. j * size = i * size + size + d * size /\ d * size \in Nat /\ i * size \in Nat
      BY <3>1
    <3> HIDE <3>1
    <3> QED BY <3>2
  <2> QED BY <1>2, <2>1, <2>2
<1> QED BY <1>1, <1>2

(* The bytes of a chunk are those of the block, then zeros.                 *)
LEMMA ChunksAre ==
  ASSUME NEW k \in Nat \ {0}, NEW data \in Seq(Bits), NEW i \in 0..k - 1
  PROVE  /\ Chunk(data, k, i) \in Seq(Bits) /\ Len(Chunk(data, k, i)) = ChunkSize(data, k)
         /\ \A p \in 1..ChunkSize(data, k) :
              Chunk(data, k, i)[p] = IF i * ChunkSize(data, k) + p <= Len(data)
                                     THEN data[i * ChunkSize(data, k) + p] ELSE 0
<1> DEFINE size == ChunkSize(data, k)
           c == [p \in 1..size |-> IF i * size + p <= Len(data) THEN data[i * size + p] ELSE 0]
<1>1. Chunk(data, k, i) = c
  BY DEF Chunk
<1>2. size \in Nat
  BY ChunkSizes
<1> HIDE DEF size
<1>3. \A p \in 1..size : c[p] = IF i * size + p <= Len(data) THEN data[i * size + p] ELSE 0
  OBVIOUS
<1>4. \A p \in 1..size : c[p] \in Bits
  <2> SUFFICES ASSUME NEW p \in 1..size PROVE c[p] \in Bits
    OBVIOUS
  <2>1. i * size + p \in Nat \ {0}
    <3>1. i \in Nat
      OBVIOUS
    <3> QED BY <3>1, <1>2, Rows
  <2>2. CASE i * size + p <= Len(data)
    <3>1. i * size + p \in 1..Len(data)
      BY <2>1, <2>2
    <3>2. data[i * size + p] \in Bits
      BY <3>1, ElementOfSeq
    <3> QED BY <1>3, <2>2, <3>2
  <2>3. CASE ~(i * size + p <= Len(data))
    BY <1>3, <2>3 DEF Bits
  <2> QED BY <2>2, <2>3
<1>5. c \in Seq(Bits) /\ Len(c) = size
  <2>1. c \in [1..size -> Bits]
    BY <1>4
  <2> HIDE DEF c
  <2> QED BY <1>2, <2>1
<1> QED BY <1>1, <1>3, <1>5 DEF size

(* The first n bytes of a message and, behind its end, zeros.               *)
LEMMA PaddedIs ==
  ASSUME NEW data \in Seq(Bits), NEW n \in Nat
  PROVE  /\ Padded(data, n) \in Seq(Bits) /\ Len(Padded(data, n)) = n
         /\ \A p \in 1..n : Padded(data, n)[p] = IF p <= Len(data) THEN data[p] ELSE 0
         /\ Len(data) = n => Padded(data, n) = data
<1> DEFINE c == [p \in 1..n |-> IF p <= Len(data) THEN data[p] ELSE 0]
<1>1. Padded(data, n) = c
  BY DEF Padded
<1>2. \A p \in 1..n : c[p] = IF p <= Len(data) THEN data[p] ELSE 0
  OBVIOUS
<1>3. ASSUME NEW p \in 1..n PROVE c[p] \in Bits
  <2>1. p <= Len(data) => data[p] \in Bits
    BY ElementOfSeq
  <2>2. 0 \in Bits
    BY DEF Bits
  <2> QED BY <2>1, <2>2
<1>4. c \in [1..n -> Bits]
  BY <1>3
<1>5. Len(data) = n => c = data
  OBVIOUS
<1>6. c \in Seq(Bits) /\ Len(c) = n
  <2> HIDE DEF c
  <2> QED BY <1>4
<1> QED BY <1>1, <1>2, <1>5, <1>6

(* A sequence of sequences is flattened to the last of its prefixes.        *)
ArePrefixes(prefix, seqs, k) ==
  \A i \in 1..k : prefix[i] = IF i = 1 THEN seqs[i] ELSE prefix[i - 1] \o seqs[i]

(* A flattened sequence is the last of its prefixes, when each prefix is    *)
(* the one before with one sequence more.                                   *)
LEMMA Flattened ==
  ASSUME NEW k \in Nat \ {0}, NEW seqs, Len(seqs) = k, 
         NEW prefix, prefix = [i \in 1..k |-> prefix[i]], ArePrefixes(prefix, seqs, k)
  PROVE  FlattenSeq(seqs) = prefix[k]
<1> DEFINE IsFlat(f) == f = [i \in 1..k |-> IF i = 1 THEN seqs[i] ELSE f[i - 1] \o seqs[i]]
           flat == CHOOSE f : IsFlat(f)
           T == {n \in Nat : n \in 1..k => flat[n] = prefix[n]}
<1>1. FlattenSeq(seqs) = flat[k]
  BY DEF FlattenSeq
<1>2. IsFlat(prefix)
  BY DEF ArePrefixes
<1> HIDE DEF IsFlat
<1>3. IsFlat(flat)
  BY <1>2
<1>4. \A i \in 1..k : flat[i] = IF i = 1 THEN seqs[i] ELSE flat[i - 1] \o seqs[i]
  BY <1>3 DEF IsFlat
<1> HIDE DEF flat
<1>6. 0 \in T
  OBVIOUS
<1>7. \A n \in T \cap Nat : n + 1 \in T
  <2> SUFFICES ASSUME NEW n \in Nat, n \in T, n + 1 \in 1..k
               PROVE  flat[n + 1] = prefix[n + 1]
    <3>1. \A n \in Nat : n + 1 \in Nat
      OBVIOUS
    <3> QED BY <3>1
  <2>0. n \in Nat
    OBVIOUS
  <2>1. (n + 1) - 1 = n /\ (n + 1 # 1 => n \in 1..k)
    BY <2>0
  <2>2. n + 1 # 1 => flat[n] = prefix[n]
    BY <2>0, <2>1
  <2>3. flat[n + 1] = IF n + 1 = 1 THEN seqs[n + 1] ELSE flat[n] \o seqs[n + 1]
    BY <1>4, <2>1
  <2>4. prefix[n + 1] = IF n + 1 = 1 THEN seqs[n + 1] ELSE prefix[n] \o seqs[n + 1]
    BY <2>1 DEF ArePrefixes
  <2> QED BY <2>2, <2>3, <2>4
<1>8. Nat \subseteq T
  <2> HIDE DEF T
  <2> QED BY <1>6, <1>7, AllNaturals
<1>9. k \in T
  BY <1>8
<1> QED BY <1>1, <1>9

(* The first i + 1 chunks of a block are the first i and the next.          *)
LEMMA PaddedGrows ==
  ASSUME NEW k \in Nat \ {0}, NEW data \in Seq(Bits), NEW i \in 0..k - 1
  PROVE  LET size == ChunkSize(data, k)
         IN  Padded(data, (i + 1) * size) = Padded(data, i * size) \o Chunk(data, k, i)
<1> DEFINE size == ChunkSize(data, k)
           head == Padded(data, i * size)
           tail == Chunk(data, k, i)
           all == Padded(data, (i + 1) * size)
<1>1. size \in Nat /\ i \in Nat
  BY ChunkSizes
<1>2. tail \in Seq(Bits) /\ Len(tail) = size
      /\ \A p \in 1..size : tail[p] = IF i * size + p <= Len(data) THEN data[i * size + p] ELSE 0
  BY ChunksAre
<1> HIDE DEF size
<1>3. i * size \in Nat /\ (i + 1) * size \in Nat /\ (i + 1) * size = i * size + size
  BY <1>1
<1>0. ASSUME NEW a \in Nat
      PROVE  /\ Padded(data, a) \in Seq(Bits) /\ Len(Padded(data, a)) = a
             /\ \A p \in 1..a : Padded(data, a)[p] = IF p <= Len(data) THEN data[p] ELSE 0
  BY PaddedIs
<1>4. head \in Seq(Bits) /\ Len(head) = i * size
      /\ \A p \in 1..i * size : head[p] = IF p <= Len(data) THEN data[p] ELSE 0
  BY <1>0, <1>3
<1>5. all \in Seq(Bits) /\ Len(all) = i * size + size
      /\ \A p \in 1..i * size + size : all[p] = IF p <= Len(data) THEN data[p] ELSE 0
  BY <1>0, <1>3
<1> HIDE DEF head, tail, all
<1>6. ASSUME NEW p \in 1..i * size + size PROVE all[p] = (head \o tail)[p]
  <2>1. CASE p <= i * size
    BY <1>1, <1>2, <1>3, <1>4, <1>5, <2>1
  <2>2. CASE p > i * size
    <3>1. PICK q \in 1..size : p = i * size + q
      <4>1. p - i * size \in 1..size /\ p = i * size + (p - i * size)
        BY <1>1, <1>3, <2>2
      <4> QED BY <4>1
    <3>2. (head \o tail)[p] = tail[q]
      <4>1. PICK n \in Nat : n = i * size
        BY <1>3
      <4>2. Len(head) = n /\ Len(tail) = size /\ p = n + q /\ size \in Nat
        BY <1>1, <1>2, <1>4, <3>1, <4>1
      <4>3. p \in 1..n + size /\ ~(p <= n) /\ p - n = q
        BY <4>2
      <4>4. head \in Seq(Bits) /\ tail \in Seq(Bits)
        BY <1>2, <1>4
      <4>5. \A x \in 1..Len(head) + Len(tail) :
              (head \o tail)[x] = IF x <= Len(head) THEN head[x] ELSE tail[x - Len(head)]
        BY <4>4, ConcatProperties
      <4>6. \A x \in 1..n + size : (head \o tail)[x] = IF x <= n THEN head[x] ELSE tail[x - n]
        BY <4>2, <4>5
      <4> HIDE DEF size
      <4> QED BY <4>3, <4>6
    <3> QED BY <1>2, <1>5, <3>1, <3>2
  <2>3. p \in Int
    BY <1>3
  <2>4. p <= i * size \/ p > i * size
    BY <1>3, <2>3
  <2> QED BY <2>1, <2>2, <2>4
<1>7. head \o tail \in Seq(Bits) /\ Len(head \o tail) = i * size + size
  <2>1. head \o tail \in Seq(Bits) /\ Len(head \o tail) = Len(head) + Len(tail)
    BY <1>2, <1>4, ConcatProperties
  <2> QED BY <1>2, <1>4, <2>1
<1> QED BY <1>1, <1>3, <1>5, <1>6, <1>7, SeqEqual DEF all, head, tail, size

(* Joining all chunks of a block gives the block back.                      *)
LEMMA JoinedIs ==
  ASSUME NEW k \in Nat \ {0}, NEW data \in Seq(Bits), NEW chunks,
         \A i \in 0..k - 1 : chunks[i] = Chunk(data, k, i)
  PROVE  Joined(chunks, k, Len(data)) = data
<1> DEFINE size == ChunkSize(data, k)
           seqs == [j \in 1..k |-> chunks[j - 1]]
           prefix == [i \in 1..k |-> Padded(data, i * size)]
<1>1. size \in Nat /\ Len(data) <= k * size /\ k * size \in Nat
  BY ChunkSizes
<1>2. Len(seqs) = k
  OBVIOUS
<1>3. ASSUME NEW i \in 1..k
      PROVE  Padded(data, i * size) = IF i = 1 THEN seqs[i] ELSE prefix[i - 1] \o seqs[i]
  <2>1. i - 1 \in 0..k - 1 /\ (i - 1) + 1 = i
    OBVIOUS
  <2>2. Padded(data, i * size) = Padded(data, (i - 1) * size) \o seqs[i]
    BY <2>1, PaddedGrows
  <2>3. CASE i = 1
    <3>1. Padded(data, 0) = << >>
      BY PaddedIs
    <3>2. (i - 1) * size = 0
      BY <1>1, <2>3
    <3>3. seqs[i] \in Seq(Bits)
      BY <2>1, ChunksAre
    <3> QED BY <2>2, <2>3, <3>1, <3>2, <3>3, ConcatEmptySeq
  <2>4. CASE i # 1
    <3>1. i - 1 \in 1..k
      BY <2>4
    <3>2. prefix[i - 1] = Padded(data, (i - 1) * size)
      BY <3>1
    <3> QED BY <2>2, <2>4, <3>2
  <2> QED BY <2>3, <2>4
<1>5. FlattenSeq(seqs) = prefix[k]
  <2>1. ArePrefixes(prefix, seqs, k)
    BY <1>3 DEF ArePrefixes
  <2>2. prefix = [i \in 1..k |-> prefix[i]]
    OBVIOUS
  <2> HIDE DEF seqs, prefix, size
  <2> QED BY <1>2, <2>1, <2>2, Flattened
<1>6. prefix[k] = Padded(data, k * size)
  OBVIOUS
<1>7. /\ Padded(data, k * size) \in Seq(Bits) /\ Len(Padded(data, k * size)) = k * size
      /\ \A p \in 1..k * size : Padded(data, k * size)[p] = IF p <= Len(data) THEN data[p] ELSE 0
  BY <1>1, PaddedIs
<1>8. SubSeq(Padded(data, k * size), 1, Len(data)) = data
  <2> DEFINE all == Padded(data, k * size)
             front == SubSeq(all, 1, Len(data))
  <2>1. Len(data) \in Nat
    OBVIOUS
  <2> HIDE DEF all, size
  <2>2. front \in Seq(Bits) /\ Len(front) = Len(data) /\ \A p \in 1..Len(data) : front[p] = all[p]
    BY <1>1, <1>7, <2>1, SubSeqProperties DEF all
  <2>3. \A p \in 1..Len(data) : all[p] = data[p]
    BY <1>1, <1>7, <2>1 DEF all
  <2> HIDE DEF front
  <2>4. front = data
    BY <2>2, <2>3, SeqEqual
  <2> QED BY <2>4 DEF front, all
<1> QED BY <1>5, <1>6, <1>8 DEF Joined

(* A parity is the sum of its stripe, byte by byte.                         *)
LEMMA ParityIs ==
  ASSUME NEW k \in Nat, NEW r, NEW j, NEW chunks, NEW size \in Nat
  PROVE  /\ Parity(chunks, Stripe(k, r, j), size) \in Seq(Bits)
         /\ Len(Parity(chunks, Stripe(k, r, j), size)) = size
         /\ \A p \in 1..size : Parity(chunks, Stripe(k, r, j), size)[p]
                               = Cardinality(Ones(chunks, Stripe(k, r, j), p)) % 2
<1> DEFINE is == Stripe(k, r, j)
           f == [p \in 1..size |-> Cardinality(Ones(chunks, is, p)) % 2]
<1>1. Parity(chunks, is, size) = f
  BY DEF Parity, Ones
<1>2. IsFiniteSet(is)
  BY StripesAreFinite
<1> HIDE DEF is
<1>3. \A p : Cardinality(Ones(chunks, is, p)) \in Nat
  <2> TAKE p
  <2>1. Ones(chunks, is, p) \in SUBSET is
    BY DEF Ones
  <2> QED BY <1>2, <2>1, FS_Subset, FS_CardinalityType
<1>4. \A p \in 1..size : f[p] \in Bits
  BY <1>3, Parities
<1>5. f \in [1..size -> Bits] /\ \A p \in 1..size : f[p] = Cardinality(Ones(chunks, is, p)) % 2
  BY <1>4
<1> HIDE DEF f
<1>6. f \in Seq(Bits) /\ Len(f) = size
  BY <1>5
<1> QED BY <1>1, <1>5, <1>6 DEF is

ChunksOf(m, k) == [i \in 0..k - 1 |-> Chunk(m, k, i)]

(* _encode(): the chunks of the block, and the parities behind them.        *)
LEMMA EncodedIs ==
  ASSUME NEW k \in Nat \ {0, 1}, NEW r \in Nat \ {0}, NEW m \in Seq(Bits)
  PROVE  LET size == ChunkSize(m, k)
             packets == ChunksOf(m, k)
             sent == Encode(m, k, r)
         IN  /\ DOMAIN sent = 0..k + r - 1 /\ size \in Nat
             /\ packets \in [0..k - 1 -> Seq(Bits)]
             /\ \A i \in 0..k - 1 : sent[i] = packets[i] /\ Len(packets[i]) = size
             /\ \A j \in 0..r - 1 : /\ sent[k + j] \in Seq(Bits)
                                    /\ sent[k + j] = Parity(packets, Stripe(k, r, j), size)
             /\ [i \in 0..k - 1 |-> Padded(packets[i], size)] = packets
<1> DEFINE size == ChunkSize(m, k)
           packets == ChunksOf(m, k)
           sent == [i \in 0..k + r - 1 |->
              IF i < k THEN packets[i]
              ELSE Parity(packets, Stripe(k, r, i - k), size)]
<1>1. Encode(m, k, r) = sent
  BY DEF Encode, Copied, ChunksOf
<1>2. size \in Nat
  BY ChunkSizes
<1>3. \A i \in 0..k - 1 : packets[i] \in Seq(Bits) /\ Len(packets[i]) = size
  BY ChunksAre DEF ChunksOf
<1>4. packets \in [0..k - 1 -> Seq(Bits)]
  BY <1>3 DEF ChunksOf
<1>5. \A i \in 0..k - 1 : Padded(packets[i], size) = packets[i]
  <2> HIDE DEF packets
  <2> QED BY <1>2, <1>3, PaddedIs
<1>6. [i \in 0..k - 1 |-> Padded(packets[i], size)] = packets
  <2>1. packets = [i \in 0..k - 1 |-> packets[i]]
    BY DEF ChunksOf
  <2> QED BY <1>5, <2>1
<1>7. \A i \in 0..k - 1 : sent[i] = packets[i]
  <2> HIDE DEF packets
  <2> QED OBVIOUS
<1>8. ASSUME NEW j \in 0..r - 1
      PROVE  /\ sent[k + j] \in Seq(Bits)
             /\ sent[k + j] = Parity(packets, Stripe(k, r, j), size)
  <2>1. k + j \in 0..k + r - 1 /\ ~(k + j < k) /\ (k + j) - k = j
    OBVIOUS
  <2> HIDE DEF packets
  <2>2. sent[k + j] = Parity(packets, Stripe(k, r, j), size)
    BY <2>1
  <2> QED BY <1>2, <2>2, ParityIs
<1>9. DOMAIN sent = 0..k + r - 1
  OBVIOUS
<1> HIDE DEF packets, sent, size
<1> QED BY <1>1, <1>2, <1>3, <1>4, <1>6, <1>7, <1>8, <1>9 DEF packets, sent, size

EncodedWell(m, k, r) ==
  LET size == ChunkSize(m, k)
      packets == ChunksOf(m, k)
      sent == Encode(m, k, r)
  IN  /\ DOMAIN sent = 0..k + r - 1
      /\ \A i \in 0..k - 1 : sent[i] = packets[i] /\ Len(packets[i]) = size
      /\ \A j \in 0..r - 1 : sent[k + j] = Parity(packets, Stripe(k, r, j), size)

(* EncodedIs in one name.                                                   *)
LEMMA EncodedWellIs ==
  ASSUME NEW k \in Nat \ {0, 1}, NEW r \in Nat \ {0}, NEW m \in Seq(Bits)
  PROVE  EncodedWell(m, k, r)
BY EncodedIs DEF EncodedWell

(* A single chunk is its own parity.                                        *)
LEMMA CopyIsParity ==
  ASSUME NEW r \in Nat \ {0}, NEW m \in Seq(Bits)
  PROVE  Parity([i \in 0..0 |-> m], Stripe(1, r, 0 % r), Len(m)) = m
<1> DEFINE c == [i \in 0..0 |-> m]
           parity == Parity(c, Stripe(1, r, 0 % r), Len(m))
<1>1. Stripe(1, r, 0 % r) = {0}
  BY DEF Stripe
<1>2. /\ parity \in Seq(Bits) /\ Len(parity) = Len(m)
      /\ \A p \in 1..Len(m) : parity[p] = Cardinality(Ones(c, {0}, p)) % 2
  <2> HIDE DEF c
  <2>1. LET all == Parity(c, Stripe(1, r, 0 % r), Len(m))
        IN  /\ all \in Seq(Bits) /\ Len(all) = Len(m)
            /\ \A p \in 1..Len(m) : all[p] = Cardinality(Ones(c, Stripe(1, r, 0 % r), p)) % 2
    BY ParityIs
  <2> QED BY <1>1, <2>1
<1> HIDE DEF parity
<1>3. ASSUME NEW p, m[p] \in Bits PROVE Cardinality(Ones(c, {0}, p)) = m[p]
  <2>0. IsFiniteSet({0})
    BY FS_Singleton
  <2>1. c[0][p] = m[p] /\ {0} \ {0} = {}
    OBVIOUS
  <2> HIDE DEF c
  <2>2. Cardinality(Ones(c, {0}, p)) = Cardinality(Ones(c, {}, p)) + c[0][p]
    BY <1>3, <2>0, <2>1, OneMore
  <2>3. Cardinality(Ones(c, {}, p)) = 0
    <3>1. Ones(c, {}, p) = {}
      BY DEF Ones
    <3> QED BY <3>1, FS_EmptySet
  <2>4. m[p] \in Int
    BY <1>3 DEF Bits
  <2> QED BY <2>1, <2>2, <2>3, <2>4
<1>4. ASSUME NEW p \in 1..Len(m) PROVE parity[p] = m[p]
  <2>1. m[p] \in Bits
    BY ElementOfSeq
  <2>2. parity[p] = m[p] % 2
    BY <1>2, <1>3, <2>1
  <2> QED BY <2>1, <2>2 DEF Bits
<1>5. parity = m
  BY <1>2, <1>4, SeqEqual
<1> QED BY <1>5 DEF parity

(* Which chunks of a block come back, and that they come back right.        *)
LEMMA BlockRebuilt ==
  ASSUME NEW k \in Nat \ {0}, NEW r \in Nat \ {0}, NEW m \in Seq(Bits), NEW lost,
         NEW i \in 0..k - 1
  PROVE  /\ Encode(m, k, r)[i] \in Seq(Bits)
         /\ Rebuilt(Received(Encode(m, k, r), lost), k, r, i)
              = IF i \notin lost \/ Alone(lost, k, r, i) THEN Encode(m, k, r)[i] ELSE Lost
<1>1. CASE k # 1
  <2> DEFINE size == ChunkSize(m, k)
             packets == ChunksOf(m, k)
             sent == Encode(m, k, r)
  <2>1. /\ DOMAIN sent = 0..k + r - 1 /\ size \in Nat
        /\ packets \in [0..k - 1 -> Seq(Bits)]
        /\ \A n \in 0..k - 1 : sent[n] = packets[n] /\ Len(packets[n]) = size
        /\ \A j \in 0..r - 1 : /\ sent[k + j] \in Seq(Bits)
                               /\ sent[k + j] = Parity(packets, Stripe(k, r, j), size)
        /\ [n \in 0..k - 1 |-> Padded(packets[n], size)] = packets
    BY <1>1, EncodedIs
  <2>2. i % r \in 0..r - 1
    <3>1. i \in Nat
      OBVIOUS
    <3> QED BY <3>1, Residues
  <2> HIDE DEF size, packets, sent
  <2>3. Coded(sent, packets, k, r, size)
    <3>1. \A n \in 0..k - 1 : Len(packets[n]) <= size
      BY <2>1
    <3> QED BY <2>1, <3>1 DEF Coded
  <2>4. sent[k + (i % r)] = Parity(AllPadded(packets, k, size), Stripe(k, r, i % r), size)
    BY <2>1, <2>2 DEF AllPadded
  <2>5. /\ i \notin lost => Rebuilt(Received(sent, lost), k, r, i) = packets[i]
        /\ i \in lost /\ ~Alone(lost, k, r, i) => Rebuilt(Received(sent, lost), k, r, i) = Lost
        /\ i \in lost /\ Alone(lost, k, r, i) =>
             Rebuilt(Received(sent, lost), k, r, i) = packets[i]
    <3>1. Padded(packets[i], size) = packets[i]
      BY <2>1, PaddedIs
    <3>2. LET got == Received(sent, lost)
          IN  /\ i \notin lost => Rebuilt(got, k, r, i) = packets[i]
              /\ i \in lost /\ ~Alone(lost, k, r, i) => Rebuilt(got, k, r, i) = Lost
              /\ i \in lost /\ Alone(lost, k, r, i) =>
                   /\ Rebuilt(got, k, r, i) \in Seq(Bits)
                   /\ sent[k + (i % r)]
                        = Parity(AllPadded(packets, k, size), Stripe(k, r, i % r), size) =>
                        Rebuilt(got, k, r, i) = Padded(packets[i], size)
      <4>1. size \in Nat /\ k \in Nat
        BY <2>1
      <4> QED BY <2>3, <4>1, RebuiltIs
    <3> QED BY <2>4, <3>1, <3>2
  <2>6. sent[i] = packets[i] /\ sent[i] \in Seq(Bits)
    BY <2>1
  <2> QED BY <2>5, <2>6 DEF sent
<1>2. CASE k = 1
  <2> DEFINE packets == [n \in 0..0 |-> m]
             sent == Encode(m, k, r)
  <2>1. sent = [n \in 0..r |-> m] /\ i = 0 /\ k - 1 = 0 /\ k + r - 1 = r
    BY <1>2 DEF Encode, EncodeCopies, Copied
  <2>2. /\ DOMAIN sent = 0..k + r - 1 /\ Len(m) \in Nat
        /\ packets \in [0..k - 1 -> Seq(Bits)]
        /\ \A n \in 0..k - 1 : sent[n] = packets[n] /\ Len(packets[n]) <= Len(m)
        /\ \A j \in 0..r - 1 : sent[k + j] = m
    BY <1>2, <2>1
  <2>3. AllPadded(packets, k, Len(m)) = packets
    <3>1. \A n \in 0..0 : Padded(packets[n], Len(m)) = packets[n]
      BY PaddedIs
    <3> QED BY <2>1, <3>1 DEF AllPadded
  <2>4. i % r \in 0..r - 1
    BY <2>1, Residues
  <2>5. sent[k + (i % r)]
          = Parity(AllPadded(packets, k, Len(m)), Stripe(k, r, i % r), Len(m))
    BY <1>2, <2>1, <2>2, <2>3, <2>4, CopyIsParity
  <2>6. packets[i] = m /\ sent[i] = m /\ Padded(m, Len(m)) = m
    BY <2>1, PaddedIs
  <2> HIDE DEF packets, sent
  <2>7. Coded(sent, packets, k, r, Len(m))
    BY <2>2 DEF Coded
  <2>8. LET got == Received(sent, lost)
        IN  /\ i \notin lost => Rebuilt(got, k, r, i) = packets[i]
            /\ i \in lost /\ ~Alone(lost, k, r, i) => Rebuilt(got, k, r, i) = Lost
            /\ i \in lost /\ Alone(lost, k, r, i) =>
                 /\ Rebuilt(got, k, r, i) \in Seq(Bits)
                 /\ sent[k + (i % r)]
                      = Parity(AllPadded(packets, k, Len(m)), Stripe(k, r, i % r), Len(m)) =>
                      Rebuilt(got, k, r, i) = Padded(packets[i], Len(m))
    <3>1. k \in Nat /\ Len(m) \in Nat
      BY <2>2
    <3> DEFINE size == Len(m)
    <3>2. size \in Nat /\ Coded(sent, packets, k, r, size)
      BY <2>7, <3>1
    <3> HIDE DEF size
    <3>3. LET got == Received(sent, lost)
          IN  /\ i \notin lost => Rebuilt(got, k, r, i) = packets[i]
              /\ i \in lost /\ ~Alone(lost, k, r, i) => Rebuilt(got, k, r, i) = Lost
              /\ i \in lost /\ Alone(lost, k, r, i) =>
                   /\ Rebuilt(got, k, r, i) \in Seq(Bits)
                   /\ sent[k + (i % r)]
                        = Parity(AllPadded(packets, k, size), Stripe(k, r, i % r), size) =>
                        Rebuilt(got, k, r, i) = Padded(packets[i], size)
      BY <3>1, <3>2, RebuiltIs
    <3> QED BY <3>3 DEF size
  <2> QED BY <2>5, <2>6, <2>8 DEF sent
<1> QED BY <1>1, <1>2

(* decode() returns the block it was made of, or gives up.                  *)
LEMMA BlockDecoded ==
  ASSUME NEW k \in Nat \ {0}, NEW r \in Nat, r = 0 => k = 1, NEW m \in Seq(Bits), NEW lost
  PROVE  LET sent == Encode(m, k, r)
             got == Received(sent, lost)
         IN  /\ Decode(got, k, r, Len(m)) \in {Lost, m}
             /\ DecodeBlock(got, k, r) \in {Lost, [i \in 0..k - 1 |-> sent[i]]}
<1> DEFINE sent == Encode(m, k, r)
           got == Received(sent, lost)
<1>1. m # Lost
  BY LostAssumption
<1>2. Decode(got, k, r, Len(m)) \in {Lost, m}
  <2>1. CASE Copied(k, r)
    <3>1. sent = [i \in 0..r |-> m]
      BY <2>1 DEF Encode, EncodeCopies
    <3>2. \A i \in DOMAIN got : got[i] \in {m, Lost}
      BY <3>1 DEF Received
    <3> HIDE DEF got
    <3>3. ASSUME Missing(got) # DOMAIN got
          PROVE  got[CHOOSE i \in DOMAIN got : got[i] # Lost] = m
      <4>1. \E i \in DOMAIN got : got[i] # Lost
        BY <3>3 DEF Missing
      <4> QED BY <4>1, <3>2
    <3>4. Decode(got, k, r, Len(m)) = DecodeCopies(got)
      BY <2>1 DEF Decode
    <3> QED BY <3>3, <3>4 DEF DecodeCopies
  <2>2. CASE ~Copied(k, r)
    <3>1. k \in Nat \ {0, 1} /\ r \in Nat \ {0}
      BY <2>2 DEF Copied
    <3> DEFINE chunks == [i \in 0..k - 1 |-> Rebuilt(got, k, r, i)]
    <3>2. \A i \in 0..k - 1 : sent[i] = Chunk(m, k, i)
      BY <3>1, EncodedIs DEF ChunksOf
    <3>3. \A i \in 0..k - 1 : chunks[i] = Rebuilt(got, k, r, i)
      OBVIOUS
    <3>4. \A i \in 0..k - 1 : chunks[i] \in {Lost, Chunk(m, k, i)}
      <4> SUFFICES ASSUME NEW i \in 0..k - 1 PROVE chunks[i] \in {Lost, Chunk(m, k, i)}
        OBVIOUS
      <4>1. Rebuilt(got, k, r, i) \in {Lost, sent[i]}
        <5>1. k \in Nat \ {0} /\ r \in Nat \ {0}
          BY <3>1
        <5>2. Rebuilt(Received(Encode(m, k, r), lost), k, r, i)
                = IF i \notin lost \/ Alone(lost, k, r, i) THEN Encode(m, k, r)[i] ELSE Lost
          BY <5>1, BlockRebuilt
        <5> QED BY <5>2
      <4> QED BY <3>2, <3>3, <4>1
    <3> HIDE DEF chunks
    <3>5. Decode(got, k, r, Len(m)) # Lost =>
             /\ \A i \in 0..k - 1 : chunks[i] # Lost
             /\ Decode(got, k, r, Len(m)) = Joined(chunks, k, Len(m))
      BY <2>2 DEF Decode, chunks
    <3>6. (\A i \in 0..k - 1 : chunks[i] # Lost) => Joined(chunks, k, Len(m)) = m
      BY <3>4, JoinedIs
    <3> QED BY <3>5, <3>6
  <2> QED BY <2>1, <2>2
<1>3. DecodeBlock(got, k, r) \in {Lost, [i \in 0..k - 1 |-> sent[i]]}
  <2> DEFINE chunks == [i \in 0..k - 1 |-> IF r = 0 THEN got[i] ELSE Rebuilt(got, k, r, i)]
  <2>1. \/ DecodeBlock(got, k, r) = Lost
        \/ DecodeBlock(got, k, r) = chunks /\ (\A i \in 0..k - 1 : chunks[i] # Lost)
    <3>1. DecodeBlock(got, k, r)
            = IF Cardinality(Missing(got)) > r \/ \E i \in 0..k - 1 : chunks[i] = Lost
              THEN Lost ELSE chunks
      BY Zenon DEF DecodeBlock
    <3> HIDE DEF chunks
    <3> QED BY <3>1
  <2>2. ASSUME NEW i \in 0..k - 1 PROVE chunks[i] \in {Lost, sent[i]}
    <3>1. CASE r = 0
      <4>1. sent = [n \in 0..0 |-> m] /\ i = 0
        BY <3>1 DEF Encode, EncodeCopies, Copied
      <4>2. got[i] \in {Lost, sent[i]}
        BY <4>1 DEF Received
      <4> QED BY <3>1, <4>2
    <3>2. CASE r # 0
      <4>1. Rebuilt(got, k, r, i) \in {Lost, sent[i]}
        <5>1. k \in Nat \ {0} /\ r \in Nat \ {0}
          BY <3>2
        <5>2. Rebuilt(Received(Encode(m, k, r), lost), k, r, i)
                = IF i \notin lost \/ Alone(lost, k, r, i) THEN Encode(m, k, r)[i] ELSE Lost
          BY <5>1, BlockRebuilt
        <5> QED BY <5>2
      <4> QED BY <3>2, <4>1
    <3> QED BY <3>1, <3>2
  <2>3. (\A i \in 0..k - 1 : chunks[i] # Lost) => chunks = [i \in 0..k - 1 |-> sent[i]]
    BY <2>2
  <2> HIDE DEF chunks
  <2> QED BY <2>1, <2>3
<1> QED BY <1>2, <1>3

(* A message with the first byte of one of its chunks changed.              *)
Flipped(m, at) == [m EXCEPT ![at] = 1 - @]
First(m, k, i) == i * ChunkSize(m, k) + 1

(* The first byte of a chunk that is not all padding lies in the block.     *)
LEMMA FirstIs ==
  ASSUME NEW k \in Nat \ {0}, NEW m \in Seq(Bits), NEW i \in 0..k - 1,
         (k - 1) * ChunkSize(m, k) < Len(m)
  PROVE  /\ First(m, k, i) \in 1..Len(m) /\ 1 \in 1..ChunkSize(m, k)
         /\ \A j \in 0..k - 1 : \A q \in 1..ChunkSize(m, k) :
              j * ChunkSize(m, k) + q = First(m, k, i) <=> j = i /\ q = 1
<1> DEFINE size == ChunkSize(m, k)
<1>1. size \in Nat /\ Len(m) <= k * size
  BY ChunkSizes
<1>2. (k - 1) * size < Len(m)
  OBVIOUS
<1> HIDE DEF size
<1>3. i * size \in Nat /\ i * size <= (k - 1) * size
  <2>1. PICK d \in Nat : k - 1 = i + d
    <3>1. k - 1 - i \in Nat /\ k - 1 = i + (k - 1 - i)
      OBVIOUS
    <3> QED BY <3>1
  <2>2. (k - 1) * size = i * size + d * size /\ d * size \in Nat /\ i * size \in Nat
    BY <1>1, <2>1
  <2> HIDE <2>1
  <2> QED BY <2>2
<1>4. 1 \in 1..size
  <2>1. size # 0
    BY <1>1, <1>2
  <2> QED BY <1>1, <2>1
<1>5. i * size + 1 \in 1..Len(m)
  <2>1. (k - 1) * size \in Int
    BY <1>1
  <2>2. Len(m) \in Nat
    OBVIOUS
  <2> HIDE DEF size
  <2> QED BY <1>2, <1>3, <2>1, <2>2
<1>6. ASSUME NEW j \in 0..k - 1, NEW q \in 1..size
      PROVE  j * size + q = i * size + 1 <=> j = i /\ q = 1
  <2>1. CASE j = i
    BY <1>3, <2>1
  <2>2. CASE j # i
    <3>1. i \in Nat /\ j \in Nat
      OBVIOUS
    <3>2. j * size + q # i * size + 1
      BY <1>1, <1>4, <2>2, <3>1, Rows
    <3> QED BY <2>2, <3>2
  <2> QED BY <2>1, <2>2
<1> QED BY <1>4, <1>5, <1>6 DEF First, size

(* Changing that byte changes this chunk, in its first byte, and no         *)
(* other.                                                                   *)
LEMMA FlippedIs ==
  ASSUME NEW k \in Nat \ {0}, NEW m \in Seq(Bits), NEW i \in 0..k - 1,
         (k - 1) * ChunkSize(m, k) < Len(m)
  PROVE  LET f == Flipped(m, First(m, k, i))
             size == ChunkSize(m, k)
         IN  /\ f \in Seq(Bits) /\ Len(f) = Len(m) /\ ChunkSize(f, k) = size
             /\ f[First(m, k, i)] = 1 - m[First(m, k, i)]
             /\ \A p \in 1..Len(m) : p # First(m, k, i) => f[p] = m[p]
             /\ \A j \in 0..k - 1 : j # i => Chunk(f, k, j) = Chunk(m, k, j)
             /\ Chunk(f, k, i)[1] = 1 - Chunk(m, k, i)[1]
             /\ \A p \in 1..size : p # 1 => Chunk(f, k, i)[p] = Chunk(m, k, i)[p]
<1> DEFINE f == Flipped(m, First(m, k, i))
           size == ChunkSize(m, k)
           at == First(m, k, i)
<1>1. at \in 1..Len(m) /\ 1 \in 1..size
      /\ \A j \in 0..k - 1 : \A q \in 1..size : j * size + q = at <=> j = i /\ q = 1
  BY FirstIs
<1>2. m[at] \in Bits
  BY <1>1, ElementOfSeq
<1> HIDE DEF at
<1>3. /\ f \in Seq(Bits) /\ Len(f) = Len(m) /\ f[at] = 1 - m[at]
      /\ \A p \in 1..Len(m) : p # at => f[p] = m[p]
  <2>1. 1 - m[at] \in Bits
    BY <1>2 DEF Bits
  <2>2. f = [m EXCEPT ![at] = 1 - m[at]]
    BY DEF Flipped, at
  <2> QED BY <1>1, <2>1, <2>2, ExceptSeq
<1> HIDE DEF f
<1>4. ChunkSize(f, k) = size
  BY <1>3 DEF ChunkSize
<1>5. size \in Nat
  BY ChunkSizes
<1> HIDE DEF size
<1>6. ASSUME NEW j \in 0..k - 1, NEW q \in 1..size
      PROVE  /\ j = i /\ q = 1 => Chunk(f, k, j)[q] = 1 - Chunk(m, k, j)[q]
             /\ ~(j = i /\ q = 1) => Chunk(f, k, j)[q] = Chunk(m, k, j)[q]
  <2>1. Chunk(m, k, j)[q] = IF j * size + q <= Len(m) THEN m[j * size + q] ELSE 0
    BY ChunksAre DEF size
  <2>2. Chunk(f, k, j)[q] = IF j * size + q <= Len(m) THEN f[j * size + q] ELSE 0
    BY <1>3, <1>4, ChunksAre
  <2>3. j * size + q = at <=> j = i /\ q = 1
    BY <1>1
  <2>4. j * size + q \in Nat \ {0}
    <3>1. j \in Nat
      OBVIOUS
    <3> QED BY <1>5, <3>1, Rows
  <2>5. j * size + q <= Len(m) => j * size + q \in 1..Len(m)
    BY <2>4
  <2>6. CASE j = i /\ q = 1
    <3>1. j * size + q = at
      BY <2>3, <2>6
    <3>2. at <= Len(m)
      BY <1>1
    <3>3. Chunk(m, k, j)[q] = m[at] /\ Chunk(f, k, j)[q] = f[at]
      BY <2>1, <2>2, <3>1, <3>2
    <3> QED BY <1>3, <2>6, <3>3
  <2>7. CASE ~(j = i /\ q = 1)
    <3>1. j * size + q # at
      BY <2>3, <2>7
    <3>2. j * size + q <= Len(m) => f[j * size + q] = m[j * size + q]
      BY <1>3, <2>5, <3>1
    <3> QED BY <2>1, <2>2, <2>7, <3>2
  <2> QED BY <2>6, <2>7
<1>7. ASSUME NEW j \in 0..k - 1, j # i PROVE Chunk(f, k, j) = Chunk(m, k, j)
  <2>1. /\ Chunk(m, k, j) \in Seq(Bits) /\ Len(Chunk(m, k, j)) = size
        /\ Chunk(f, k, j) \in Seq(Bits) /\ Len(Chunk(f, k, j)) = size
    BY <1>3, <1>4, ChunksAre DEF size
  <2>2. \A q \in 1..size : Chunk(f, k, j)[q] = Chunk(m, k, j)[q]
    BY <1>6, <1>7
  <2> QED BY <2>1, <2>2, SeqEqual
<1>8. /\ Chunk(f, k, i)[1] = 1 - Chunk(m, k, i)[1]
      /\ \A p \in 1..size : p # 1 => Chunk(f, k, i)[p] = Chunk(m, k, i)[p]
  BY <1>1, <1>6
<1> QED BY <1>3, <1>4, <1>7, <1>8 DEF f, at, size

(* Stripes with as many ones at a place have one parity there.              *)
LEMMA ParitySame ==
  ASSUME NEW is, NEW c, NEW d, NEW size, \A n \in is : c[n] = d[n]
  PROVE  Parity(c, is, size) = Parity(d, is, size)
<1>1. \A p : {n \in is : c[n][p] = 1} = {n \in is : d[n][p] = 1}
  OBVIOUS
<1> QED BY <1>1 DEF Parity

(* Byte p of two chunks is changed, or of none.                             *)
BothChanged(c, d, is, i, n, p) ==
  /\ \A x \in is \ {i, n} : c[x][p] = d[x][p]
  /\ c[i][p] \in Bits /\ c[n][p] \in Bits
  /\ \/ d[i][p] = c[i][p] /\ d[n][p] = c[n][p]
     \/ d[i][p] = 1 - c[i][p] /\ d[n][p] = 1 - c[n][p]

(* Changing a byte of two chunks of a stripe, or of none, leaves the        *)
(* parity.                                                                  *)
LEMMA EvenOnes ==
  ASSUME NEW is, IsFiniteSet(is), NEW c, NEW d, NEW i \in is, NEW n \in is, n # i, NEW p,
         BothChanged(c, d, is, i, n, p)
  PROVE  Cardinality(Ones(c, is, p)) % 2 = Cardinality(Ones(d, is, p)) % 2
<1> DEFINE rest == (is \ {i}) \ {n}
<1>1. IsFiniteSet(is \ {i}) /\ n \in is \ {i}
  BY FS_RemoveElement
<1>2. ASSUME NEW b, b[i][p] \in Bits, b[n][p] \in Bits
      PROVE  /\ Cardinality(Ones(b, rest, p)) \in Nat
             /\ Cardinality(Ones(b, is, p)) = Cardinality(Ones(b, rest, p)) + b[n][p] + b[i][p]
  <2>1. Cardinality(Ones(b, is, p)) = Cardinality(Ones(b, is \ {i}, p)) + b[i][p]
    BY <1>2, OneMore
  <2>2. /\ Cardinality(Ones(b, rest, p)) \in Nat
        /\ Cardinality(Ones(b, is \ {i}, p)) = Cardinality(Ones(b, rest, p)) + b[n][p]
    BY <1>1, <1>2, OneMore
  <2> QED BY <2>1, <2>2
<1>0. /\ \A x \in is \ {i, n} : c[x][p] = d[x][p]
      /\ c[i][p] \in Bits /\ c[n][p] \in Bits
      /\ \/ d[i][p] = c[i][p] /\ d[n][p] = c[n][p]
         \/ d[i][p] = 1 - c[i][p] /\ d[n][p] = 1 - c[n][p]
  BY DEF BothChanged
<1>3. d[i][p] \in Bits /\ d[n][p] \in Bits
  BY <1>0 DEF Bits
<1>4. Ones(c, rest, p) = Ones(d, rest, p)
  BY <1>0 DEF Ones
<1>5. Cardinality(Ones(c, is, p)) = Cardinality(Ones(c, rest, p)) + c[n][p] + c[i][p]
      /\ Cardinality(Ones(c, rest, p)) \in Nat
  BY <1>0, <1>2
<1>6. Cardinality(Ones(d, is, p)) = Cardinality(Ones(c, rest, p)) + d[n][p] + d[i][p]
  BY <1>2, <1>3, <1>4
<1>7. CASE d[i][p] = c[i][p] /\ d[n][p] = c[n][p]
  BY <1>5, <1>6, <1>7
<1>8. CASE d[i][p] = 1 - c[i][p] /\ d[n][p] = 1 - c[n][p]
  BY <1>0, <1>5, <1>6, <1>8, EvenSums
<1> QED BY <1>0, <1>7, <1>8

(* What a receiver got from a message that is like another in what arrived. *)
LEMMA SameGot ==
  ASSUME NEW k \in Nat \ {0, 1}, NEW r \in Nat \ {0}, NEW lost,
         NEW m \in Seq(Bits), NEW f \in Seq(Bits), ChunkSize(f, k) = ChunkSize(m, k),
         \A j \in 0..k - 1 : j \notin lost => Chunk(f, k, j) = Chunk(m, k, j),
         \A j \in 0..r - 1 : k + j \notin lost =>
           Parity(ChunksOf(f, k), Stripe(k, r, j), ChunkSize(m, k))
             = Parity(ChunksOf(m, k), Stripe(k, r, j), ChunkSize(m, k))
  PROVE  Received(Encode(f, k, r), lost) = Received(Encode(m, k, r), lost)
<1> DEFINE a == Encode(f, k, r)
           b == Encode(m, k, r)
<1>1. /\ DOMAIN a = 0..k + r - 1
      /\ \A i \in 0..k - 1 : a[i] = Chunk(f, k, i)
      /\ \A j \in 0..r - 1 : a[k + j]
           = Parity(ChunksOf(f, k), Stripe(k, r, j), ChunkSize(m, k))
  <2> DEFINE packets == ChunksOf(f, k)
  <2>1. /\ DOMAIN a = 0..k + r - 1
        /\ \A i \in 0..k - 1 : a[i] = packets[i]
        /\ \A j \in 0..r - 1 : a[k + j] = Parity(packets, Stripe(k, r, j), ChunkSize(f, k))
    <3>1. EncodedWell(f, k, r)
      BY EncodedWellIs
    <3> QED BY <3>1 DEF EncodedWell
  <2>2. \A i \in 0..k - 1 : packets[i] = Chunk(f, k, i)
    BY DEF ChunksOf
  <2> HIDE DEF a
  <2> QED BY <2>1, <2>2
<1>2. /\ DOMAIN b = 0..k + r - 1
      /\ \A i \in 0..k - 1 : b[i] = Chunk(m, k, i)
      /\ \A j \in 0..r - 1 : b[k + j]
           = Parity(ChunksOf(m, k), Stripe(k, r, j), ChunkSize(m, k))
  <2> DEFINE packets == ChunksOf(m, k)
  <2>1. /\ DOMAIN b = 0..k + r - 1
        /\ \A i \in 0..k - 1 : b[i] = packets[i]
        /\ \A j \in 0..r - 1 : b[k + j] = Parity(packets, Stripe(k, r, j), ChunkSize(m, k))
    <3>1. EncodedWell(m, k, r)
      BY EncodedWellIs
    <3> QED BY <3>1 DEF EncodedWell
  <2>2. \A i \in 0..k - 1 : packets[i] = Chunk(m, k, i)
    BY DEF ChunksOf
  <2> HIDE DEF b
  <2> QED BY <2>1, <2>2
<1> HIDE DEF a, b
<1>3. ASSUME NEW i \in 0..k + r - 1, i \notin lost PROVE a[i] = b[i]
  <2>1. CASE i \in 0..k - 1
    BY <1>1, <1>2, <1>3, <2>1
  <2>2. CASE i \notin 0..k - 1
    <3>1. PICK j \in 0..r - 1 : i = k + j
      <4>1. i - k \in 0..r - 1 /\ i = k + (i - k)
        BY <2>2
      <4> QED BY <4>1
    <3> QED BY <1>1, <1>2, <1>3, <3>1
  <2> QED BY <2>1, <2>2
<1> QED BY <1>1, <1>2, <1>3 DEF Received, a, b

(* When two chunks of a stripe are lost, or one with its parity, another    *)
(* block of the same length is received alike: giving up is right.          *)
LEMMA GivesUpInDoubt ==
  ASSUME NEW k \in Nat \ {0, 1}, NEW r \in Nat \ {0}, NEW m \in Seq(Bits), NEW lost,
         (k - 1) * ChunkSize(m, k) < Len(m),
         NEW i \in 0..k - 1, i \in lost, ~Alone(lost, k, r, i)
  PROVE  \E f \in [1..Len(m) -> Bits] \ {m} :
           Received(Encode(f, k, r), lost) = Received(Encode(m, k, r), lost)
<1> DEFINE size == ChunkSize(m, k)
           f == Flipped(m, First(m, k, i))
           stripe == Stripe(k, r, i % r)
<1>1. i % r \in 0..r - 1
  <2>1. i \in Nat
    OBVIOUS
  <2> QED BY <2>1, Residues
<1>2. /\ f \in Seq(Bits) /\ Len(f) = Len(m) /\ ChunkSize(f, k) = size
      /\ f[First(m, k, i)] = 1 - m[First(m, k, i)]
      /\ \A p \in 1..Len(m) : p # First(m, k, i) => f[p] = m[p]
      /\ \A j \in 0..k - 1 : j # i => Chunk(f, k, j) = Chunk(m, k, j)
      /\ Chunk(f, k, i)[1] = 1 - Chunk(m, k, i)[1]
      /\ \A p \in 1..size : p # 1 => Chunk(f, k, i)[p] = Chunk(m, k, i)[p]
  BY FlippedIs
<1>3. First(m, k, i) \in 1..Len(m) /\ m[First(m, k, i)] \in Bits
  <2>1. First(m, k, i) \in 1..Len(m)
    BY FirstIs
  <2> QED BY <2>1, ElementOfSeq
<1>4. m[First(m, k, i)] # 1 - m[First(m, k, i)]
  BY <1>3 DEF Bits
<1> HIDE DEF f, size
<1>5. f \in [1..Len(m) -> Bits] /\ f # m
  BY <1>2, <1>4
<1>6. ASSUME NEW j \in 0..r - 1, j # i % r, NEW g, NEW n \in 0..k - 1, n % r = i % r,
             \A x \in 0..k - 1 : x # i /\ x # n => Chunk(g, k, x) = Chunk(m, k, x)
      PROVE  Parity(ChunksOf(g, k), Stripe(k, r, j), size) = Parity(ChunksOf(m, k), Stripe(k, r, j), size)
  <2>1. \A x \in Stripe(k, r, j) : x \in 0..k - 1 /\ x # i /\ x # n
    BY <1>6 DEF Stripe
  <2>2. \A x \in Stripe(k, r, j) : ChunksOf(g, k)[x] = ChunksOf(m, k)[x]
    BY <1>6, <2>1 DEF ChunksOf
  <2> QED BY <2>2, ParitySame
<1>7. CASE k + (i % r) \in lost
  <2>1. \A j \in 0..k - 1 : j \notin lost => Chunk(f, k, j) = Chunk(m, k, j)
    BY <1>2
  <2>2. ASSUME NEW j \in 0..r - 1, k + j \notin lost
        PROVE  Parity(ChunksOf(f, k), Stripe(k, r, j), size) = Parity(ChunksOf(m, k), Stripe(k, r, j), size)
    <3>1. j # i % r
      BY <1>7, <2>2
    <3> QED BY <1>2, <1>6, <3>1
  <2>3. Received(Encode(f, k, r), lost) = Received(Encode(m, k, r), lost)
    BY <1>2, <2>1, <2>2, SameGot DEF size
  <2> QED BY <1>5, <2>3
<1>8. CASE k + (i % r) \notin lost
  <2>1. PICK n \in (0..k - 1) \cap lost : n % r = i % r /\ n # i
    BY <1>8 DEF Alone
  <2> DEFINE g == Flipped(f, First(f, k, n))
  <2>2. First(f, k, n) = First(m, k, n)
    BY <1>2 DEF First, size
  <2>3. (k - 1) * ChunkSize(f, k) < Len(f)
    BY <1>2 DEF size
  <2>4. /\ g \in Seq(Bits) /\ Len(g) = Len(f) /\ ChunkSize(g, k) = ChunkSize(f, k)
        /\ g[First(f, k, n)] = 1 - f[First(f, k, n)]
        /\ \A p \in 1..Len(f) : p # First(f, k, n) => g[p] = f[p]
        /\ \A j \in 0..k - 1 : j # n => Chunk(g, k, j) = Chunk(f, k, j)
        /\ Chunk(g, k, n)[1] = 1 - Chunk(f, k, n)[1]
        /\ \A p \in 1..ChunkSize(f, k) : p # 1 => Chunk(g, k, n)[p] = Chunk(f, k, n)[p]
    BY <1>2, <2>3, FlippedIs
  <2>5. First(m, k, n) # First(m, k, i)
    <3>1. First(m, k, n) = n * size + 1 /\ 1 \in 1..size
      BY FirstIs DEF First, size
    <3>2. \A j \in 0..k - 1 : \A q \in 1..size : j * size + q = First(m, k, i) <=> j = i /\ q = 1
      BY FirstIs DEF size
    <3> QED BY <2>1, <3>1, <3>2
  <2> HIDE DEF g
  <2>6. g \in [1..Len(m) -> Bits] /\ g # m
    <3>1. g[First(m, k, i)] = 1 - m[First(m, k, i)]
      BY <1>2, <1>3, <2>2, <2>4, <2>5
    <3> QED BY <1>2, <1>4, <2>4, <3>1
  <2>7. \A j \in 0..k - 1 : j # i /\ j # n => Chunk(g, k, j) = Chunk(m, k, j)
    BY <1>2, <2>4
  <2>8. \A j \in 0..k - 1 : j \notin lost => Chunk(g, k, j) = Chunk(m, k, j)
    BY <2>1, <2>7
  <2>9. ASSUME NEW j \in 0..r - 1, k + j \notin lost
        PROVE  Parity(ChunksOf(g, k), Stripe(k, r, j), size) = Parity(ChunksOf(m, k), Stripe(k, r, j), size)
    <3>1. CASE j # i % r
      BY <1>6, <2>1, <2>7, <3>1
    <3>2. CASE j = i % r
      <4> DEFINE c == ChunksOf(m, k)
                 d == ChunksOf(g, k)
      <4>1. IsFiniteSet(stripe) /\ i \in stripe /\ n \in stripe /\ stripe \subseteq 0..k - 1
        <5>1. IsFiniteSet(stripe)
          BY StripesAreFinite
        <5> QED BY <2>1, <5>1 DEF Stripe
      <4>2. \A x \in 0..k - 1 : c[x] = Chunk(m, k, x) /\ d[x] = Chunk(g, k, x)
        BY DEF ChunksOf
      <4>3. size \in Nat
        BY ChunkSizes DEF size
      <4>4. \A x \in 0..k - 1 : c[x] \in Seq(Bits) /\ Len(c[x]) = size
        <5> HIDE DEF c, d
        <5>1. \A x \in 0..k - 1 : Chunk(m, k, x) \in Seq(Bits) /\ Len(Chunk(m, k, x)) = size
          BY ChunksAre DEF size
        <5> QED BY <4>2, <5>1
      <4> HIDE DEF c, d, stripe
      <4>5. ASSUME NEW p, p \in 1..size
            PROVE  Cardinality(Ones(c, stripe, p)) % 2 = Cardinality(Ones(d, stripe, p)) % 2
        <5>1. \A x \in stripe \ {i, n} : c[x][p] = d[x][p]
          BY <2>7, <4>1, <4>2
        <5>2. c[i][p] \in Bits /\ c[n][p] \in Bits
          BY <2>1, <4>4, <4>5, ElementOfSeq
        <5>3. \/ d[i][p] = c[i][p] /\ d[n][p] = c[n][p]
              \/ d[i][p] = 1 - c[i][p] /\ d[n][p] = 1 - c[n][p]
          <6>1. Chunk(g, k, i) = Chunk(f, k, i) /\ Chunk(f, k, n) = Chunk(m, k, n)
            BY <1>2, <2>1, <2>4
          <6> QED BY <1>2, <2>1, <2>4, <4>2, <4>5, <6>1
        <5>4. n # i
          BY <2>1
        <5>5. BothChanged(c, d, stripe, i, n, p)
          BY <5>1, <5>2, <5>3 DEF BothChanged
        <5> QED BY <4>1, <5>4, <5>5, EvenOnes
      <4>6. Parity(c, stripe, size) = Parity(d, stripe, size)
        <5>1. /\ Parity(c, stripe, size) = [p \in 1..size |-> Cardinality(Ones(c, stripe, p)) % 2]
              /\ Parity(d, stripe, size) = [p \in 1..size |-> Cardinality(Ones(d, stripe, p)) % 2]
          BY DEF Parity, Ones
        <5>2. \A p \in 1..size :
                Cardinality(Ones(c, stripe, p)) % 2 = Cardinality(Ones(d, stripe, p)) % 2
          BY <4>5
        <5> QED BY <5>1, <5>2
      <4> QED BY <3>2, <4>6 DEF c, d, stripe
    <3> QED BY <3>1, <3>2
  <2>10. Received(Encode(g, k, r), lost) = Received(Encode(m, k, r), lost)
    <3>1. ChunkSize(g, k) = size /\ g \in Seq(Bits)
      BY <1>2, <2>4
    <3> QED BY <2>8, <2>9, <3>1, SameGot DEF size
  <2> QED BY <2>6, <2>10
<1> QED BY <1>7, <1>8

RebuiltWell(sent, packets, n, r, size, lost, i) ==
  LET got == Received(sent, lost)
  IN  /\ i \notin lost => Rebuilt(got, n, r, i) = packets[i]
      /\ i \in lost /\ ~Alone(lost, n, r, i) => Rebuilt(got, n, r, i) = Lost
      /\ i \in lost /\ Alone(lost, n, r, i) =>
           /\ Rebuilt(got, n, r, i) \in Seq(Bits)
           /\ sent[n + (i % r)]
                = Parity(AllPadded(packets, n, size), Stripe(n, r, i % r), size) =>
                Rebuilt(got, n, r, i) = Padded(packets[i], size)

(* RebuiltIs in one name.                                                   *)
LEMMA RebuiltWellIs ==
  ASSUME NEW n \in Nat, NEW r \in Nat \ {0}, NEW size \in Nat, NEW packets, NEW sent,
         Coded(sent, packets, n, r, size), NEW lost, NEW i, i \in 0..n - 1
  PROVE  RebuiltWell(sent, packets, n, r, size, lost, i)
BY RebuiltIs DEF RebuiltWell

(* The longest of the messages of a group.                                  *)
LEMMA LongestIs ==
  ASSUME NEW n \in Nat \ {0}, NEW packets \in [0..n - 1 -> Seq(Bits)],
         NEW top \in Nat, \A i \in 0..n - 1 : Len(packets[i]) <= top
  PROVE  LongestOf(packets) \in Nat /\ \A i \in 0..n - 1 : Len(packets[i]) <= LongestOf(packets)
<1> DEFINE lengths == {Len(packets[i]) : i \in 0..n - 1}
           short == {top - l : l \in lengths}
<1>1. \A l \in lengths : l \in Nat /\ l <= top
  <2>1. \A i \in 0..n - 1 : Len(packets[i]) \in Nat
    OBVIOUS
  <2> QED BY <2>1
<1>2. lengths # {}
  <2>1. 0 \in 0..n - 1
    OBVIOUS
  <2> QED BY <2>1
<1>3. LongestOf(packets) = CHOOSE l \in lengths : \A m \in lengths : m <= l
  BY DEF LongestOf
<1>4. \A i \in 0..n - 1 : Len(packets[i]) \in lengths
  OBVIOUS
<1> HIDE DEF lengths
<1>5. short \subseteq Nat /\ short # {}
  BY <1>1, <1>2
<1>6. PICK s \in short : \A t \in short : s <= t
  BY <1>5, LeastExists
<1>7. PICK l \in lengths : s = top - l
  OBVIOUS
<1>8. \A m \in lengths : m <= l
  <2> TAKE m \in lengths
  <2>1. top - m \in short /\ l \in Nat /\ m \in Nat
    BY <1>1
  <2>2. s <= top - m
    BY <1>6, <2>1
  <2> QED BY <1>7, <2>1, <2>2
<1>9. LongestOf(packets) \in lengths /\ \A m \in lengths : m <= LongestOf(packets)
  BY <1>3, <1>8
<1> QED BY <1>1, <1>4, <1>9

(* encode_group(): the messages, then the parities of the padded            *)
(* messages.                                                                *)
LEMMA GroupIs ==
  ASSUME NEW n \in Nat \ {0, 1}, NEW k \in Nat \ {0}, NEW r \in Nat,
         NEW packets \in [0..n - 1 -> Seq(Bits)],
         NEW top \in Nat, \A i \in 0..n - 1 : Len(packets[i]) <= top
  PROVE  LET sent == EncodeGroup(packets, k, r)
             size == LongestOf(packets)
         IN  /\ Coded(sent, packets, n, r, size)
             /\ size \in Nat /\ Cardinality(DOMAIN packets) = n
             /\ k # 1 => \A j \in 0..r - 1 :
                  sent[n + j] = Parity(AllPadded(packets, n, size), Stripe(n, r, j), size)
<1> DEFINE size == LongestOf(packets)
           padded == AllPadded(packets, n, size)
           Behind(j) == IF k = 1 THEN packets[0] ELSE Parity(padded, Stripe(n, r, j), size)
           sent == [i \in 0..n + r - 1 |-> IF i < n THEN packets[i] ELSE Behind(i - n)]
<1>1. Cardinality(DOMAIN packets) = n
  BY FS_Interval
<1>2. size \in Nat /\ \A i \in 0..n - 1 : Len(packets[i]) <= size
  BY LongestIs
<1>3. EncodeGroup(packets, k, r) = sent
  <2>1. \A j \in 0..r - 1 : GroupParities(packets, n, k, r)[j] = Behind(j)
    BY DEF GroupParities, AllPadded
  <2>2. EncodeGroup(packets, k, r)
          = [i \in 0..n + r - 1 |-> IF i < n THEN packets[i]
                                    ELSE GroupParities(packets, n, k, r)[i - n]]
    BY <1>1 DEF EncodeGroup
  <2>3. \A i \in 0..n + r - 1 : ~(i < n) => i - n \in 0..r - 1
    OBVIOUS
  <2> HIDE DEF Behind
  <2> QED BY <2>1, <2>2, <2>3
<1>4. \A j \in 0..r - 1 : Behind(j) \in Seq(Bits)
  <2> TAKE j \in 0..r - 1
  <2>1. packets[0] \in Seq(Bits)
    OBVIOUS
  <2>2. Parity(padded, Stripe(n, r, j), size) \in Seq(Bits)
    <3> HIDE DEF padded, size
    <3> QED BY <1>2, ParityIs
  <2> QED BY <2>1, <2>2
<1> HIDE DEF Behind
<1>5. \A j \in 0..r - 1 : sent[n + j] = Behind(j)
  <2> TAKE j \in 0..r - 1
  <2>1. n + j \in 0..n + r - 1 /\ ~(n + j < n) /\ (n + j) - n = j
    OBVIOUS
  <2> QED BY <2>1
<1>6. DOMAIN sent = 0..n + r - 1 /\ \A i \in 0..n - 1 : sent[i] = packets[i]
  OBVIOUS
<1> HIDE DEF sent
<1>7. Coded(sent, packets, n, r, size)
  BY <1>2, <1>4, <1>5, <1>6 DEF Coded
<1>8. k # 1 => \A j \in 0..r - 1 : sent[n + j] = Parity(padded, Stripe(n, r, j), size)
  BY <1>5 DEF Behind
<1> QED BY <1>1, <1>2, <1>3, <1>7, <1>8

GroupWell(packets, n, k, r, lost) ==
  LET decoded == DecodeBlock(Received(EncodeGroup(packets, k, r), lost), n, r)
      gone == lost \cap DOMAIN packets
  IN  /\ decoded # Lost =>
           \A i \in 0..n - 1 :
             /\ i \notin gone => decoded[i] = packets[i]
             /\ i \in gone /\ k > 1 => decoded[i] = Padded(packets[i], LongestOf(packets))
      /\ (/\ Cardinality(lost) <= r
          /\ \A i \in gone : /\ n + (i % r) \notin lost
                             /\ \A j \in gone \ {i} : i % r # j % r) =>
           decoded # Lost

(* decode_group() returns messages that arrived as they were, and a lost    *)
(* one padded to the longest, or not at all.                                *)
LEMMA GroupDecoded ==
  ASSUME NEW n \in Nat, n \in 2..3, NEW k \in Nat \ {0}, NEW r \in Nat, r = 0 => k = 1,
         NEW packets \in [0..n - 1 -> Seq(Bits)],
         NEW top \in Nat, \A i \in 0..n - 1 : Len(packets[i]) <= top,
         NEW lost, lost \in SUBSET (DOMAIN EncodeGroup(packets, k, r))
  PROVE  GroupWell(packets, n, k, r, lost)
<1> DEFINE size == LongestOf(packets)
           sent == EncodeGroup(packets, k, r)
           got == Received(sent, lost)
           decoded == DecodeBlock(got, n, r)
           gone == lost \cap DOMAIN packets
           chunks == [i \in 0..n - 1 |-> IF r = 0 THEN got[i] ELSE Rebuilt(got, n, r, i)]
<1>1. n \in Nat \ {0, 1} /\ n \in Nat
  OBVIOUS
<1>2. /\ Coded(sent, packets, n, r, size)
      /\ size \in Nat /\ Cardinality(DOMAIN packets) = n
      /\ k # 1 => \A j \in 0..r - 1 :
           sent[n + j] = Parity(AllPadded(packets, n, size), Stripe(n, r, j), size)
  BY <1>1, GroupIs
<1> HIDE DEF size, sent
<1>3. /\ DOMAIN sent = 0..n + r - 1
      /\ \A i \in 0..n - 1 : sent[i] = packets[i] /\ packets[i] \in Seq(Bits)
      /\ \A j \in 0..r - 1 : sent[n + j] \in Seq(Bits)
  BY <1>2 DEF Coded
<1>4. \A i \in 0..n + r - 1 : sent[i] \in Seq(Bits)
  <2> TAKE i \in 0..n + r - 1
  <2>1. CASE i < n
    <3>1. i \in 0..n - 1
      BY <1>1, <2>1
    <3> QED BY <1>3, <3>1
  <2>2. CASE ~(i < n)
    <3>1. i - n \in 0..r - 1 /\ n + (i - n) = i
      BY <1>1, <2>2
    <3> QED BY <1>3, <3>1
  <2> QED BY <2>1, <2>2
<1>5. Missing(got) = lost
  <2>1. lost \subseteq 0..n + r - 1
    BY <1>3 DEF sent
  <2>2. \A i \in 0..n + r - 1 : sent[i] # Lost
    BY <1>4, LostAssumption
  <2>3. DOMAIN got = 0..n + r - 1 /\ \A i \in 0..n + r - 1 : got[i] = Lost <=> i \in lost
    BY <1>3, <2>2 DEF Received
  <2> HIDE DEF got
  <2> QED BY <2>1, <2>3 DEF Missing
<1>6. /\ decoded = Lost \/ decoded = chunks
      /\ decoded # Lost => Cardinality(lost) <= r
      /\ Cardinality(lost) <= r /\ (\A i \in 0..n - 1 : chunks[i] # Lost) => decoded = chunks
  <2> HIDE DEF got
  <2>1. IsFiniteSet(0..n + r - 1) /\ lost \in SUBSET (0..n + r - 1)
    BY <1>1, <1>3, FS_Interval DEF sent
  <2>2. Cardinality(lost) \in Nat
    BY <2>1, FS_Subset, FS_CardinalityType
  <2> QED BY <1>5, <2>2 DEF DecodeBlock
<1>7. \A i \in 0..n - 1 : i \in gone <=> i \in lost
  OBVIOUS
<1>8. ASSUME NEW i \in 0..n - 1, r # 0
      PROVE  /\ i \notin lost => chunks[i] = packets[i]
             /\ i \in lost /\ ~Alone(lost, n, r, i) => chunks[i] = Lost
             /\ i \in lost /\ Alone(lost, n, r, i) =>
                  /\ chunks[i] \in Seq(Bits)
                  /\ k # 1 => chunks[i] = Padded(packets[i], size)
  <2>1. i % r \in 0..r - 1 /\ r \in Nat \ {0}
    <3>1. i \in Nat /\ r \in Nat \ {0}
      BY <1>8
    <3> QED BY <3>1, Residues
  <2>2. /\ i \notin lost => Rebuilt(got, n, r, i) = packets[i]
        /\ i \in lost /\ ~Alone(lost, n, r, i) => Rebuilt(got, n, r, i) = Lost
        /\ i \in lost /\ Alone(lost, n, r, i) =>
             /\ Rebuilt(got, n, r, i) \in Seq(Bits)
             /\ sent[n + (i % r)]
                  = Parity(AllPadded(packets, n, size), Stripe(n, r, i % r), size) =>
                  Rebuilt(got, n, r, i) = Padded(packets[i], size)
    <3>1. n \in Nat /\ r \in Nat \ {0} /\ size \in Nat /\ Coded(sent, packets, n, r, size)
      BY <1>1, <1>2, <2>1
    <3>2. RebuiltWell(sent, packets, n, r, size, lost, i)
      BY <3>1, RebuiltWellIs
    <3> QED BY <3>2 DEF RebuiltWell
  <2>3. chunks[i] = Rebuilt(got, n, r, i)
    BY <1>8
  <2>4. k # 1 => sent[n + (i % r)]
                  = Parity(AllPadded(packets, n, size), Stripe(n, r, i % r), size)
    BY <1>2, <2>1
  <2> HIDE DEF chunks, got
  <2> QED BY <2>2, <2>3, <2>4
<1>9. ASSUME NEW i \in 0..n - 1, r = 0
      PROVE  /\ i \notin lost => chunks[i] = packets[i]
             /\ i \in lost => chunks[i] = Lost
  <2>1. chunks[i] = got[i]
    BY <1>9
  <2>2. i \in DOMAIN sent
    BY <1>1, <1>3, <1>9
  <2> HIDE DEF chunks
  <2> QED BY <1>3, <2>1, <2>2 DEF Received
<1>10. ASSUME decoded # Lost, NEW i \in 0..n - 1
       PROVE  /\ i \notin gone => decoded[i] = packets[i]
              /\ i \in gone /\ k > 1 => decoded[i] = Padded(packets[i], size)
  <2>1. decoded = chunks /\ chunks[i] # Lost
    <3>1. decoded # Lost => \A x \in 0..n - 1 : chunks[x] # Lost
      BY DEF DecodeBlock
    <3> QED BY <1>6, <1>10, <3>1
  <2>2. k > 1 => k # 1 /\ r # 0
    OBVIOUS
  <2> HIDE DEF chunks, decoded, gone
  <2> QED BY <1>7, <1>8, <1>9, <2>1, <2>2
<1>11. ASSUME Cardinality(lost) <= r,
              \A i \in gone : /\ n + (i % r) \notin lost
                              /\ \A j \in gone \ {i} : i % r # j % r
       PROVE  decoded # Lost
  <2>1. ASSUME NEW i \in 0..n - 1 PROVE chunks[i] \in Seq(Bits)
    <3>1. CASE r = 0
      <4>1. lost = {}
        <5>1. IsFiniteSet(0..n + r - 1) /\ lost \in SUBSET (0..n + r - 1)
          BY <1>1, <1>3, FS_Interval DEF sent
        <5>2. IsFiniteSet(lost) /\ Cardinality(lost) \in Nat
          BY <5>1, FS_Subset, FS_CardinalityType
        <5>3. Cardinality(lost) = 0
          BY <1>11, <3>1, <5>2
        <5> QED BY <5>2, <5>3, FS_EmptySet
      <4> QED BY <1>3, <1>9, <3>1, <4>1
    <3>2. CASE r # 0
      <4>1. i \in lost => Alone(lost, n, r, i)
        BY <1>11, <1>7 DEF Alone
      <4> HIDE DEF chunks
      <4> QED BY <1>3, <1>8, <3>2, <4>1
    <3> QED BY <3>1, <3>2
  <2>2. \A i \in 0..n - 1 : chunks[i] # Lost
    BY <2>1, LostAssumption
  <2>3. decoded = chunks
    BY <1>6, <1>11, <2>2
  <2>4. chunks \in [0..n - 1 -> Seq(Bits)]
    BY <2>1
  <2> HIDE DEF chunks, decoded
  <2> QED BY <2>3, <2>4, CodesAssumption
<1> QED BY <1>10, <1>11 DEF size, sent, GroupWell

(* Messages are sequences of bytes.                                         *)
LEMMA MessagesAre ==
  ASSUME NEW n \in Nat, NEW m \in Messages(n)
  PROVE  m \in Seq(Bits) /\ Len(m) \in Nat /\ Len(m) <= n /\ [1..Len(m) -> Bits] \in SUBSET Seq(Bits)
<1>1. PICK l \in 0..n : m \in [1..l -> Bits]
  BY DEF Messages
<1>2. m \in Seq(Bits) /\ Len(m) = l
  BY <1>1
<1>3. \A f \in [1..l -> Bits] : f \in Seq(Bits)
  BY <1>1
<1> QED BY <1>2, <1>3

(* A block that is picked is decoded to itself, or another block would      *)
(* look alike to the receiver.                                              *)
LEMMA BlockRight ==
  ASSUME PickBlock PROVE BlocksAreDecoded'
<1>0. PICK c \in Codes, m \in Messages(MaxLength) :
        \E lost \in SUBSET DOMAIN Encode(m, c[1], c[2]) :
        case' = [of |-> "block", k |-> c[1], r |-> c[2], message |-> m, lost |-> lost]
  BY DEF PickBlock
<1>1. PICK lost \in SUBSET DOMAIN Encode(m, c[1], c[2]) :
        case' = [of |-> "block", k |-> c[1], r |-> c[2], message |-> m, lost |-> lost]
  BY <1>0
<1>2. PICK k, r : k = c[1] /\ r = c[2]
  OBVIOUS
<1>3. k \in Nat \ {0} /\ r \in Nat /\ (r = 0 => k = 1)
  BY <1>2, CodesAssumption
<1>4. m \in Seq(Bits) /\ m # Lost
  BY CodesAssumption, LostAssumption, MessagesAre
<1>5. /\ case'.of = "block" /\ case'.k = k /\ case'.r = r /\ case'.message = m /\ case'.lost = lost
      /\ lost \in SUBSET DOMAIN Encode(m, k, r)
  BY <1>1, <1>2
<1> DEFINE sent == Encode(m, k, r)
           got == Received(sent, lost)
<1>6. /\ Decode(got, k, r, Len(m)) \in {Lost, m}
      /\ DecodeBlock(got, k, r) \in {Lost, [i \in 0..k - 1 |-> sent[i]]}
  BY <1>3, <1>4, BlockDecoded
<1>7. ASSUME Cardinality(lost) <= r, (k - 1) * ChunkSize(m, k) < Len(m),
             Decode(got, k, r, Len(m)) = Lost
      PROVE  \E f \in [1..Len(m) -> Bits] \ {m} : Received(Encode(f, k, r), lost) = got
  <2>1. CASE Copied(k, r)
    <3>1. sent = [i \in 0..r |-> m] /\ lost \subseteq 0..r
      BY <1>5, <2>1 DEF Encode, EncodeCopies
    <3>2. Missing(got) = lost /\ DOMAIN got = 0..r
      BY <1>4, <3>1 DEF Received, Missing
    <3>3. IsFiniteSet(0..r) /\ Cardinality(0..r) = r + 1
      BY <1>3, FS_Interval
    <3>4. lost # 0..r
      BY <1>3, <1>7, <3>3
    <3> HIDE DEF got, sent
    <3>5. \A i \in 0..r : got[i] \in {m, Lost}
      BY <3>1 DEF got, Received
    <3>6. PICK i \in DOMAIN got : got[i] # Lost
      BY <3>2, <3>4 DEF Missing
    <3>7. got[CHOOSE n \in DOMAIN got : got[n] # Lost] # Lost
      BY <3>6
    <3>8. Decode(got, k, r, Len(m)) = got[CHOOSE n \in DOMAIN got : got[n] # Lost]
      BY <2>1, <3>2, <3>4 DEF Decode, DecodeCopies
    <3> QED BY <1>7, <3>7, <3>8
  <2>2. CASE ~Copied(k, r)
    <3>1. k \in Nat \ {0, 1} /\ r \in Nat \ {0}
      BY <1>3, <2>2 DEF Copied
    <3>2. DOMAIN sent = 0..k + r - 1
      BY <1>4, <3>1, EncodedIs
    <3>3. Cardinality(Missing(got)) <= r
      <4>1. Missing(got) \in SUBSET lost
        <5>1. \A i \in 0..k + r - 1 : sent[i] \in Seq(Bits)
          <6> TAKE i \in 0..k + r - 1
          <6>1. CASE i < k
            <7>1. i \in 0..k - 1 /\ k \in Nat \ {0} 
              BY <3>1, <6>1
            <7>2. \A j \in 0..k - 1 : Encode(m, k, r)[j] \in Seq(Bits)
              BY <1>4, <3>1, <7>1, BlockRebuilt
            <7> QED BY <7>1, <7>2
          <6>2. CASE ~(i < k)
            <7>1. i - k \in 0..r - 1 /\ k + (i - k) = i
              BY <3>1, <6>2
            <7>2. \A j \in 0..r - 1 : sent[k + j] \in Seq(Bits)
              BY <1>4, <3>1, EncodedIs
            <7> QED BY <7>1, <7>2
          <6> QED BY <6>1, <6>2
        <5> QED BY <3>2, <5>1, LostAssumption DEF Missing, Received
      <4>2. IsFiniteSet(lost) /\ Cardinality(lost) \in Nat
        <5>1. IsFiniteSet(0..k + r - 1) /\ lost \in SUBSET (0..k + r - 1)
          BY <1>5, <3>1, <3>2, FS_Interval
        <5> QED BY <5>1, FS_Subset, FS_CardinalityType
      <4>3. Cardinality(Missing(got)) \in Nat /\ Cardinality(Missing(got)) <= Cardinality(lost)
        BY <4>1, <4>2, FS_Subset, FS_CardinalityType
      <4> QED BY <1>3, <1>7, <4>2, <4>3
    <3>4. PICK i \in 0..k - 1 : Rebuilt(got, k, r, i) = Lost
      <4> DEFINE chunks == [i \in 0..k - 1 |-> Rebuilt(got, k, r, i)]
      <4>1. Decode(got, k, r, Len(m))
              = IF Cardinality(Missing(got)) > r \/ \E i \in 0..k - 1 : chunks[i] = Lost
                THEN Lost ELSE Joined(chunks, k, Len(m))
        BY <2>2 DEF Decode
      <4>2. ~(Cardinality(Missing(got)) > r)
        <5>1. IsFiniteSet(DOMAIN got)
          BY <3>1, <3>2, FS_Interval DEF Received
        <5>2. Missing(got) \in SUBSET DOMAIN got
          BY DEF Missing
        <5>3. Cardinality(Missing(got)) \in Nat
          BY <5>1, <5>2, FS_Subset, FS_CardinalityType
        <5> QED BY <3>1, <3>3, <5>3
      <4>3. (\A i \in 0..k - 1 : chunks[i] # Lost) => Joined(chunks, k, Len(m)) # Lost
        <5> SUFFICES ASSUME \A i \in 0..k - 1 : chunks[i] # Lost
                     PROVE  Joined(chunks, k, Len(m)) # Lost
          OBVIOUS
        <5>1. \A i \in 0..k - 1 : sent[i] = Chunk(m, k, i)
          BY <1>4, <3>1, EncodedIs DEF ChunksOf
        <5>2. ASSUME NEW i \in 0..k - 1 PROVE chunks[i] = Chunk(m, k, i)
          <6>1. k \in Nat \ {0} /\ r \in Nat \ {0}
            BY <3>1
          <6>2. Rebuilt(Received(Encode(m, k, r), lost), k, r, i)
                  = IF i \notin lost \/ Alone(lost, k, r, i) THEN Encode(m, k, r)[i] ELSE Lost
            BY <1>4, <6>1, BlockRebuilt
          <6>3. chunks[i] = Rebuilt(Received(Encode(m, k, r), lost), k, r, i)
            OBVIOUS
          <6> QED BY <5>1, <6>2, <6>3
        <5> HIDE DEF chunks
        <5>3. Joined(chunks, k, Len(m)) = m
          BY <1>3, <1>4, <5>2, JoinedIs
        <5> QED BY <1>4, <5>3
      <4>4. \A i \in 0..k - 1 : chunks[i] = Rebuilt(got, k, r, i)
        OBVIOUS
      <4> HIDE DEF chunks, got
      <4> QED BY <1>7, <4>1, <4>2, <4>3, <4>4
    <3>5. i \in lost /\ ~Alone(lost, k, r, i)
      <4>1. k \in Nat \ {0} /\ r \in Nat \ {0}
        BY <3>1
      <4>2. /\ Encode(m, k, r)[i] \in Seq(Bits)
            /\ Rebuilt(Received(Encode(m, k, r), lost), k, r, i)
                  = IF i \notin lost \/ Alone(lost, k, r, i) THEN Encode(m, k, r)[i] ELSE Lost
        BY <1>4, <4>1, BlockRebuilt
      <4> QED BY <3>4, <4>2, LostAssumption
    <3> QED BY <1>4, <1>7, <3>1, <3>5, GivesUpInDoubt
  <2> QED BY <2>1, <2>2
<1> QED
  <2> HIDE DEF got, sent
  <2> USE DEF BlocksAreDecoded, Decoded, Got, Packets
  <2> SUFFICES /\ Decode(got, k, r, Len(m)) \in {Lost, m}
               /\ DecodeBlock(got, k, r) \in {Lost, [i \in 0..k - 1 |-> sent[i]]}
               /\ (/\ Cardinality(lost) <= r
                   /\ (k - 1) * ChunkSize(m, k) < Len(m)
                   /\ Decode(got, k, r, Len(m)) = Lost) =>
                    \E f \in [1..Len(m) -> Bits] \ {m} : Received(Encode(f, k, r), lost) = got
    BY <1>5 DEF got, sent
  <2> QED BY <1>6, <1>7

(* A group that is picked is decoded as GroupWell says.                     *)
LEMMA GroupRight ==
  ASSUME PickGroup PROVE GroupsAreDecoded'
<1>0. PICK c \in Codes, n \in 2..3 :
        \E packets \in [0..n - 1 -> Messages(2)] :
          \E lost \in SUBSET DOMAIN EncodeGroup(packets, c[1], c[2]) :
            case' = [of |-> "group", k |-> c[1], r |-> c[2], packets |-> packets, lost |-> lost]
  BY DEF PickGroup
<1>10. PICK packets \in [0..n - 1 -> Messages(2)] :
        \E lost \in SUBSET DOMAIN EncodeGroup(packets, c[1], c[2]) :
          case' = [of |-> "group", k |-> c[1], r |-> c[2], packets |-> packets, lost |-> lost]
  BY <1>0
<1>1. PICK lost \in SUBSET DOMAIN EncodeGroup(packets, c[1], c[2]) :
        case' = [of |-> "group", k |-> c[1], r |-> c[2], packets |-> packets, lost |-> lost]
  BY <1>10
<1>2. PICK k, r : k = c[1] /\ r = c[2]
  OBVIOUS
<1>3. k \in Nat \ {0} /\ r \in Nat /\ (r = 0 => k = 1)
  BY <1>2, CodesAssumption
<1>4. packets \in [0..n - 1 -> Seq(Bits)] /\ \A i \in 0..n - 1 : Len(packets[i]) <= 2
  BY MessagesAre
<1>5. /\ case'.of = "group" /\ case'.k = k /\ case'.r = r
      /\ case'.packets = packets /\ case'.lost = lost
      /\ lost \in SUBSET DOMAIN EncodeGroup(packets, k, r)
  BY <1>1, <1>2
<1>6. n \in Nat /\ DOMAIN packets = 0..n - 1 /\ Cardinality(DOMAIN packets) = n
  BY FS_Interval
<1>7. GroupWell(packets, n, k, r, lost)
  <2>1. n \in 2..3 /\ 2 \in Nat
    OBVIOUS
  <2>2. \A i \in 0..n - 1 : Len(packets[i]) <= 2
    BY <1>4
  <2> QED BY <1>3, <1>4, <1>5, <1>6, <2>1, <2>2, GroupDecoded
<1> QED BY <1>5, <1>6, <1>7 DEF GroupsAreDecoded, GroupWell

(* Whatever is lost of a block or a group, FECEncoder and FECDecoder        *)
(* (reliability/fec.py) return what was sent or give up; a block is given   *)
(* up only when the losses leave another block possible. For every code     *)
(* and every length.                                                        *)
THEOREM BlocksSurvive == Spec => []DecodesWhatWasSent
<1>1. Init => DecodesWhatWasSent
  BY DEF Init, NoCase, DecodesWhatWasSent, BlocksAreDecoded, GroupsAreDecoded
<1>2. DecodesWhatWasSent /\ [Next]_case => DecodesWhatWasSent'
  <2>1. CASE UNCHANGED case
    BY <2>1 DEF DecodesWhatWasSent, BlocksAreDecoded, GroupsAreDecoded, Decoded, Got, Packets
  <2>2. /\ case'.of # "block" => BlocksAreDecoded'
        /\ case'.of # "group" => GroupsAreDecoded'
    BY DEF BlocksAreDecoded, GroupsAreDecoded
  <2>3. /\ PickBlock => case'.of = "block"
        /\ PickGroup => case'.of = "group"
        /\ PickTopic => case'.of = "topic"
    <3>1. PickBlock => case'.of = "block"
      BY DEF PickBlock
    <3>2. PickGroup => case'.of = "group"
      BY DEF PickGroup
    <3>3. PickTopic => case'.of = "topic"
      BY DEF PickTopic
    <3> QED BY <3>1, <3>2, <3>3
  <2>4. PickStream \/ PickBatches \/ PickStreams \/ PickPath
          => case'.of \notin {"block", "group"}
    BY DEF PickStream, PickBatches, PickStreams, PickPath
  <2>5. "block" \notin OtherKinds /\ "group" \notin OtherKinds
    BY DEF OtherKinds
  <2>6. Next => PickBlock \/ PickGroup \/ case'.of \notin {"block", "group"}
    BY OtherPicks, <2>3, <2>4, <2>5
  <2>7. PickBlock => DecodesWhatWasSent'
    BY BlockRight, <2>2, <2>3 DEF DecodesWhatWasSent
  <2>8. PickGroup => DecodesWhatWasSent'
    BY GroupRight, <2>2, <2>3 DEF DecodesWhatWasSent
  <2>9. case'.of \notin {"block", "group"} => DecodesWhatWasSent'
    BY <2>2 DEF DecodesWhatWasSent
  <2> QED BY <2>1, <2>6, <2>7, <2>8, <2>9
<1> QED BY <1>1, <1>2, PTL DEF Spec

-----------------------------------------------------------------------------
Iterates(f, a, g, n) == f[0] = a /\ \A i \in 1..n : f[i] = g[<<i, f[i - 1]>>]

(* A function can be defined by what each of its values makes of the one    *)
(* before.                                                                  *)
LEMMA IterationExists ==
  ASSUME NEW D, NEW a, a \in D, NEW k \in Nat, NEW g, g \in [(1..k) \X D -> D]
  PROVE  \E f \in [0..k -> D] : Iterates(f, a, g, k)
<1> USE DEF Iterates
<1> DEFINE Good(f, n) == f[0] = a /\ \A i \in 1..n : f[i] = g[<<i, f[i - 1]>>]
           T == {n \in Nat : n <= k => \E f \in [0..n -> D] : Good(f, n)}
<1>1. 0 \in T
  <2>1. [i \in 0..0 |-> a] \in [0..0 -> D] /\ Good([i \in 0..0 |-> a], 0)
    OBVIOUS
  <2> QED BY <2>1
<1>2. ASSUME NEW n \in T \cap Nat PROVE n + 1 \in T
  <2> SUFFICES ASSUME n + 1 <= k PROVE \E f \in [0..n + 1 -> D] : Good(f, n + 1)
    OBVIOUS
  <2>1. PICK f \in [0..n -> D] : Good(f, n)
    BY <1>2
  <2> DEFINE h == [i \in 0..n + 1 |-> IF i = n + 1 THEN g[<<n + 1, f[n]>>] ELSE f[i]]
  <2>2. f[n] \in D /\ <<n + 1, f[n]>> \in (1..k) \X D
    OBVIOUS
  <2>3. g[<<n + 1, f[n]>>] \in D
    BY <2>2
  <2>4. h \in [0..n + 1 -> D]
    BY <2>3
  <2>5. h[0] = a
    BY <2>1
  <2>6. ASSUME NEW i \in 1..n + 1 PROVE h[i] = g[<<i, h[i - 1]>>]
    <3>1. CASE i = n + 1
      <4>1. h[n + 1] = g[<<n + 1, f[n]>>] /\ h[n] = f[n]
        OBVIOUS
      <4>2. i - 1 = n
        BY <3>1
      <4> QED BY <3>1, <4>1, <4>2
    <3>2. CASE i # n + 1
      <4>1. i \in 1..n /\ h[i] = f[i] /\ h[i - 1] = f[i - 1]
        BY <3>2
      <4> QED BY <2>1, <4>1
    <3> QED BY <3>1, <3>2
  <2> QED BY <2>4, <2>5, <2>6
<1>3. Nat \subseteq T
  <2> HIDE DEF T
  <2> QED BY <1>1, <1>2, AllNaturals
<1>4. k \in T
  BY <1>3
<1> QED BY <1>4

(* Division by a base, and what is left is smaller.                         *)
LEMMA Divided ==
  ASSUME NEW x \in Nat, NEW b \in Nat \ {0, 1}
  PROVE  /\ x \div b \in Nat /\ x % b \in 0..b - 1
         /\ x = (x \div b) * b + (x % b)
         /\ x > 0 => x \div b < x
<1> DEFINE q == x \div b
<1>1. q \in Nat /\ b * q <= x /\ x < b * q + b
  OBVIOUS
<1>2. x % b \in 0..b - 1
  OBVIOUS
<1>3. x % b = x - b * q
  OBVIOUS
<1> HIDE DEF q
<1>4. b * q >= 2 * q /\ b * q = q * b
  BY <1>1
<1>5. PICK y \in Nat : y = b * q
  BY <1>1
<1>6. x > 0 => q < x
  BY <1>1, <1>4, <1>5
<1>7. x = q * b + (x % b)
  <2>1. x % b = x - y /\ q * b = y
    BY <1>3, <1>4, <1>5
  <2> QED BY <1>5, <2>1
<1> QED BY <1>1, <1>2, <1>6, <1>7 DEF q

(* Shifted, once and for all.                                               *)
RestOf(f, n, k) == f = [i \in 0..k |-> IF i = 0 THEN n ELSE f[i - 1] \div Base]

(* Taking digits off a number, one after the other.                         *)
LEMMA RestExists ==
  ASSUME NEW n \in Nat, NEW k \in Nat
  PROVE  \E f \in [0..k -> Nat] : RestOf(f, n, k)
<1> DEFINE g == [p \in (1..k) \X Nat |-> p[2] \div Base]
<1>1. Base \in Nat \ {0, 1}
  BY FramingAssumption
<1>2. \A x \in Nat : x \div Base \in Nat
  BY <1>1
<1>3. g \in [(1..k) \X Nat -> Nat]
  BY <1>2
<1>4. PICK f \in [0..k -> Nat] : Iterates(f, n, g, k)
  <2> HIDE DEF g
  <2> QED BY <1>3, IterationExists
<1>5. f[0] = n /\ \A i \in 1..k : f[i] = f[i - 1] \div Base
  <2>1. ASSUME NEW i \in 1..k PROVE f[i] = f[i - 1] \div Base
    <3>1. f[i] = g[<<i, f[i - 1]>>]
      BY <1>4 DEF Iterates
    <3>2. f[i - 1] \in Nat
      OBVIOUS
    <3> QED BY <3>1, <3>2
  <2> QED BY <1>4, <2>1 DEF Iterates
<1>6. RestOf(f, n, k)
  BY <1>4, <1>5 DEF RestOf
<1> QED BY <1>6

(* However many are taken off, the first of them are the same.              *)
LEMMA RestUnique ==
  ASSUME NEW n \in Nat, NEW k \in Nat, NEW j \in 0..k, NEW f, NEW h,
         RestOf(f, n, k), RestOf(h, n, j)
  PROVE  f[j] = h[j]
<1> DEFINE T == {i \in Nat : i <= j => f[i] = h[i]}
<1>1. 0 \in T
  BY DEF RestOf
<1>2. ASSUME NEW i \in T \cap Nat PROVE i + 1 \in T
  <2> SUFFICES ASSUME i + 1 <= j PROVE f[i + 1] = h[i + 1]
    OBVIOUS
  <2>1. i + 1 \in 0..k /\ i + 1 \in 0..j /\ i + 1 # 0 /\ i + 1 - 1 = i
    OBVIOUS
  <2>2. f[i + 1] = f[i] \div Base
    BY <2>1 DEF RestOf
  <2>3. h[i + 1] = h[i] \div Base
    BY <2>1 DEF RestOf
  <2> QED BY <1>2, <2>2, <2>3
<1>3. Nat \subseteq T
  <2> HIDE DEF T
  <2> QED BY <1>1, <1>2, AllNaturals
<1> QED BY <1>3

(* Shifted is what such a function gives.                                   *)
LEMMA ShiftedIs ==
  ASSUME NEW n \in Nat, NEW k \in Nat
  PROVE  \E f \in [0..k -> Nat] : RestOf(f, n, k) /\ \A j \in 0..k : Shifted(n, j) = f[j]
<1>1. PICK f \in [0..k -> Nat] : RestOf(f, n, k)
  BY RestExists
<1>2. ASSUME NEW j \in 0..k PROVE Shifted(n, j) = f[j]
  <2> DEFINE h == CHOOSE r : RestOf(r, n, j)
  <2>0. j \in Nat
    OBVIOUS
  <2>1. \E r : RestOf(r, n, j)
    BY <2>0, RestExists
  <2>2. RestOf(h, n, j)
    BY <2>1
  <2>3. Shifted(n, j) = h[j]
    BY DEF Shifted, RestOf
  <2>4. f[j] = h[j]
    <3> HIDE DEF h
    <3> QED BY <1>1, <2>2, RestUnique
  <2> QED BY <2>3, <2>4
<1> QED BY <1>1, <1>2

(* One digit more is one division more.                                     *)
LEMMA ShiftedNext ==
  ASSUME NEW n \in Nat, NEW k \in Nat
  PROVE  /\ Shifted(n, k) \in Nat
         /\ Shifted(n, 0) = n
         /\ Shifted(n, k + 1) = Shifted(n, k) \div Base
<1>1. PICK f \in [0..k + 1 -> Nat] :
        RestOf(f, n, k + 1) /\ \A j \in 0..k + 1 : Shifted(n, j) = f[j]
  <2>1. k + 1 \in Nat
    OBVIOUS
  <2> QED BY <2>1, ShiftedIs
<1>2. f[k + 1] = f[k] \div Base /\ f[0] = n
  BY <1>1 DEF RestOf
<1> QED BY <1>1, <1>2

(* A number loses a digit each time, until nothing is left.                 *)
LEMMA ShiftedShrinks ==
  ASSUME NEW n \in Nat, NEW k \in Nat
  PROVE  Shifted(n, k) = 0 \/ Shifted(n, k) + k <= n
<1>1. Base \in Nat /\ Base >= 2
  BY FramingAssumption
<1>2. \A x \in Nat : x \div Base \in Nat /\ (x > 0 => x \div Base < x)
  BY <1>1, Divided
<1> DEFINE T == {i \in Nat : Shifted(n, i) = 0 \/ Shifted(n, i) + i <= n}
<1>3. 0 \in T
  BY ShiftedNext
<1>4. ASSUME NEW i \in T \cap Nat PROVE i + 1 \in T
  <2>1. Shifted(n, i) \in Nat /\ Shifted(n, i + 1) = Shifted(n, i) \div Base
    BY ShiftedNext
  <2>2. Shifted(n, i + 1) \in Nat /\ (Shifted(n, i) > 0 => Shifted(n, i + 1) < Shifted(n, i))
    BY <1>2, <2>1
  <2>3. 0 \div Base = 0
    BY <1>1
  <2>4. CASE Shifted(n, i) = 0
    BY <2>1, <2>3, <2>4
  <2>5. CASE Shifted(n, i) # 0
    <3>1. Shifted(n, i) + i <= n
      BY <1>4, <2>5
    <3> QED BY <2>1, <2>2, <2>5, <3>1
  <2> QED BY <2>4, <2>5
<1>5. Nat \subseteq T
  <2> HIDE DEF T
  <2> QED BY <1>3, <1>4, AllNaturals
<1> QED BY <1>5

-----------------------------------------------------------------------------
(* What a digit adds.                                                       *)
LEMMA DigitAdds ==
  ASSUME NEW v \in Nat, NEW m \in Nat, NEW q \in Nat, NEW r \in Nat, NEW b \in Nat
  PROVE  (v + r * m) + q * (m * b) = v + (q * b + r) * m
<1>1. q * (m * b) = (q * b) * m
  OBVIOUS
<1>2. (q * b + r) * m = (q * b) * m + r * m
  OBVIOUS
<1>3. r * m \in Nat /\ (q * b) * m \in Nat
  OBVIOUS
<1> QED BY <1>1, <1>2, <1>3

ReadOf(f, digits) ==
  f = [i \in 0..Len(digits) |->
         IF i = 0 THEN [value |-> 0, multiplier |-> 1]
         ELSE LET last == f[i - 1]
              IN  [value |-> last.value + (digits[i] % Base) * last.multiplier,
                   multiplier |-> last.multiplier * Base]]

DigitsOf(digits, n) ==
  /\ digits \in Seq(Nat)
  /\ \A i \in 1..Len(digits) : digits[i] % Base = Shifted(n, i - 1) % Base
  /\ Shifted(n, Len(digits)) = 0

(* Reading digits, one after the other.                                     *)
LEMMA ReadExists ==
  ASSUME NEW digits \in Seq(Nat)
  PROVE  \E f \in [0..Len(digits) -> [value : Nat, multiplier : Nat]] : ReadOf(f, digits)
<1> DEFINE D == [value : Nat, multiplier : Nat]
           k == Len(digits)
           a == [value |-> 0, multiplier |-> 1]
           g == [p \in (1..k) \X D |->
                   [value |-> p[2].value + (digits[p[1]] % Base) * p[2].multiplier,
                    multiplier |-> p[2].multiplier * Base]]
<1>1. Base \in Nat \ {0, 1} /\ k \in Nat /\ a \in D
  BY FramingAssumption
<1>2. ASSUME NEW i \in 1..k, NEW x \in D
      PROVE  [value |-> x.value + (digits[i] % Base) * x.multiplier,
              multiplier |-> x.multiplier * Base] \in D
  <2>1. digits[i] \in Nat
    BY <1>2
  <2>2. digits[i] % Base \in Nat
    BY <2>1, <1>1, Divided
  <2>3. PICK d \in Nat : d = digits[i] % Base
    BY <2>2
  <2>4. x.value \in Nat /\ x.multiplier \in Nat
    OBVIOUS
  <2>5. PICK v \in Nat, m \in Nat, b \in Nat : v = x.value /\ m = x.multiplier /\ b = Base
    BY <2>4, <1>1
  <2>6. d * m \in Nat /\ m * b \in Nat
    OBVIOUS
  <2>7. v + d * m \in Nat
    BY <2>6
  <2> QED BY <2>3, <2>5, <2>6, <2>7
<1>3. g \in [(1..k) \X D -> D]
  <2> HIDE DEF D, k
  <2>1. ASSUME NEW p \in (1..k) \X D PROVE g[p] \in D
    <3>1. p[1] \in 1..k /\ p[2] \in D
      OBVIOUS
    <3> QED BY <3>1, <1>2
  <2> QED BY <2>1
<1>4. PICK f \in [0..k -> D] : Iterates(f, a, g, k)
  <2> HIDE DEF g, D, a, k
  <2> QED BY <1>1, <1>3, IterationExists
<1>5. ASSUME NEW i \in 1..k
      PROVE  f[i] = [value |-> f[i - 1].value + (digits[i] % Base) * f[i - 1].multiplier,
                     multiplier |-> f[i - 1].multiplier * Base]
  <2>1. f[i] = g[<<i, f[i - 1]>>]
    BY <1>4 DEF Iterates
  <2>2. <<i, f[i - 1]>> \in (1..k) \X D
    <3> HIDE DEF D, k
    <3>1. i - 1 \in 0..k
      BY <1>1
    <3> QED BY <3>1
  <2> QED BY <2>1, <2>2
<1>6. f[0] = a
  BY <1>4 DEF Iterates
<1>7. ReadOf(f, digits)
  <2> DEFINE h == [i \in 0..Len(digits) |->
         IF i = 0 THEN [value |-> 0, multiplier |-> 1]
         ELSE LET last == f[i - 1]
              IN  [value |-> last.value + (digits[i] % Base) * last.multiplier,
                   multiplier |-> last.multiplier * Base]]
  <2>1. ASSUME NEW i \in 0..Len(digits) PROVE f[i] = h[i]
    <3>1. CASE i = 0
      BY <3>1, <1>6
    <3>2. CASE i # 0
      <4>1. i \in 1..k
        BY <1>1, <3>2
      <4> QED BY <4>1, <3>2, <1>5
    <3> QED BY <3>1, <3>2
  <2>2. f = [i \in 0..Len(digits) |-> f[i]]
    BY <1>4
  <2>3. f = h
    <3> HIDE DEF D, a
    <3> QED BY <2>1, <2>2
  <2> QED BY <2>3 DEF ReadOf
<1> QED BY <1>7

(* After i digits the value is n without its other digits: with them,       *)
(* times the multiplier, it is n again.                                     *)
LEMMA ReadingInv ==
  ASSUME NEW n \in Nat, NEW digits, DigitsOf(digits, n),
         NEW f, f \in [0..Len(digits) -> [value : Nat, multiplier : Nat]], ReadOf(f, digits)
  PROVE  f[Len(digits)].value = n
<1> DEFINE k == Len(digits)
           T == {i \in Nat : i <= k => f[i].value + Shifted(n, i) * f[i].multiplier = n}
<1>1. Base \in Nat \ {0, 1} /\ k \in Nat
  BY FramingAssumption DEF DigitsOf
<1>2. 0 \in T
  <2>1. f[0] = [value |-> 0, multiplier |-> 1]
    BY <1>1 DEF ReadOf
  <2> QED BY <2>1, ShiftedNext
<1>3. ASSUME NEW i \in T \cap Nat PROVE i + 1 \in T
  <2> SUFFICES ASSUME i + 1 <= k
               PROVE  f[i + 1].value + Shifted(n, i + 1) * f[i + 1].multiplier = n
    OBVIOUS
  <2> DEFINE v == f[i].value
             m == f[i].multiplier
             s == Shifted(n, i)
             r == s % Base
             q == s \div Base
  <2>1. f[i + 1] = [value |-> v + (digits[i + 1] % Base) * m, multiplier |-> m * Base]
    <3>1. i + 1 \in 0..Len(digits) /\ i + 1 # 0 /\ i + 1 - 1 = i
      BY <1>1
    <3> QED BY <3>1 DEF ReadOf
  <2>2. digits[i + 1] % Base = r
    <3>1. i + 1 \in 1..Len(digits) /\ i + 1 - 1 = i
      BY <1>1
    <3> QED BY <3>1 DEF DigitsOf
  <2>3. s \in Nat /\ Shifted(n, i + 1) = q
    BY ShiftedNext
  <2>4. q \in Nat /\ r \in Nat /\ s = q * Base + r
    <3> HIDE DEF s
    <3>1. /\ s \div Base \in Nat /\ s % Base \in 0..Base - 1
          /\ s = (s \div Base) * Base + (s % Base)
      BY <2>3, <1>1, Divided
    <3> QED BY <3>1, <1>1
  <2>5. v \in Nat /\ m \in Nat
    BY <1>1
  <2>6. v + s * m = n
    BY <1>1, <1>3
  <2>7. f[i + 1].value = v + r * m /\ f[i + 1].multiplier = m * Base
    BY <2>1, <2>2
  <2> HIDE DEF v, m, s, r, q
  <2>8. (v + r * m) + q * (m * Base) = v + (q * Base + r) * m
    BY <2>4, <2>5, <1>1, DigitAdds
  <2> QED BY <2>3, <2>4, <2>6, <2>7, <2>8
<1>4. Nat \subseteq T
  <2> HIDE DEF T
  <2> QED BY <1>2, <1>3, AllNaturals
<1>5. f[k].value + Shifted(n, k) * f[k].multiplier = n
  BY <1>1, <1>4
<1>6. f[k].value \in Nat /\ f[k].multiplier \in Nat
  BY <1>1
<1>7. Shifted(n, k) = 0
  BY DEF DigitsOf
<1> QED BY <1>5, <1>6, <1>7

(* decode_remaining_length() reads from the digits of n, the least first,   *)
(* marked or not, n.                                                        *)
LEMMA RemainingIs ==
  ASSUME NEW n \in Nat, NEW digits, DigitsOf(digits, n)
  PROVE  Remaining(digits) = n
<1> DEFINE f == CHOOSE r : ReadOf(r, digits)
<1>1. digits \in Seq(Nat)
  BY DEF DigitsOf
<1>2. PICK h \in [0..Len(digits) -> [value : Nat, multiplier : Nat]] : ReadOf(h, digits)
  BY <1>1, ReadExists
<1>3. ReadOf(f, digits)
  BY <1>2
<1>4. Remaining(digits) = f[Len(digits)].value
  BY DEF Remaining, ReadOf
<1> HIDE DEF f
<1>5. \A i \in Nat : i <= Len(digits) => f[i] = h[i]
  <2> DEFINE T == {i \in Nat : i <= Len(digits) => f[i] = h[i]}
  <2>0. Len(digits) \in Nat
    BY <1>1
  <2>1. 0 \in T
    BY <1>2, <1>3, <2>0 DEF ReadOf
  <2>2. ASSUME NEW i \in T \cap Nat PROVE i + 1 \in T
    <3> SUFFICES ASSUME i + 1 <= Len(digits) PROVE f[i + 1] = h[i + 1]
      OBVIOUS
    <3>1. i + 1 \in 0..Len(digits) /\ i + 1 # 0 /\ i + 1 - 1 = i
      BY <2>0
    <3>2. f[i] = h[i]
      BY <2>0, <2>2
    <3>3. f[i + 1] = [value |-> f[i].value + (digits[i + 1] % Base) * f[i].multiplier,
                      multiplier |-> f[i].multiplier * Base]
      BY <1>3, <3>1 DEF ReadOf
    <3>4. h[i + 1] = [value |-> h[i].value + (digits[i + 1] % Base) * h[i].multiplier,
                      multiplier |-> h[i].multiplier * Base]
      BY <1>2, <3>1 DEF ReadOf
    <3> QED BY <3>2, <3>3, <3>4
  <2>3. Nat \subseteq T
    <3> HIDE DEF T
    <3> QED BY <2>1, <2>2, AllNaturals
  <2> QED BY <2>3
<1>6. f[Len(digits)] = h[Len(digits)]
  BY <1>1, <1>5
<1>7. h[Len(digits)].value = n
  BY <1>2, ReadingInv
<1> QED BY <1>4, <1>6, <1>7

-----------------------------------------------------------------------------
(* A digit below the base is read as itself, marked or not.                 *)
LEMMA DigitsLeft ==
  ASSUME NEW b \in Nat \ {0, 1}, NEW x \in 0..b - 1
  PROVE  x % b = x /\ (x + b) % b = x
<1>1. \A y \in Nat, q \in Nat, z \in 0..b - 1 : y = q * b + z => y % b = z
  <2> TAKE y \in Nat, q \in Nat, z \in 0..b - 1
  <2> HAVE y = q * b + z
  <2> DEFINE p == y \div b
             r == y % b
  <2>1. p \in Nat /\ r \in 0..b - 1 /\ y = p * b + r
    BY Divided
  <2> HIDE DEF p, r
  <2>2. q * b + z = p * b + r
    BY <2>1
  <2>3. p = q
    <3>1. CASE p > q
      <4>1. PICK d \in Nat : p = q + 1 + d
        <5>1. p - q - 1 \in Nat
          BY <2>1, <3>1
        <5> QED BY <5>1, <2>1
      <4>2. p * b = q * b + b + d * b
        BY <4>1, <2>1
      <4>3. d * b \in Nat /\ q * b \in Nat
        OBVIOUS
      <4> QED BY <2>1, <2>2, <4>2, <4>3
    <3>2. CASE p < q
      <4>1. PICK d \in Nat : q = p + 1 + d
        <5>1. q - p - 1 \in Nat
          BY <2>1, <3>2
        <5> QED BY <5>1, <2>1
      <4>2. q * b = p * b + b + d * b
        BY <4>1, <2>1
      <4>3. d * b \in Nat /\ p * b \in Nat
        BY <2>1
      <4> QED BY <2>1, <2>2, <4>2, <4>3
    <3> QED BY <3>1, <3>2, <2>1
  <2>4. q * b \in Nat
    OBVIOUS
  <2>5. r = z
    BY <2>1, <2>2, <2>3, <2>4
  <2> QED BY <2>5 DEF r
<1>2. x = 0 * b + x /\ x + b = 1 * b + x
  OBVIOUS
<1> QED BY <1>1, <1>2

(* A length of fixed size has the digits of the length, the greatest        *)
(* first, as long as it has enough of them.                                 *)
LEMMA FixedIs ==
  ASSUME NEW n \in 0..MaxBody
  PROVE  /\ FixedLength(n) \in Seq(Nat)
         /\ Len(FixedLength(n)) = Digits
         /\ DigitsOf(Reverse(FixedLength(n)), n)
<1> DEFINE f == FixedLength(n)
<1>1. Base \in Nat \ {0, 1} /\ Digits \in Nat /\ n \in Nat /\ Shifted(n, Digits) = 0
  BY FramingAssumption, BodiesAssumption
<1>2. \A k \in Nat : Shifted(n, k) % Base \in 0..Base - 1
  BY <1>1, ShiftedNext, Divided
<1>3. f = [i \in 1..Digits |-> Shifted(n, Digits - i) % Base]
  BY DEF FixedLength
<1>4. \A i \in 1..Digits : Shifted(n, Digits - i) % Base \in Nat
  <2> TAKE i \in 1..Digits
  <2>1. Digits - i \in Nat
    BY <1>1
  <2> QED BY <2>1, <1>2, <1>1
<1> HIDE DEF f
<1>5. f \in [1..Digits -> Nat]
  BY <1>3, <1>4
<1>6. f \in Seq(Nat) /\ Len(f) = Digits
  BY <1>5, <1>1
<1> DEFINE back == Reverse(f)
<1>7. back = [i \in 1..Digits |-> f[(Digits - i) + 1]]
  BY <1>6 DEF Reverse
<1>8. ASSUME NEW i \in 1..Digits PROVE back[i] = Shifted(n, i - 1) % Base
  <2>1. (Digits - i) + 1 \in 1..Digits /\ Digits - ((Digits - i) + 1) = i - 1
    BY <1>1
  <2> QED BY <2>1, <1>3, <1>7
<1> HIDE DEF back
<1>9. back \in Seq(Nat) /\ Len(back) = Digits
  <2>1. \A i \in 1..Digits : (Digits - i) + 1 \in 1..Digits
    BY <1>1
  <2>2. back \in [1..Digits -> Nat]
    BY <2>1, <1>5, <1>7
  <2> QED BY <2>2, <1>1
<1>10. ASSUME NEW i \in 1..Digits PROVE back[i] % Base = Shifted(n, i - 1) % Base
  <2>1. i - 1 \in Nat
    BY <1>1
  <2> QED BY <2>1, <1>1, <1>2, <1>8, DigitsLeft
<1> QED BY <1>1, <1>6, <1>9, <1>10 DEF DigitsOf, f, back

Marked(e) ==
  /\ e \in Seq(Nat) /\ Len(e) > 0
  /\ \A i \in 1..Len(e) - 1 : e[i] >= Base
  /\ e[Len(e)] < Base

(* encode_remaining_length() gives the digits of n, all but the last        *)
(* marked.                                                                  *)
LEMMA EncodedLengthIs ==
  ASSUME NEW n \in Nat
  PROVE  Marked(EncodeRemainingLength(n)) /\ DigitsOf(EncodeRemainingLength(n), n)
<1> DEFINE enough == {d \in 1..n + 1 : Shifted(n, d) = 0}
           last == Min(enough)
           e == EncodeRemainingLength(n)
<1>1. Base \in Nat \ {0, 1}
  BY FramingAssumption
<1>2. last \in 1..n + 1 /\ Shifted(n, last) = 0
  <2>1. n + 1 \in Nat
    OBVIOUS
  <2>2. Shifted(n, n + 1) = 0
    BY <2>1, ShiftedShrinks, ShiftedNext
  <2>3. n + 1 \in enough
    BY <2>2
  <2>4. enough \subseteq Nat /\ enough # {}
    BY <2>3
  <2> HIDE DEF enough
  <2>5. \E m \in enough : \A d \in enough : m <= d
    BY <2>4, LeastExists
  <2>6. last \in enough
    BY <2>5 DEF Min
  <2> QED BY <2>6 DEF enough
<1>3. e = [i \in 1..last |-> (Shifted(n, i - 1) % Base) + (IF i < last THEN Base ELSE 0)]
  BY DEF EncodeRemainingLength
<1> HIDE DEF last, e, enough
<1>4. \A i \in 1..last : Shifted(n, i - 1) % Base \in 0..Base - 1
  <2> TAKE i \in 1..last
  <2>1. i - 1 \in Nat
    BY <1>2
  <2>2. Shifted(n, i - 1) \in Nat
    BY <2>1, ShiftedNext
  <2> QED BY <2>2, <1>1, Divided
<1>5. \A i \in 1..last : (Shifted(n, i - 1) % Base) + (IF i < last THEN Base ELSE 0) \in Nat
  BY <1>4, <1>1
<1>6. e \in [1..last -> Nat]
  BY <1>3, <1>5
<1>7. e \in Seq(Nat) /\ Len(e) = last
  BY <1>2, <1>6
<1>8. \A i \in 1..last : e[i] % Base = Shifted(n, i - 1) % Base
  <2> TAKE i \in 1..last
  <2> DEFINE r == Shifted(n, i - 1) % Base
  <2>1. e[i] = r + (IF i < last THEN Base ELSE 0)
    BY <1>3
  <2>2. r \in 0..Base - 1
    BY <1>4
  <2> HIDE DEF r
  <2>3. r % Base = r /\ (r + Base) % Base = r
    BY <2>2, <1>1, DigitsLeft
  <2>4. e[i] = r \/ e[i] = r + Base
    BY <1>1, <2>1, <2>2
  <2>5. e[i] % Base = r
    BY <2>3, <2>4
  <2> QED BY <2>5 DEF r
<1>9. \A i \in 1..last : IF i < last THEN e[i] >= Base ELSE e[i] < Base
  <2> TAKE i \in 1..last
  <2> DEFINE r == Shifted(n, i - 1) % Base
  <2>1. e[i] = r + (IF i < last THEN Base ELSE 0)
    BY <1>3
  <2>2. r \in 0..Base - 1
    BY <1>4
  <2> HIDE DEF r
  <2> QED BY <1>1, <2>1, <2>2
<1>10. Marked(e)
  <2>1. last \in 1..last /\ \A i \in 1..last - 1 : i \in 1..last /\ i < last
    BY <1>2
  <2> QED BY <2>1, <1>2, <1>7, <1>9 DEF Marked
<1>11. DigitsOf(e, n)
  BY <1>2, <1>7, <1>8 DEF DigitsOf
<1> QED BY <1>10, <1>11 DEF e

-----------------------------------------------------------------------------
(* What lies between two places of a sequence of bytes.                     *)
Part(s, a, b) == SubSeq(s, a + 1, b)

(* What lies between two places of a sequence of bytes.                     *)
LEMMA PartIs ==
  ASSUME NEW s \in Seq(Nat), NEW a \in 0..Len(s), NEW b \in 0..Len(s)
  PROVE  /\ Part(s, a, b) \in Seq(Nat)
         /\ Len(Part(s, a, b)) = IF a <= b THEN b - a ELSE 0
         /\ \A i \in 1..b - a : Part(s, a, b)[i] = s[a + i]
<1>1. Len(s) \in Nat /\ a + 1 \in Int /\ b \in Int
  OBVIOUS
<1>2. \A i \in a + 1..b : s[i] \in Nat
  <2> TAKE i \in a + 1..b
  <2>1. i \in 1..Len(s)
    BY <1>1
  <2> QED BY <2>1
<1> DEFINE p == SubSeq(s, a + 1, b)
<1>3. /\ p \in Seq(Nat)
      /\ Len(p) = IF a + 1 <= b THEN b - (a + 1) + 1 ELSE 0
      /\ \A i \in 1..b - (a + 1) + 1 : p[i] = s[a + 1 + i - 1]
  <2> DEFINE m == a + 1
  <2>1. m \in Int /\ b \in Int /\ \A i \in m..b : s[i] \in Nat
    BY <1>1, <1>2
  <2> HIDE DEF m
  <2>2. /\ SubSeq(s, m, b) \in Seq(Nat)
        /\ Len(SubSeq(s, m, b)) = IF m <= b THEN b - m + 1 ELSE 0
        /\ \A i \in 1..b - m + 1 : SubSeq(s, m, b)[i] = s[m + i - 1]
    BY <2>1, SubSeqProperties
  <2> QED BY <2>2 DEF m
<1> HIDE DEF p
<1>4. Len(p) = IF a <= b THEN b - a ELSE 0
  BY <1>1, <1>3
<1>5. \A i \in 1..b - a : p[i] = s[a + i]
  <2> TAKE i \in 1..b - a
  <2>1. i \in 1..b - (a + 1) + 1 /\ a + 1 + i - 1 = a + i
    BY <1>1
  <2> QED BY <2>1, <1>3
<1> QED BY <1>3, <1>4, <1>5 DEF Part, p

(* Nothing lies before a place.                                             *)
LEMMA NoPart ==
  ASSUME NEW s \in Seq(Nat), NEW a \in 0..Len(s), NEW b \in 0..Len(s), b <= a
  PROVE  Part(s, a, b) = << >>
<1>1. Part(s, a, b) \in Seq(Nat) /\ Len(Part(s, a, b)) = 0
  BY PartIs
<1> HIDE DEF Part
<1> QED BY <1>1

(* A part of a part is a part.                                              *)
LEMMA PartOfPart ==
  ASSUME NEW s \in Seq(Nat), NEW a \in 0..Len(s), NEW b \in a..Len(s),
         NEW c \in 0..b - a, NEW d \in 0..b - a
  PROVE  Part(Part(s, a, b), c, d) = Part(s, a + c, a + d)
<1> DEFINE p == Part(s, a, b)
           x == Part(p, c, d)
           y == Part(s, a + c, a + d)
<1>1. b \in 0..Len(s) /\ a + c \in 0..Len(s) /\ a + d \in 0..Len(s) /\ a \in Nat
  OBVIOUS
<1>2. p \in Seq(Nat) /\ Len(p) = b - a /\ \A i \in 1..b - a : p[i] = s[a + i]
  BY <1>1, PartIs
<1> HIDE DEF p
<1>3. /\ x \in Seq(Nat) /\ Len(x) = IF c <= d THEN d - c ELSE 0
      /\ \A i \in 1..d - c : x[i] = p[c + i]
  <2>1. c \in 0..Len(p) /\ d \in 0..Len(p)
    BY <1>1, <1>2
  <2> QED BY <2>1, <1>2, PartIs
<1>4. /\ y \in Seq(Nat) /\ Len(y) = IF a + c <= a + d THEN (a + d) - (a + c) ELSE 0
      /\ \A i \in 1..(a + d) - (a + c) : y[i] = s[(a + c) + i]
  <2> DEFINE e == a + c
             g == a + d
  <2>1. e \in 0..Len(s) /\ g \in 0..Len(s)
    BY <1>1
  <2> HIDE DEF e, g
  <2>2. /\ Part(s, e, g) \in Seq(Nat) /\ Len(Part(s, e, g)) = IF e <= g THEN g - e ELSE 0
        /\ \A i \in 1..g - e : Part(s, e, g)[i] = s[e + i]
    BY <2>1, PartIs
  <2> QED BY <2>2 DEF e, g
<1> HIDE DEF x, y
<1>5. Len(x) = Len(y)
  BY <1>1, <1>3, <1>4
<1>6. \A i \in 1..Len(x) : x[i] = y[i]
  <2> TAKE i \in 1..Len(x)
  <2>1. i \in 1..d - c /\ i \in 1..(a + d) - (a + c) /\ c + i \in 1..b - a
    BY <1>1, <1>3
  <2>2. x[i] = s[a + (c + i)] /\ y[i] = s[(a + c) + i]
    BY <2>1, <1>2, <1>3, <1>4
  <2>3. a + (c + i) = (a + c) + i
    BY <1>1, <2>1
  <2> QED BY <2>2, <2>3
<1>7. x = y
  BY <1>3, <1>4, <1>5, <1>6, SeqEqual
<1> QED BY <1>7 DEF x, y, p

(* Parts that lie end to end make one.                                      *)
LEMMA PartsJoin ==
  ASSUME NEW s \in Seq(Nat), NEW a \in 0..Len(s), NEW b \in a..Len(s), NEW c \in b..Len(s)
  PROVE  Part(s, a, b) \o Part(s, b, c) = Part(s, a, c)
<1>1. a + 1 \in 1..Len(s) + 1 /\ b \in a + 1 - 1..Len(s) /\ c \in b..Len(s)
  OBVIOUS
<1> DEFINE m == a + 1
<1>2. m \in 1..Len(s) + 1 /\ b \in m - 1..Len(s)
  BY <1>1
<1> HIDE DEF m
<1>3. SubSeq(s, m, b) \o SubSeq(s, b + 1, c) = SubSeq(s, m, c)
  BY <1>2, ConcatAdjacentSubSeq
<1> QED BY <1>3 DEF m, Part

(* A word lies in a stream at a place.                                      *)
Lies(s, a, w) ==
  /\ a \in Nat /\ w \in Seq(Nat) /\ a + Len(w) <= Len(s)
  /\ \A i \in 1..Len(w) : s[a + i] = w[i]

(* What lies somewhere is the part from there to its end.                   *)
LEMMA LiesInPart ==
  ASSUME NEW s \in Seq(Nat), NEW a, NEW w, Lies(s, a, w), NEW b, b = a + Len(w)
  PROVE  a \in 0..Len(s) /\ b \in a..Len(s) /\ Part(s, a, b) = w
<1>1. a \in 0..Len(s) /\ b \in 0..Len(s) /\ a <= b /\ w \in Seq(Nat) /\ b - a = Len(w)
  BY DEF Lies
<1> DEFINE p == Part(s, a, b)
<1>2. p \in Seq(Nat) /\ Len(p) = b - a /\ \A i \in 1..b - a : p[i] = s[a + i]
  BY <1>1, PartIs
<1> HIDE DEF p
<1>3. \A i \in 1..Len(w) : p[i] = w[i]
  BY <1>1, <1>2 DEF Lies
<1>4. p = w
  BY <1>1, <1>2, <1>3, SeqEqual
<1> QED BY <1>1, <1>4 DEF p

(* Of what lies somewhere, the second half lies behind the first.           *)
LEMMA LiesSplit ==
  ASSUME NEW s \in Seq(Nat), NEW a, NEW v \in Seq(Nat), NEW w \in Seq(Nat), Lies(s, a, v \o w)
  PROVE  Lies(s, a, v) /\ Lies(s, a + Len(v), w)
<1>1. /\ v \o w \in Seq(Nat)
      /\ Len(v \o w) = Len(v) + Len(w)
      /\ \A i \in 1..Len(v) + Len(w) : (v \o w)[i] = IF i <= Len(v) THEN v[i] ELSE w[i - Len(v)]
  BY ConcatProperties
<1>2. a \in Nat /\ Len(v) \in Nat /\ Len(w) \in Nat /\ a + Len(v) + Len(w) <= Len(s)
  BY <1>1 DEF Lies
<1>3. \A i \in 1..Len(v) + Len(w) : s[a + i] = (v \o w)[i]
  BY <1>1 DEF Lies
<1>4. \A i \in 1..Len(v) : s[a + i] = v[i]
  <2> TAKE i \in 1..Len(v)
  <2>1. i \in 1..Len(v) + Len(w) /\ i <= Len(v)
    BY <1>2
  <2> QED BY <2>1, <1>1, <1>3
<1>5. \A i \in 1..Len(w) : s[(a + Len(v)) + i] = w[i]
  <2> TAKE i \in 1..Len(w)
  <2> DEFINE j == Len(v) + i
  <2>1. j \in 1..Len(v) + Len(w) /\ ~(j <= Len(v)) /\ j - Len(v) = i /\ a + j = (a + Len(v)) + i
    BY <1>2
  <2> HIDE DEF j
  <2>2. s[a + j] = w[j - Len(v)]
    BY <2>1, <1>1, <1>3
  <2> QED BY <2>1, <2>2
<1>6. Len(s) \in Nat
  OBVIOUS
<1> QED BY <1>2, <1>4, <1>5, <1>6 DEF Lies

(* Of two sequences, the second lies behind the first.                      *)
LEMMA LiesWhole ==
  ASSUME NEW v \in Seq(Nat), NEW w \in Seq(Nat)
  PROVE  Lies(v \o w, 0, v) /\ Lies(v \o w, Len(v), w)
<1>1. v \o w \in Seq(Nat)
  BY ConcatProperties
<1>2. Lies(v \o w, 0, v \o w)
  <2> DEFINE u == v \o w
  <2>1. u \in Seq(Nat)
    BY <1>1
  <2> HIDE DEF u
  <2>2. Lies(u, 0, u)
    BY <2>1 DEF Lies
  <2> QED BY <2>2 DEF u
<1>3. Lies(v \o w, 0, v) /\ Lies(v \o w, 0 + Len(v), w)
  BY <1>1, <1>2, LiesSplit, Zenon
<1>4. 0 + Len(v) = Len(v)
  OBVIOUS
<1> QED BY <1>3, <1>4

-----------------------------------------------------------------------------
(* What a loop does with a buffer whose header takes h bytes.               *)
CutFor(body, h, a, z, d) ==
  IF d < z THEN Incomplete ELSE [from |-> h + 1, to |-> z - a]

(* The least of a set of numbers.                                           *)
LEMMA LeastIs ==
  ASSUME NEW T, T \subseteq Nat, NEW m \in T, \A x \in T : m <= x
  PROVE  Min(T) = m
<1>1. \A y \in T : (\A x \in T : y <= x) => y = m
  <2> TAKE y \in T
  <2> HAVE \A x \in T : y <= x
  <2>1. y <= m /\ m <= y /\ y \in Nat /\ m \in Nat
    OBVIOUS
  <2> QED BY <2>1
<1>2. Min(T) \in T /\ \A x \in T : Min(T) <= x
  BY DEF Min
<1> QED BY <1>1, <1>2

(* The end of the length of a packet is not seen before it has arrived,     *)
(* and then in its place.                                                   *)
LEMMA HeaderSeen ==
  ASSUME NEW s \in Seq(Nat), NEW a, NEW e, Marked(e), Lies(s, a + 1, e), a \in Nat,
         NEW d \in a..Len(s)
  PROVE  LET rest == Part(s, a, d)
             ends == {k \in 2..Len(rest) : rest[k] < Base}
         IN  /\ d < a + 1 + Len(e) => ends = {}
             /\ d >= a + 1 + Len(e) => /\ ends # {} /\ Min(ends) = 1 + Len(e)
                                       /\ SubSeq(rest, 2, 1 + Len(e)) = e
<1> DEFINE rest == Part(s, a, d)
           ends == {k \in 2..Len(rest) : rest[k] < Base}
<1>1. a \in 0..Len(s) /\ d \in 0..Len(s) /\ a <= d /\ Len(s) \in Nat /\ Base \in Nat
  BY FramingAssumption
<1>2. /\ rest \in Seq(Nat) /\ Len(rest) = d - a
      /\ \A i \in 1..d - a : rest[i] = s[a + i]
  BY <1>1, PartIs
<1>3. e \in Seq(Nat) /\ Len(e) \in Nat /\ Len(e) > 0
  BY DEF Marked
<1> HIDE DEF rest
<1>4. ASSUME NEW k \in 2..Len(rest), k <= 1 + Len(e) PROVE rest[k] = e[k - 1] /\ k - 1 \in 1..Len(e)
  <2> DEFINE i == k - 1
  <2>1. i \in 1..Len(e) /\ k \in 1..d - a /\ (a + 1) + i = a + k
    BY <1>1, <1>2, <1>3, <1>4
  <2> HIDE DEF i
  <2>2. s[(a + 1) + i] = e[i]
    BY <2>1 DEF Lies
  <2>3. rest[k] = s[a + k]
    BY <2>1, <1>2
  <2> QED BY <2>1, <2>2, <2>3 DEF i
<1>5. ASSUME NEW k \in 2..Len(rest), k < 1 + Len(e) PROVE ~(rest[k] < Base)
  <2>1. rest[k] = e[k - 1] /\ k - 1 \in 1..Len(e) - 1
    BY <1>3, <1>4, <1>5
  <2>2. e[k - 1] >= Base /\ e[k - 1] \in Nat
    BY <2>1, <1>3 DEF Marked
  <2> QED BY <2>1, <2>2, <1>1
<1>6. ASSUME d < a + 1 + Len(e) PROVE ends = {}
  <2>1. \A k \in 2..Len(rest) : k < 1 + Len(e)
    BY <1>1, <1>2, <1>3, <1>6
  <2> QED BY <2>1, <1>5
<1>7. ASSUME d >= a + 1 + Len(e)
      PROVE  ends # {} /\ Min(ends) = 1 + Len(e) /\ SubSeq(rest, 2, 1 + Len(e)) = e
  <2> DEFINE m == 1 + Len(e)
  <2>1. m \in 2..Len(rest)
    BY <1>1, <1>2, <1>3, <1>7
  <2>2. rest[m] = e[m - 1] /\ m - 1 = Len(e)
    BY <2>1, <1>3, <1>4
  <2>3. rest[m] < Base
    BY <2>2 DEF Marked
  <2>4. m \in ends
    BY <2>1, <2>3
  <2>5. \A k \in ends : m <= k
    <3> TAKE k \in ends
    <3>1. k \in 2..Len(rest) /\ rest[k] < Base
      OBVIOUS
    <3>2. ~(k < 1 + Len(e))
      BY <3>1, <1>5
    <3> QED BY <3>1, <3>2, <1>3
  <2>6. ends \subseteq Nat
    OBVIOUS
  <2>7. Min(ends) = m
    <3> HIDE DEF ends, m
    <3> QED BY <2>4, <2>5, <2>6, LeastIs
  <2>8. SubSeq(rest, 2, m) = e
    <3> DEFINE p == Part(rest, 1, m)
    <3>1. /\ p \in Seq(Nat) /\ Len(p) = m - 1 /\ \A i \in 1..m - 1 : p[i] = rest[1 + i]
      <4>1. 1 \in 0..Len(rest) /\ m \in 0..Len(rest) /\ 1 <= m
        BY <2>1
      <4> HIDE DEF m
      <4> QED BY <4>1, <1>2, PartIs
    <3>2. \A i \in 1..Len(e) : p[i] = e[i]
      <4> TAKE i \in 1..Len(e)
      <4>1. 1 + i \in 2..Len(rest) /\ 1 + i <= 1 + Len(e) /\ (1 + i) - 1 = i /\ i \in 1..m - 1
        BY <2>1, <1>3
      <4>2. rest[1 + i] = e[(1 + i) - 1]
        BY <4>1, <1>4
      <4> QED BY <4>1, <4>2, <3>1
    <3>3. p = e
      <4>1. Len(p) = Len(e)
        BY <3>1, <1>3
      <4> HIDE DEF p
      <4> QED BY <3>1, <3>2, <4>1, <1>3, SeqEqual
    <3> QED BY <3>3 DEF Part
  <2> QED BY <2>4, <2>7, <2>8
<1> QED BY <1>6, <1>7 DEF rest

MqttCutAt(s, a, body, d) ==
  MqttCut(Part(s, a, d)) =
    CutFor(body, Len(MqttPacket(body)) - Len(body), a, a + Len(MqttPacket(body)), d)

(* Once a packet has arrived, handle_client cuts its body out; before,      *)
(* nothing.                                                                 *)
LEMMA MqttCutIs ==
  ASSUME NEW s \in Seq(Nat), NEW a, NEW body \in Seq(Nat), Lies(s, a, MqttPacket(body)),
         NEW d \in a..Len(s)
  PROVE  MqttCutAt(s, a, body, d)
<1> USE DEF MqttCutAt
<1> DEFINE e == EncodeRemainingLength(Len(body))
           head == <<Type>> \o e
           rest == Part(s, a, d)
           ends == {k \in 2..Len(rest) : rest[k] < Base}
           n == Len(body)
<1>1. n \in Nat /\ Len(s) \in Nat
  OBVIOUS
<1>2. Marked(e) /\ DigitsOf(e, n)
  BY <1>1, EncodedLengthIs
<1>3. Type \in Nat /\ <<Type>> \in Seq(Nat) /\ Len(<<Type>>) = 1
  BY DEF Type
<1>4. e \in Seq(Nat) /\ Len(e) \in Nat
  BY <1>2 DEF Marked
<1> HIDE DEF e
<1>5. head \in Seq(Nat) /\ Len(head) = 1 + Len(e)
  BY <1>3, <1>4, ConcatProperties
<1>6. MqttPacket(body) = head \o body
  BY DEF MqttPacket, e
<1>7. Len(MqttPacket(body)) = Len(head) + n
  <2> HIDE DEF head
  <2> QED BY <1>5, <1>6, ConcatProperties
<1>8. a \in Nat /\ Lies(s, a, head)
  <2> HIDE DEF head
  <2>1. Lies(s, a, head)
    BY <1>5, <1>6, LiesSplit
  <2> QED BY <2>1 DEF Lies
<1>9. Lies(s, a + 1, e)
  <2>1. Lies(s, a + Len(<<Type>>), e)
    BY <1>3, <1>4, <1>8, LiesSplit, Zenon
  <2> QED BY <2>1, <1>3
<1>10. /\ d < a + 1 + Len(e) => ends = {}
       /\ d >= a + 1 + Len(e) => /\ ends # {} /\ Min(ends) = 1 + Len(e)
                                 /\ SubSeq(rest, 2, 1 + Len(e)) = e
  BY <1>2, <1>8, <1>9, HeaderSeen
<1>11. Len(rest) = d - a
  <2>1. a \in 0..Len(s) /\ d \in 0..Len(s) /\ a <= d
    BY <1>1, <1>8
  <2> QED BY <2>1, PartIs
<1>12. MqttCut(rest) = IF ends = {} THEN Incomplete
                       ELSE Cut(rest, Min(ends), Remaining(SubSeq(rest, 2, Min(ends))))
  BY DEF MqttCut
<1>13. Remaining(e) = n
  BY <1>1, <1>2, RemainingIs
<1> HIDE DEF rest, ends, head, n
<1>14. CASE d < a + 1 + Len(e)
  <2>1. MqttCut(rest) = Incomplete
    BY <1>10, <1>12, <1>14
  <2>2. d < a + Len(MqttPacket(body))
    BY <1>1, <1>4, <1>5, <1>7, <1>8, <1>14
  <2> QED BY <2>1, <2>2 DEF CutFor, rest
<1>15. CASE d >= a + 1 + Len(e)
  <2>1. MqttCut(rest) = Cut(rest, 1 + Len(e), n)
    BY <1>10, <1>12, <1>13, <1>15
  <2>2. MqttCut(rest) = IF d - a < (1 + Len(e)) + n THEN Incomplete
                        ELSE [from |-> (1 + Len(e)) + 1, to |-> (1 + Len(e)) + n]
    BY <2>1, <1>11 DEF Cut
  <2>3. /\ d - a < (1 + Len(e)) + n <=> d < a + Len(MqttPacket(body))
        /\ 1 + Len(e) = Len(MqttPacket(body)) - n
        /\ (1 + Len(e)) + n = (a + Len(MqttPacket(body))) - a
    BY <1>1, <1>4, <1>5, <1>7, <1>8
  <2>4. CASE d - a < (1 + Len(e)) + n
    BY <2>2, <2>3, <2>4 DEF CutFor, rest
  <2>5. CASE ~(d - a < (1 + Len(e)) + n)
    BY <2>2, <2>3, <2>5 DEF CutFor, rest, n
  <2> QED BY <2>4, <2>5
<1>16. d \in Nat
  BY <1>1, <1>8
<1> QED BY <1>4, <1>8, <1>14, <1>15, <1>16

-----------------------------------------------------------------------------
QuicCutAt(s, a, body, d) ==
  QuicCut(Part(s, a, d)) =
    CutFor(body, Len(QuicMessage(body)) - Len(body), a, a + Len(QuicMessage(body)), d)

(* Once a frame has arrived, _handle_stream_data cuts its body out;         *)
(* before, nothing.                                                         *)
LEMMA QuicCutIs ==
  ASSUME NEW s \in Seq(Nat), NEW a, NEW body \in Seq(Nat), Len(body) <= MaxBody,
         Lies(s, a, QuicMessage(body)), NEW d \in a..Len(s)
  PROVE  QuicCutAt(s, a, body, d)
<1> USE DEF QuicCutAt
<1> DEFINE n == Len(body)
           head == FixedLength(n)
           rest == Part(s, a, d)
<1>1. n \in 0..MaxBody /\ n \in Nat /\ Len(s) \in Nat /\ Digits \in Nat /\ Digits > 0
  BY BodiesAssumption, FramingAssumption
<1>2. head \in Seq(Nat) /\ Len(head) = Digits /\ DigitsOf(Reverse(head), n)
  BY <1>1, FixedIs
<1>3. Remaining(Reverse(head)) = n
  BY <1>1, <1>2, RemainingIs
<1> HIDE DEF head
<1>4. QuicMessage(body) = head \o body
  BY DEF QuicMessage, head
<1>5. Len(QuicMessage(body)) = Digits + n
  BY <1>2, <1>4, ConcatProperties
<1>6. a \in Nat /\ Lies(s, a, head)
  <2>1. Lies(s, a, head)
    BY <1>2, <1>4, LiesSplit
  <2> QED BY <2>1 DEF Lies
<1>7. a \in 0..Len(s) /\ d \in 0..Len(s) /\ a <= d
  BY <1>1, <1>6
<1>8. rest \in Seq(Nat) /\ Len(rest) = d - a
  BY <1>7, PartIs
<1>9. ASSUME Digits <= d - a PROVE SubSeq(rest, 1, Digits) = head
  <2>1. Part(s, a, a + Digits) = head
    BY <1>2, <1>6, LiesInPart
  <2>2. Part(rest, 0, Digits) = Part(s, a + 0, a + Digits)
    <3>1. 0 \in 0..d - a /\ Digits \in 0..d - a /\ d \in a..Len(s)
      BY <1>1, <1>7, <1>9
    <3> QED BY <3>1, <1>7, PartOfPart
  <2>3. a + 0 = a /\ 0 + 1 = 1
    BY <1>6
  <2> QED BY <2>1, <2>2, <2>3 DEF Part
<1>10. QuicCut(rest) = IF Len(rest) < Digits THEN Incomplete
                       ELSE Cut(rest, Digits, Remaining(Reverse(SubSeq(rest, 1, Digits))))
  BY DEF QuicCut
<1> HIDE DEF rest, n
<1>11. CASE d - a < Digits
  <2>1. QuicCut(rest) = Incomplete
    BY <1>8, <1>10, <1>11
  <2>2. d < a + Len(QuicMessage(body))
    BY <1>1, <1>5, <1>6, <1>7, <1>11
  <2> QED BY <2>1, <2>2 DEF CutFor, rest
<1>12. CASE ~(d - a < Digits)
  <2>0. Digits <= d - a /\ ~(Len(rest) < Digits)
    BY <1>1, <1>6, <1>7, <1>8, <1>12
  <2>1. QuicCut(rest) = Cut(rest, Digits, n)
    <3>1. SubSeq(rest, 1, Digits) = head
      BY <2>0, <1>9
    <3> QED BY <2>0, <3>1, <1>3, <1>10
  <2>2. QuicCut(rest) = IF d - a < Digits + n THEN Incomplete
                        ELSE [from |-> Digits + 1, to |-> Digits + n]
    BY <2>1, <1>8 DEF Cut
  <2>3. /\ d - a < Digits + n <=> d < a + Len(QuicMessage(body))
        /\ Digits = Len(QuicMessage(body)) - n
        /\ Digits + n = (a + Len(QuicMessage(body))) - a
    BY <1>1, <1>5, <1>6, <1>7
  <2>4. CASE d - a < Digits + n
    BY <2>2, <2>3, <2>4 DEF CutFor, rest
  <2>5. CASE ~(d - a < Digits + n)
    BY <2>2, <2>3, <2>5 DEF CutFor, rest, n
  <2> QED BY <2>4, <2>5
<1> QED BY <1>11, <1>12

(* Whatever the digits, a length is a natural number.                       *)
LEMMA RemainingIsNatural ==
  ASSUME NEW digits \in Seq(Nat)
  PROVE  Remaining(digits) \in Nat
<1> DEFINE f == CHOOSE r : ReadOf(r, digits)
<1>1. PICK h \in [0..Len(digits) -> [value : Nat, multiplier : Nat]] : ReadOf(h, digits)
  BY ReadExists
<1>2. ReadOf(f, digits)
  BY <1>1
<1>3. Remaining(digits) = f[Len(digits)].value
  BY DEF Remaining, ReadOf
<1> HIDE DEF f
<1>4. Len(digits) \in Nat
  OBVIOUS
<1> DEFINE T == {i \in Nat : i <= Len(digits) => f[i] \in [value : Nat, multiplier : Nat]}
<1>5. 0 \in T
  BY <1>2, <1>4 DEF ReadOf
<1>6. ASSUME NEW i \in T \cap Nat PROVE i + 1 \in T
  <2> SUFFICES ASSUME i + 1 <= Len(digits) PROVE f[i + 1] \in [value : Nat, multiplier : Nat]
    OBVIOUS
  <2>1. i + 1 \in 0..Len(digits) /\ i + 1 # 0 /\ i + 1 - 1 = i /\ i + 1 \in 1..Len(digits)
    BY <1>4
  <2>2. f[i + 1] = [value |-> f[i].value + (digits[i + 1] % Base) * f[i].multiplier,
                    multiplier |-> f[i].multiplier * Base]
    BY <1>2, <2>1 DEF ReadOf
  <2>3. f[i] \in [value : Nat, multiplier : Nat]
    BY <1>4, <1>6
  <2>4. Base \in Nat \ {0, 1} /\ digits[i + 1] \in Nat
    BY <2>1, FramingAssumption
  <2>5. digits[i + 1] % Base \in Nat
    <3>1. \A x \in Nat : x % Base \in Nat
      BY <2>4, Divided
    <3> QED BY <3>1, <2>4
  <2>6. PICK d \in Nat, v \in Nat, m \in Nat, b \in Nat :
          d = digits[i + 1] % Base /\ v = f[i].value /\ m = f[i].multiplier /\ b = Base
    BY <2>3, <2>4, <2>5
  <2>7. v + d * m \in Nat /\ m * b \in Nat
    <3> DEFINE e == d * m
    <3>1. e \in Nat /\ m * b \in Nat
      OBVIOUS
    <3> HIDE DEF e
    <3>2. v + e \in Nat
      BY <3>1
    <3> QED BY <3>1, <3>2 DEF e
  <2> QED BY <2>2, <2>6, <2>7
<1>7. Nat \subseteq T
  <2> HIDE DEF T
  <2> QED BY <1>5, <1>6, AllNaturals
<1>8. f[Len(digits)] \in [value : Nat, multiplier : Nat]
  BY <1>4, <1>7
<1> QED BY <1>3, <1>8

Advances(cut, rest) == cut = Incomplete \/ cut.to \in 1..Len(rest)

(* A cut ends inside the buffer, behind its beginning.                      *)
LEMMA CutAdvances ==
  ASSUME NEW rest \in Seq(Nat), NEW h \in Nat \ {0}, NEW n \in Nat
  PROVE  Advances(Cut(rest, h, n), rest)
BY DEF Advances, Cut

(* So each turn of the loop of handle_client goes on in the buffer.         *)
LEMMA MqttAdvances ==
  ASSUME NEW rest \in Seq(Nat) PROVE Advances(MqttCut(rest), rest)
<1> DEFINE ends == {k \in 2..Len(rest) : rest[k] < Base}
           m == Min(ends)
<1>1. MqttCut(rest) = IF ends = {} THEN Incomplete
                      ELSE Cut(rest, m, Remaining(SubSeq(rest, 2, m)))
  BY DEF MqttCut
<1>2. CASE ends = {}
  BY <1>1, <1>2 DEF Advances
<1>3. CASE ends # {}
  <2>1. ends \subseteq Nat
    OBVIOUS
  <2>2. m \in ends
    <3> HIDE DEF ends
    <3>1. \E x \in ends : \A y \in ends : x <= y
      BY <2>1, <1>3, LeastExists
    <3> QED BY <3>1 DEF Min
  <2>3. m \in 2..Len(rest) /\ Len(rest) \in Nat
    BY <2>2
  <2> HIDE DEF m
  <2>4. SubSeq(rest, 2, m) \in Seq(Nat)
    <3>1. 1 \in 0..Len(rest) /\ m \in 0..Len(rest)
      BY <2>3
    <3>2. Part(rest, 1, m) \in Seq(Nat)
      BY <3>1, PartIs
    <3> QED BY <3>2 DEF Part
  <2>5. Remaining(SubSeq(rest, 2, m)) \in Nat
    BY <2>4, RemainingIsNatural
  <2>6. m \in Nat \ {0}
    BY <2>3
  <2>7. Advances(Cut(rest, m, Remaining(SubSeq(rest, 2, m))), rest)
    BY <2>5, <2>6, CutAdvances
  <2> QED BY <1>1, <1>3, <2>7
<1> QED BY <1>2, <1>3

(* And that of _handle_stream_data.                                         *)
LEMMA QuicAdvances ==
  ASSUME NEW rest \in Seq(Nat) PROVE Advances(QuicCut(rest), rest)
<1>1. Digits \in Nat \ {0} /\ Len(rest) \in Nat
  BY BodiesAssumption, FramingAssumption
<1>2. CASE Len(rest) < Digits
  BY <1>2 DEF QuicCut, Advances
<1>3. CASE ~(Len(rest) < Digits)
  <2> DEFINE p == SubSeq(rest, 1, Digits)
  <2>1. p \in Seq(Nat)
    <3>1. 0 \in 0..Len(rest) /\ Digits \in 0..Len(rest) /\ 0 + 1 = 1
      BY <1>1, <1>3
    <3>2. Part(rest, 0, Digits) \in Seq(Nat)
      BY <3>1, PartIs
    <3> QED BY <3>1, <3>2 DEF Part
  <2> HIDE DEF p
  <2>2. Reverse(p) \in Seq(Nat)
    <3>1. Len(p) \in Nat /\ \A i \in 1..Len(p) : (Len(p) - i) + 1 \in 1..Len(p)
      BY <2>1
    <3>2. Reverse(p) = [i \in 1..Len(p) |-> p[(Len(p) - i) + 1]]
      BY <2>1 DEF Reverse
    <3>3. Reverse(p) \in [1..Len(p) -> Nat]
      BY <3>1, <3>2, <2>1
    <3> QED BY <3>1, <3>3
  <2>3. Remaining(Reverse(p)) \in Nat
    BY <2>2, RemainingIsNatural
  <2>4. QuicCut(rest) = Cut(rest, Digits, Remaining(Reverse(p)))
    BY <1>3 DEF QuicCut, p
  <2> QED BY <1>1, <2>3, <2>4, CutAdvances
<1> QED BY <1>2, <1>3

-----------------------------------------------------------------------------
LoopOf(f, buffer, cuts) ==
  f = [n \in 0..Len(buffer) |->
         IF cuts[n] = Incomplete
         THEN [out |-> << >>, rest |-> Part(buffer, n, Len(buffer))]
         ELSE [out |-> <<SubSeq(Part(buffer, n, Len(buffer)),
                                cuts[n].from, cuts[n].to)>>
                         \o f[n + cuts[n].to].out,
               rest |-> f[n + cuts[n].to].rest]]

AllAdvance(buffer, cuts) ==
  \A n \in 0..Len(buffer) : Advances(cuts[n], Part(buffer, n, Len(buffer)))

(* A loop of which each turn goes on in the buffer comes to an end.         *)
LEMMA LoopExists ==
  ASSUME NEW buffer \in Seq(Nat), NEW cuts, AllAdvance(buffer, cuts)
  PROVE  \E f : LoopOf(f, buffer, cuts)
<1> DEFINE len == Len(buffer)
           rest(n) == Part(buffer, n, Len(buffer))
           OneTurn(f, n) == IF cuts[n] = Incomplete THEN [out |-> << >>, rest |-> rest(n)]
                            ELSE [out |-> <<SubSeq(rest(n), cuts[n].from, cuts[n].to)>>
                                            \o f[n + cuts[n].to].out,
                                  rest |-> f[n + cuts[n].to].rest]
           Good(f, k) == /\ DOMAIN f = 0..len /\ f = [n \in 0..len |-> f[n]]
                         /\ \A n \in len - k..len : n >= 0 => f[n] = OneTurn(f, n)
           T == {k \in Nat : \E f : Good(f, k)}
<1>1. len \in Nat
  OBVIOUS
<1>2. ASSUME NEW n \in 0..len PROVE cuts[n] = Incomplete \/ cuts[n].to \in 1..len - n
  <2>1. Len(rest(n)) = len - n
    <3>1. n \in 0..Len(buffer) /\ len \in 0..Len(buffer) /\ n <= len
      BY <1>1
    <3> QED BY <3>1, PartIs
  <2>2. Advances(cuts[n], rest(n))
    BY DEF AllAdvance
  <2> HIDE DEF rest
  <2> QED BY <2>1, <2>2 DEF Advances
<1> HIDE DEF len
<1>3. ASSUME NEW f, NEW k \in Nat, Good(f, k) PROVE \E g : Good(g, k + 1)
  <2> DEFINE m == len - (k + 1)
             g == [n \in 0..len |-> IF n = m THEN OneTurn(f, m) ELSE f[n]]
  <2>1. CASE m < 0
    <3>1. \A n \in m..len : n >= 0 => n \in len - k..len
      BY <1>1, <2>1
    <3>2. \A n \in m..len : n >= 0 => f[n] = OneTurn(f, n)
      BY <3>1, <1>3
    <3> HIDE DEF OneTurn
    <3>3. Good(f, k + 1)
      BY <3>2, <1>3
    <3> QED BY <3>3
  <2>2. CASE m >= 0
    <3>1. m \in 0..len /\ m \in Int
      BY <1>1, <2>2
    <3>2. \A n \in m + 1..len : g[n] = f[n]
      <4> TAKE n \in m + 1..len
      <4>1. n \in 0..len /\ n # m
        BY <1>1, <3>1
      <4> HIDE DEF OneTurn, m
      <4> QED BY <4>1
    <3>3. ASSUME NEW n \in 0..len, n >= m PROVE OneTurn(g, n) = OneTurn(f, n)
      <4>1. CASE cuts[n] = Incomplete
        BY <4>1
      <4>2. CASE cuts[n] # Incomplete
        <5>1. cuts[n].to \in 1..len - n
          BY <1>2, <4>2
        <5>2. n + cuts[n].to \in m + 1..len
          BY <5>1, <1>1, <3>1, <3>3
        <5>3. g[n + cuts[n].to] = f[n + cuts[n].to]
          BY <3>2, <5>2
        <5> HIDE DEF g, m
        <5> QED BY <5>3
      <4> QED BY <4>1, <4>2
    <3>4. ASSUME NEW n \in m..len PROVE g[n] = OneTurn(g, n)
      <4>1. n \in 0..len /\ n >= m
        BY <1>1, <3>1
      <4>2. CASE n = m
        <5>1. g[m] = OneTurn(f, m)
          <6> HIDE DEF OneTurn, m
          <6> QED BY <3>1
        <5> HIDE DEF OneTurn, g
        <5> QED BY <4>1, <4>2, <5>1, <3>3
      <4>3. CASE n # m
        <5>1. n \in m + 1..len /\ n \in len - k..len /\ n >= 0
          BY <1>1, <3>1, <4>1, <4>3
        <5>2. f[n] = OneTurn(f, n)
          BY <5>1, <1>3
        <5> HIDE DEF OneTurn, g
        <5> QED BY <4>1, <5>1, <5>2, <3>2, <3>3
      <4> QED BY <4>2, <4>3
    <3>5. DOMAIN g = 0..len /\ g = [n \in 0..len |-> g[n]]
      <4> HIDE DEF OneTurn, m
      <4> QED OBVIOUS
    <3> HIDE DEF OneTurn, g
    <3>6. Good(g, k + 1)
      BY <3>4, <3>5
    <3> QED BY <3>6
  <2>3. m < 0 \/ m >= 0
    BY <1>1
  <2> HIDE DEF Good, m
  <2> QED BY <2>1, <2>2, <2>3
<1>4. 0 \in T
  <2> DEFINE f == [n \in 0..len |-> [out |-> << >>, rest |-> rest(n)]]
  <2>1. cuts[len] = Incomplete
    <3>1. len \in 0..len /\ len - len = 0
      BY <1>1
    <3> QED BY <3>1, <1>2
  <2>2. f[len] = OneTurn(f, len)
    <3>1. len \in 0..len
      BY <1>1
    <3> QED BY <2>1, <3>1
  <2>3. \A n \in len - 0..len : n = len
    BY <1>1
  <2>4. DOMAIN f = 0..len /\ f = [n \in 0..len |-> f[n]]
    OBVIOUS
  <2> HIDE DEF f, OneTurn
  <2>5. Good(f, 0)
    BY <2>2, <2>3, <2>4
  <2> QED BY <2>5
<1>5. Nat \subseteq T
  <2>1. \A k \in T \cap Nat : k + 1 \in T
    <3> TAKE k \in T \cap Nat
    <3> HIDE DEF Good
    <3>1. PICK f : Good(f, k)
      OBVIOUS
    <3>2. \E g : Good(g, k + 1)
      BY <1>3, <3>1
    <3> QED BY <3>2
  <2> HIDE DEF T
  <2> QED BY <1>4, <2>1, AllNaturals
<1>6. PICK f : Good(f, len)
  BY <1>1, <1>5
<1>7. ASSUME NEW n \in 0..len PROVE f[n] = OneTurn(f, n)
  <2>1. n \in len - len..len /\ n >= 0
    BY <1>1
  <2> QED BY <1>6, <2>1
<1>8. f = [n \in 0..len |-> OneTurn(f, n)]
  <2> HIDE DEF OneTurn
  <2> QED BY <1>6, <1>7
<1>9. LoopOf(f, buffer, cuts)
  BY <1>8 DEF LoopOf, len
<1> QED BY <1>9

-----------------------------------------------------------------------------
(* Two messages fill a stream, the first of them its first x bytes; b1 and  *)
(* b2 are their bodies, at their ends.                                      *)
Fills(s, x, b1, b2) ==
  /\ s \in Seq(Nat) /\ b1 \in Seq(Nat) /\ b2 \in Seq(Nat)
  /\ x \in 1..Len(s) - 1
  /\ Len(b1) < x /\ Lies(s, x - Len(b1), b1)
  /\ Len(b2) < Len(s) - x /\ Lies(s, Len(s) - Len(b2), b2)

(* What has come out of the first c bytes, and where the rest begins.       *)
OutAt(s, x, b1, b2, c) ==
  IF c < x THEN << >> ELSE IF c < Len(s) THEN <<b1>> ELSE <<b1, b2>>
FromAt(s, x, c) == IF c < x THEN 0 ELSE IF c < Len(s) THEN x ELSE Len(s)
StateAt(s, x, b1, b2, c) ==
  [out |-> OutAt(s, x, b1, b2, c), rest |-> Part(s, FromAt(s, x, c), c)]

CutsRight(s, x, b1, b2, a, d, cuts) ==
  /\ a = 0 => cuts[0] = CutFor(b1, x - Len(b1), 0, x, d)
  /\ a <= x /\ x <= d => cuts[x - a] = CutFor(b2, (Len(s) - x) - Len(b2), x, Len(s), d)
  /\ d = Len(s) => cuts[d - a] = Incomplete

CutOut(s, a, z, d, b, u) ==
  SubSeq(Part(Part(s, u, d), a - u, d - u), (z - a) - Len(b) + 1, z - a) = b

(* A message that is complete is cut out of the buffer whole.               *)
LEMMA BodyCut ==
  ASSUME NEW s \in Seq(Nat), NEW a \in Nat, NEW z \in Nat, NEW d \in z..Len(s),
         NEW b \in Seq(Nat), Len(b) < z - a, Lies(s, z - Len(b), b),
         NEW u \in 0..a
  PROVE  CutOut(s, a, z, d, b, u)
<1>1. /\ Len(s) \in Nat /\ Len(b) \in Nat /\ u \in 0..Len(s) /\ d \in u..Len(s)
      /\ a - u \in 0..d - u /\ d - u \in 0..d - u /\ u + (a - u) = a /\ u + (d - u) = d
  OBVIOUS
<1>2. Part(Part(s, u, d), a - u, d - u) = Part(s, a, d)
  <2> DEFINE i == a - u
             j == d - u
  <2>1. i \in 0..d - u /\ j \in 0..d - u /\ u + i = a /\ u + j = d
    BY <1>1
  <2> HIDE DEF i, j
  <2>2. Part(Part(s, u, d), i, j) = Part(s, u + i, u + j)
    BY <1>1, <2>1, PartOfPart
  <2> QED BY <2>1, <2>2 DEF i, j
<1> DEFINE h == (z - a) - Len(b)
           y == z - a
<1>3. /\ a \in 0..Len(s) /\ d \in a..Len(s) /\ h \in 0..d - a /\ y \in 0..d - a
      /\ a + h = z - Len(b) /\ a + y = z
  BY <1>1
<1> HIDE DEF h, y
<1>4. Part(Part(s, a, d), h, y) = Part(s, a + h, a + y)
  BY <1>3, PartOfPart
<1>5. Part(s, z - Len(b), z) = b
  <2> DEFINE v == z - Len(b)
  <2>1. Lies(s, v, b) /\ z = v + Len(b)
    BY <1>1
  <2> HIDE DEF v
  <2>2. Part(s, v, z) = b
    BY <2>1, LiesInPart
  <2> QED BY <2>2 DEF v
<1>6. Part(Part(s, a, d), h, y) = b
  BY <1>3, <1>4, <1>5
<1>7. SubSeq(Part(s, a, d), h + 1, y) = b
  BY <1>6 DEF Part
<1> QED BY <1>2, <1>7 DEF h, y, CutOut

LoopGiven(s, x, b1, b2, a, d, f) ==
  /\ d = Len(s) => f[d - a] = [out |-> << >>, rest |-> << >>]
  /\ a <= x /\ x <= d =>
       f[x - a] = IF d < Len(s) THEN [out |-> << >>, rest |-> Part(s, x, d)]
                  ELSE [out |-> <<b2>>, rest |-> << >>]
  /\ a = 0 => f[0] = IF d < x THEN [out |-> << >>, rest |-> Part(s, 0, d)]
                     ELSE [out |-> <<b1>> \o f[x].out, rest |-> f[x].rest]

(* The loop gives the messages that end between a and d, and leaves the     *)
(* beginning of the next.                                                   *)
LEMMA LoopGives ==
  ASSUME NEW s, NEW x, NEW b1, NEW b2, Fills(s, x, b1, b2),
         NEW a \in {0, x, Len(s)}, NEW d \in a..Len(s),
         NEW cuts, CutsRight(s, x, b1, b2, a, d, cuts),
         NEW f, LoopOf(f, Part(s, a, d), cuts)
  PROVE  LoopGiven(s, x, b1, b2, a, d, f)
<1> DEFINE L == Len(s)
           buffer == Part(s, a, d)
           Then(n) == IF cuts[n] = Incomplete
                      THEN [out |-> << >>, rest |-> Part(buffer, n, Len(buffer))]
                      ELSE [out |-> <<SubSeq(Part(buffer, n, Len(buffer)), cuts[n].from, cuts[n].to)>>
                                      \o f[n + cuts[n].to].out,
                            rest |-> f[n + cuts[n].to].rest]
<1>1. /\ s \in Seq(Nat) /\ b1 \in Seq(Nat) /\ b2 \in Seq(Nat) /\ L \in Nat /\ x \in 1..L - 1
      /\ Len(b1) < x /\ Lies(s, x - Len(b1), b1) /\ Len(b1) \in Nat /\ Len(b2) \in Nat
      /\ Len(b2) < L - x /\ Lies(s, L - Len(b2), b2)
  BY DEF Fills
<1>2. a \in 0..L /\ d \in 0..L /\ a <= d /\ a \in Nat /\ d \in Nat
  <2>1. L \in Nat /\ x \in 0..L
    BY <1>1
  <2> QED BY <2>1
<1>3. buffer \in Seq(Nat) /\ Len(buffer) = d - a
  BY <1>1, <1>2, PartIs
<1>4. ASSUME NEW n \in 0..d - a PROVE f[n] = Then(n)
  <2> HIDE DEF buffer
  <2>1. LoopOf(f, buffer, cuts)
    BY DEF buffer
  <2>2. n \in 0..Len(buffer)
    BY <1>3
  <2> QED BY <2>1, <2>2 DEF LoopOf
<1>5. ASSUME NEW n \in 0..d - a
      PROVE  Part(buffer, n, Len(buffer)) = Part(s, a + n, d)
  <2>1. d \in a..L /\ d - a \in 0..d - a
    BY <1>2
  <2> DEFINE e == d - a
  <2>2. e \in 0..d - a /\ a + e = d
    BY <1>2
  <2> HIDE DEF e
  <2>3. Part(Part(s, a, d), n, e) = Part(s, a + n, a + e)
    BY <1>1, <1>2, <2>1, <2>2, PartOfPart
  <2> QED BY <1>3, <2>2, <2>3 DEF e
<1> HIDE DEF buffer
<1>6. ASSUME d = L PROVE f[d - a] = [out |-> << >>, rest |-> << >>]
  <2>1. d - a \in 0..d - a /\ a + (d - a) = d
    BY <1>2
  <2>2. cuts[d - a] = Incomplete
    BY <1>6 DEF CutsRight
  <2>3. f[d - a] = Then(d - a)
    BY <2>1, <1>4
  <2>4. Part(buffer, d - a, Len(buffer)) = Part(s, d, d)
    BY <2>1, <1>5
  <2>5. Part(s, d, d) = << >>
    BY <1>1, <1>2, NoPart
  <2> QED BY <2>2, <2>3, <2>4, <2>5
<1>7. ASSUME a <= x, x <= d
      PROVE  f[x - a] = IF d < L THEN [out |-> << >>, rest |-> Part(s, x, d)]
                        ELSE [out |-> <<b2>>, rest |-> << >>]
  <2> DEFINE n == x - a
             h == (L - x) - Len(b2)
             rest == Part(buffer, n, Len(buffer))
  <2>1. n \in 0..d - a /\ a + n = x
    BY <1>1, <1>2, <1>7
  <2>2. cuts[n] = CutFor(b2, h, x, L, d)
    BY <1>7 DEF CutsRight
  <2>3. f[n] = Then(n) /\ rest = Part(s, x, d)
    BY <2>1, <1>4, <1>5
  <2>4. CASE d < L
    <3>1. cuts[n] = Incomplete
      BY <2>2, <2>4 DEF CutFor
    <3> QED BY <2>3, <2>4, <3>1
  <2>5. CASE ~(d < L)
    <3>1. d = L
      BY <1>2, <2>5
    <3>2. cuts[n] = [from |-> h + 1, to |-> L - x]
      BY <2>2, <2>5 DEF CutFor
    <3>3. cuts[n] # Incomplete
      <4>1. Incomplete.to = 0 /\ L - x # 0
        BY <1>1 DEF Incomplete
      <4> QED BY <3>2, <4>1
    <3>4. n + (L - x) = d - a
      BY <1>1, <1>2, <2>1, <3>1
    <3>5. SubSeq(rest, h + 1, L - x) = b2
      <4>1. L \in Nat /\ d \in L..Len(s) /\ x \in Nat /\ a \in 0..x
        BY <1>1, <1>2, <1>7, <3>1
      <4>2. SubSeq(Part(Part(s, a, d), x - a, d - a), (L - x) - Len(b2) + 1, L - x) = b2
        <5> HIDE DEF L
        <5>1. CutOut(s, x, L, d, b2, a)
          BY <4>1, <1>1, BodyCut
        <5> QED BY <5>1 DEF CutOut
      <4> QED BY <4>2, <1>3 DEF buffer
    <3>6. f[d - a] = [out |-> << >>, rest |-> << >>]
      BY <1>6, <3>1
    <3>7. f[n] = [out |-> <<SubSeq(rest, h + 1, L - x)>> \o f[d - a].out, rest |-> f[d - a].rest]
      <4>1. f[n] = [out |-> <<SubSeq(rest, cuts[n].from, cuts[n].to)>> \o f[n + cuts[n].to].out,
                    rest |-> f[n + cuts[n].to].rest]
        BY <2>3, <3>3
      <4>2. cuts[n].from = h + 1 /\ cuts[n].to = L - x
        BY <3>2
      <4> HIDE DEF n, h, rest, L
      <4> QED BY <4>1, <4>2, <3>4
    <3>8. <<b2>> \o << >> = <<b2>>
      <4>1. <<b2>> \in Seq(Seq(Nat))
        BY <1>1
      <4> QED BY <4>1, ConcatEmptySeq
    <3> HIDE DEF n, h, rest
    <3>9. f[n] = [out |-> <<b2>>, rest |-> << >>]
      <4>1. f[d - a].out = << >> /\ f[d - a].rest = << >>
        BY <3>6
      <4>2. f[n] = [out |-> <<b2>> \o << >>, rest |-> << >>]
        BY <3>5, <3>7, <4>1
      <4> QED BY <3>8, <4>2
    <3> QED BY <2>5, <3>9 DEF n
  <2> HIDE DEF rest, h
  <2> QED BY <2>4, <2>5
<1>8. ASSUME a = 0
      PROVE  f[0] = IF d < x THEN [out |-> << >>, rest |-> Part(s, 0, d)]
                    ELSE [out |-> <<b1>> \o f[x].out, rest |-> f[x].rest]
  <2> DEFINE h == x - Len(b1)
             rest == Part(buffer, 0, Len(buffer))
  <2>1. 0 \in 0..d - a /\ a + 0 = 0
    BY <1>2, <1>8
  <2>2. cuts[0] = CutFor(b1, h, 0, x, d)
    BY <1>8 DEF CutsRight
  <2>3. f[0] = Then(0) /\ rest = Part(s, 0, d)
    BY <2>1, <1>4, <1>5
  <2>4. CASE d < x
    <3>1. cuts[0] = Incomplete
      BY <2>2, <2>4 DEF CutFor
    <3> QED BY <2>3, <2>4, <3>1
  <2>5. CASE ~(d < x)
    <3>1. x - 0 = x /\ 0 + x = x /\ x # 0
      BY <1>1
    <3>2. cuts[0] = [from |-> h + 1, to |-> x]
      BY <2>2, <2>5, <3>1 DEF CutFor
    <3>3. cuts[0] # Incomplete
      <4>1. Incomplete.to = 0
        BY DEF Incomplete
      <4> QED BY <3>1, <3>2, <4>1
    <3>4. SubSeq(rest, h + 1, x) = b1
      <4>1. x \in Nat /\ d \in x..Len(s) /\ 0 \in 0..0 /\ 0 \in Nat /\ x - 0 = x /\ d - 0 = d
        BY <1>1, <1>2, <2>5
      <4>2. SubSeq(Part(Part(s, 0, d), 0 - 0, d - 0), (x - 0) - Len(b1) + 1, x - 0) = b1
        <5>1. Len(b1) < x - 0
          BY <1>1, <4>1
        <5> HIDE DEF L
        <5>2. CutOut(s, 0, x, d, b1, 0)
          BY <4>1, <5>1, <1>1, BodyCut
        <5> QED BY <5>2 DEF CutOut
      <4>3. Part(Part(s, 0, d), 0, d) = rest
        BY <1>3, <1>8 DEF buffer
      <4>4. 0 - 0 = 0
        OBVIOUS
      <4> QED BY <4>1, <4>2, <4>3, <4>4
    <3>5. f[0] = [out |-> <<SubSeq(rest, h + 1, x)>> \o f[x].out, rest |-> f[x].rest]
      <4>1. f[0] = [out |-> <<SubSeq(rest, cuts[0].from, cuts[0].to)>> \o f[0 + cuts[0].to].out,
                    rest |-> f[0 + cuts[0].to].rest]
        BY <2>3, <3>3
      <4>2. cuts[0].from = h + 1 /\ cuts[0].to = x
        BY <3>2
      <4> HIDE DEF h, rest
      <4> QED BY <4>1, <4>2, <3>1
    <3> HIDE DEF h, rest
    <3> QED BY <2>5, <3>4, <3>5
  <2> HIDE DEF rest, h
  <2> QED BY <2>4, <2>5
<1> QED BY <1>6, <1>7, <1>8 DEF LoopGiven

-----------------------------------------------------------------------------
(* Where the message begins that is being read.                             *)
LEMMA FromIs ==
  ASSUME NEW s, NEW x, NEW b1, NEW b2, Fills(s, x, b1, b2), NEW c \in 0..Len(s)
  PROVE  /\ FromAt(s, x, c) \in {0, x, Len(s)} /\ FromAt(s, x, c) \in 0..c
         /\ FromAt(s, x, c) = 0 => c < x
         /\ FromAt(s, x, c) = x => x <= c
<1>1. Len(s) \in Nat /\ x \in 1..Len(s) - 1
  BY DEF Fills
<1> QED BY <1>1 DEF FromAt

(* What the loop adds to what it had given.                                 *)
LEMMA StateNext ==
  ASSUME NEW s, NEW x, NEW b1, NEW b2, Fills(s, x, b1, b2),
         NEW c \in 0..Len(s), NEW d \in c..Len(s), NEW a, a = FromAt(s, x, c),
         NEW cuts, CutsRight(s, x, b1, b2, a, d, cuts),
         NEW f, LoopOf(f, Part(s, a, d), cuts)
  PROVE  /\ OutAt(s, x, b1, b2, c) \o f[0].out = OutAt(s, x, b1, b2, d)
         /\ f[0].rest = Part(s, FromAt(s, x, d), d)
<1> DEFINE L == Len(s)
<1>1. /\ s \in Seq(Nat) /\ b1 \in Seq(Nat) /\ b2 \in Seq(Nat) /\ L \in Nat /\ x \in 1..L - 1
      /\ c \in Nat /\ d \in Nat /\ c <= d /\ d <= L
  BY DEF Fills
<1>2. a \in {0, x, L} /\ a \in 0..c
  BY FromIs
<1>3. a \in {0, x, L} /\ d \in a..L
  BY <1>1, <1>2
<1>4. /\ d = L => f[d - a] = [out |-> << >>, rest |-> << >>]
      /\ a <= x /\ x <= d =>
           f[x - a] = IF d < L THEN [out |-> << >>, rest |-> Part(s, x, d)]
                      ELSE [out |-> <<b2>>, rest |-> << >>]
      /\ a = 0 => f[0] = IF d < x THEN [out |-> << >>, rest |-> Part(s, 0, d)]
                         ELSE [out |-> <<b1>> \o f[x].out, rest |-> f[x].rest]
  <2>1. LoopGiven(s, x, b1, b2, a, d, f)
    BY <1>3, LoopGives
  <2> QED BY <2>1 DEF LoopGiven
<1>5. Part(s, L, L) = << >>
  <2>1. L \in 0..Len(s) /\ L <= L
    BY <1>1
  <2> QED BY <1>1, <2>1, NoPart
<1>6. /\ << >> \o << >> = << >> /\ <<b1>> \o << >> = <<b1>> /\ <<b1, b2>> \o << >> = <<b1, b2>>
      /\ << >> \o <<b1>> = <<b1>> /\ << >> \o <<b1, b2>> = <<b1, b2>>
      /\ <<b1>> \o <<b2>> = <<b1, b2>>
  <2>1. << >> \o << >> = << >>
    OBVIOUS
  <2>2. <<b1>> \o << >> = <<b1>>
    OBVIOUS
  <2>3. <<b1, b2>> \o << >> = <<b1, b2>>
    OBVIOUS
  <2>4. << >> \o <<b1>> = <<b1>>
    OBVIOUS
  <2>5. << >> \o <<b1, b2>> = <<b1, b2>>
    OBVIOUS
  <2>6. <<b1>> \o <<b2>> = <<b1, b2>>
    <3> DEFINE S == {b1, b2}
               t == <<b1>> \o <<b2>>
    <3>1. <<b1>> \in Seq(S) /\ <<b2>> \in Seq(S) /\ <<b1, b2>> \in Seq(S)
          /\ Len(<<b1>>) = 1 /\ Len(<<b2>>) = 1 /\ Len(<<b1, b2>>) = 2
      OBVIOUS
    <3>2. t \in Seq(S) /\ Len(t) = 2 /\ t[1] = b1 /\ t[2] = b2
      <4> HIDE DEF S
      <4>1. /\ t \in Seq(S) /\ Len(t) = Len(<<b1>>) + Len(<<b2>>)
            /\ \A i \in 1..Len(<<b1>>) + Len(<<b2>>) :
                 t[i] = IF i <= Len(<<b1>>) THEN <<b1>>[i] ELSE <<b2>>[i - Len(<<b1>>)]
        BY <3>1, ConcatProperties
      <4>2. t \in Seq(S) /\ Len(t) = 2
            /\ \A i \in 1..2 : t[i] = IF i <= 1 THEN <<b1>>[i] ELSE <<b2>>[i - 1]
        BY <3>1, <4>1
      <4> HIDE DEF t
      <4> QED BY <4>2
    <3> HIDE DEF S, t
    <3>3. t = <<b1, b2>>
      BY <3>1, <3>2, SeqEqual
    <3> QED BY <3>3 DEF t
  <2> QED BY <2>1, <2>2, <2>3, <2>4, <2>5, <2>6
<1>7. CASE c < x
  <2>1. a = 0 /\ x - a = x /\ a <= x
    BY <1>1, <1>7 DEF FromAt
  <2>2. OutAt(s, x, b1, b2, c) = << >>
    BY <1>7 DEF OutAt
  <2>3. CASE d < x
    <3>1. OutAt(s, x, b1, b2, d) = << >> /\ FromAt(s, x, d) = 0
      BY <2>3 DEF OutAt, FromAt
    <3>2. f[0] = [out |-> << >>, rest |-> Part(s, 0, d)]
      BY <1>4, <2>1, <2>3
    <3> QED BY <1>6, <2>2, <3>1, <3>2
  <2>4. CASE x <= d /\ d < L
    <3>1. OutAt(s, x, b1, b2, d) = <<b1>> /\ FromAt(s, x, d) = x
      BY <1>1, <2>4 DEF OutAt, FromAt
    <3>2. f[x] = [out |-> << >>, rest |-> Part(s, x, d)]
      BY <1>4, <2>1, <2>4
    <3>3. f[0] = [out |-> <<b1>> \o f[x].out, rest |-> f[x].rest]
      BY <1>1, <1>4, <2>1, <2>4
    <3>4. f[0].out = <<b1>> /\ f[0].rest = Part(s, x, d)
      BY <1>6, <3>2, <3>3
    <3> QED BY <1>6, <2>2, <3>1, <3>4
  <2>5. CASE d = L
    <3>1. OutAt(s, x, b1, b2, d) = <<b1, b2>> /\ FromAt(s, x, d) = L
      BY <1>1, <2>5 DEF OutAt, FromAt
    <3>2. f[x] = [out |-> <<b2>>, rest |-> << >>]
      BY <1>1, <1>4, <2>1, <2>5
    <3>3. f[0] = [out |-> <<b1>> \o f[x].out, rest |-> f[x].rest]
      BY <1>1, <1>4, <2>1, <2>5
    <3>4. f[0].out = <<b1, b2>> /\ f[0].rest = << >>
      BY <1>6, <3>2, <3>3
    <3> QED BY <1>5, <1>6, <2>2, <2>5, <3>1, <3>4
  <2>6. d < x \/ (x <= d /\ d < L) \/ d = L
    BY <1>1
  <2> QED BY <2>3, <2>4, <2>5, <2>6
<1>8. CASE x <= c /\ c < L
  <2>1. a = x /\ x - a = 0 /\ a <= x /\ x <= d
    BY <1>1, <1>8 DEF FromAt
  <2>2. OutAt(s, x, b1, b2, c) = <<b1>>
    BY <1>1, <1>8 DEF OutAt
  <2>3. CASE d < L
    <3>1. OutAt(s, x, b1, b2, d) = <<b1>> /\ FromAt(s, x, d) = x
      BY <1>1, <2>1, <2>3 DEF OutAt, FromAt
    <3>2. f[0] = [out |-> << >>, rest |-> Part(s, x, d)]
      BY <1>4, <2>1, <2>3
    <3> QED BY <1>6, <2>2, <3>1, <3>2
  <2>4. CASE d = L
    <3>1. OutAt(s, x, b1, b2, d) = <<b1, b2>> /\ FromAt(s, x, d) = L
      BY <1>1, <2>4 DEF OutAt, FromAt
    <3>2. f[0] = [out |-> <<b2>>, rest |-> << >>]
      BY <1>1, <1>4, <2>1, <2>4
    <3> QED BY <1>5, <1>6, <2>2, <2>4, <3>1, <3>2
  <2> QED BY <1>1, <2>3, <2>4
<1>9. CASE c = L
  <2>1. a = L /\ d = L /\ d - a = 0
    BY <1>1, <1>9 DEF FromAt
  <2>2. OutAt(s, x, b1, b2, c) = <<b1, b2>> /\ OutAt(s, x, b1, b2, d) = <<b1, b2>>
        /\ FromAt(s, x, d) = L
    BY <1>1, <1>9, <2>1 DEF OutAt, FromAt
  <2>3. f[0] = [out |-> << >>, rest |-> << >>]
    BY <1>4, <2>1
  <2> QED BY <1>5, <1>6, <2>1, <2>2, <2>3
<1>10. c < x \/ (x <= c /\ c < L) \/ c = L
  BY <1>1
<1> QED BY <1>7, <1>8, <1>9, <1>10

(* What the loop sees of the buffer.                                        *)
LEMMA RestSeen ==
  ASSUME NEW s \in Seq(Nat), NEW a \in 0..Len(s), NEW d \in a..Len(s), NEW n \in 0..d - a
  PROVE  /\ Part(s, a, d) \in Seq(Nat) /\ Len(Part(s, a, d)) = d - a
         /\ Part(Part(s, a, d), n, Len(Part(s, a, d))) = Part(s, a + n, d)
<1>1. d \in 0..Len(s) /\ a <= d
  OBVIOUS
<1>2. Part(s, a, d) \in Seq(Nat) /\ Len(Part(s, a, d)) = d - a
  BY <1>1, PartIs
<1> DEFINE e == d - a
<1>3. e \in 0..d - a /\ a + e = d
  BY <1>1
<1> HIDE DEF e
<1>4. Part(Part(s, a, d), n, e) = Part(s, a + n, a + e)
  BY <1>3, PartOfPart
<1> QED BY <1>2, <1>3, <1>4 DEF e

MqttFills(s, x, b1, b2) ==
  /\ Fills(s, x, b1, b2)
  /\ x = Len(MqttPacket(b1)) /\ Lies(s, 0, MqttPacket(b1))
  /\ Len(s) = x + Len(MqttPacket(b2)) /\ Lies(s, x, MqttPacket(b2))

(* However many bytes a read adds, handle_client has given the packets      *)
(* that are complete and keeps the bytes behind them.                       *)
LEMMA MqttHandled ==
  ASSUME NEW s, NEW x, NEW b1, NEW b2, MqttFills(s, x, b1, b2),
         NEW c \in 0..Len(s), NEW d \in c..Len(s)
  PROVE  Handled(StateAt(s, x, b1, b2, c), Part(s, c, d), MqttCut) = StateAt(s, x, b1, b2, d)
<1> DEFINE L == Len(s)
           a == FromAt(s, x, c)
           buffer == Part(s, a, d)
           cuts == [n \in 0..d - a |-> MqttCut(Part(buffer, n, Len(buffer)))]
           f == CHOOSE g : g = [n \in 0..Len(buffer) |->
                  LET rest == SubSeq(buffer, n + 1, Len(buffer))
                      cut == MqttCut(rest)
                  IN  IF cut = Incomplete THEN [out |-> << >>, rest |-> rest]
                      ELSE LET after == g[n + cut.to]
                           IN  [out |-> <<SubSeq(rest, cut.from, cut.to)>> \o after.out,
                                rest |-> after.rest]]
<1>1. Fills(s, x, b1, b2)
  BY DEF MqttFills
<1>2. /\ s \in Seq(Nat) /\ b1 \in Seq(Nat) /\ b2 \in Seq(Nat) /\ L \in Nat /\ x \in 1..L - 1
      /\ c \in Nat /\ d \in Nat /\ c <= d /\ d <= L
  BY <1>1 DEF Fills
<1>3. a \in {0, x, L} /\ a \in 0..c
  BY <1>1, FromIs
<1> HIDE DEF a
<1>4. a \in 0..L /\ d \in a..L /\ c \in a..L /\ c \in 0..L /\ a \in Nat
  BY <1>2, <1>3
<1>5. /\ buffer \in Seq(Nat) /\ Len(buffer) = d - a
      /\ \A n \in 0..d - a : Part(buffer, n, Len(buffer)) = Part(s, a + n, d)
  <2>1. 0 \in 0..d - a
    BY <1>4
  <2> QED BY <1>2, <1>4, <2>1, RestSeen
<1>6. Part(s, a, c) \o Part(s, c, d) = buffer
  BY <1>2, <1>4, PartsJoin
<1> HIDE DEF buffer
<1>7. \A n \in 0..d - a : cuts[n] = MqttCut(Part(s, a + n, d))
  BY <1>5
<1>8. CutsRight(s, x, b1, b2, a, d, cuts)
  <2>1. ASSUME a = 0 PROVE cuts[0] = CutFor(b1, x - Len(b1), 0, x, d)
    <3>1. 0 \in 0..d - a /\ a + 0 = 0 /\ d \in 0..L /\ 0 + x = x
      BY <1>2, <1>4, <2>1
    <3>2. Lies(s, 0, MqttPacket(b1)) /\ x = Len(MqttPacket(b1))
      BY DEF MqttFills
    <3>3. MqttCut(Part(s, 0, d)) =
            CutFor(b1, Len(MqttPacket(b1)) - Len(b1), 0, 0 + Len(MqttPacket(b1)), d)
      <4>1. MqttCutAt(s, 0, b1, d)
        BY <1>2, <3>1, <3>2, MqttCutIs
      <4> QED BY <4>1 DEF MqttCutAt
    <3>4. cuts[0] = MqttCut(Part(s, 0, d))
      BY <1>7, <3>1
    <3> HIDE DEF cuts
    <3> QED BY <3>1, <3>2, <3>3, <3>4
  <2>2. ASSUME a <= x, x <= d
        PROVE  cuts[x - a] = CutFor(b2, (Len(s) - x) - Len(b2), x, Len(s), d)
    <3>1. x - a \in 0..d - a /\ a + (x - a) = x /\ d \in x..L
      BY <1>2, <1>4, <2>2
    <3>2. Lies(s, x, MqttPacket(b2)) /\ Len(s) = x + Len(MqttPacket(b2))
      BY DEF MqttFills
    <3>3. MqttCut(Part(s, x, d)) =
            CutFor(b2, Len(MqttPacket(b2)) - Len(b2), x, x + Len(MqttPacket(b2)), d)
      <4>1. MqttCutAt(s, x, b2, d)
        BY <1>2, <3>1, <3>2, MqttCutIs
      <4> QED BY <4>1 DEF MqttCutAt
    <3>4. cuts[x - a] = MqttCut(Part(s, x, d))
      BY <1>7, <3>1
    <3>5. Len(MqttPacket(b2)) = Len(s) - x
      <4>1. Len(MqttPacket(b2)) \in Nat
        BY <3>2 DEF Lies
      <4> QED BY <1>2, <3>2, <4>1
    <3> HIDE DEF cuts
    <3> QED BY <3>2, <3>3, <3>4, <3>5
  <2>3. ASSUME d = Len(s) PROVE cuts[d - a] = Incomplete
    <3>1. d - a \in 0..d - a /\ a + (d - a) = d /\ d \in 0..L
      BY <1>2, <1>4
    <3>2. cuts[d - a] = MqttCut(Part(s, d, d))
      BY <1>7, <3>1
    <3>3. Part(s, d, d) = << >>
      BY <1>2, <3>1, NoPart
    <3>4. MqttCut(<< >>) = Incomplete
      <4>1. Len(<< >>) = 0
        OBVIOUS
      <4>2. {k \in 2..Len(<< >>) : (<< >>)[k] < Base} = {}
        BY <4>1
      <4> QED BY <4>2 DEF MqttCut
    <3> QED BY <3>2, <3>3, <3>4
  <2> HIDE DEF cuts
  <2> QED BY <2>1, <2>2, <2>3 DEF CutsRight
<1>9. AllAdvance(buffer, cuts)
  <2>1. ASSUME NEW n \in 0..Len(buffer)
        PROVE  Advances(cuts[n], Part(buffer, n, Len(buffer)))
    <3>1. n \in 0..Len(buffer) /\ Len(buffer) \in 0..Len(buffer)
      BY <1>4, <1>5
    <3>2. Part(buffer, n, Len(buffer)) \in Seq(Nat)
      BY <1>5, <3>1, PartIs
    <3>3. cuts[n] = MqttCut(Part(buffer, n, Len(buffer)))
      BY <1>5
    <3> HIDE DEF cuts
    <3> QED BY <3>2, <3>3, MqttAdvances
  <2> HIDE DEF cuts
  <2> QED BY <2>1 DEF AllAdvance
<1>10. \A g : LoopOf(g, buffer, cuts) <=>
         g = [n \in 0..Len(buffer) |->
                  LET rest == SubSeq(buffer, n + 1, Len(buffer))
                      cut == MqttCut(rest)
                  IN  IF cut = Incomplete THEN [out |-> << >>, rest |-> rest]
                      ELSE LET after == g[n + cut.to]
                           IN  [out |-> <<SubSeq(rest, cut.from, cut.to)>> \o after.out,
                                rest |-> after.rest]]
  <2>1. \A n \in 0..Len(buffer) : cuts[n] = MqttCut(SubSeq(buffer, n + 1, Len(buffer)))
    BY <1>5 DEF Part
  <2> HIDE DEF cuts
  <2> QED BY <2>1, ZenonT(30) DEF LoopOf, Part
<1>11. LoopOf(f, buffer, cuts)
  <2>1. \E g : LoopOf(g, buffer, cuts)
    <3> HIDE DEF cuts
    <3> QED BY <1>5, <1>9, LoopExists
  <2> HIDE DEF cuts
  <2> QED BY <1>10, <2>1
<1>12. Handled(StateAt(s, x, b1, b2, c), Part(s, c, d), MqttCut)
         = [out |-> OutAt(s, x, b1, b2, c) \o f[0].out, rest |-> f[0].rest]
  <2>1. StateAt(s, x, b1, b2, c).rest \o Part(s, c, d) = buffer
    BY <1>6 DEF StateAt, a
  <2>2. StateAt(s, x, b1, b2, c).out = OutAt(s, x, b1, b2, c)
    BY DEF StateAt
  <2> HIDE DEF cuts
  <2> QED BY <2>1, <2>2 DEF Handled
<1> HIDE DEF f, cuts
<1>13. /\ OutAt(s, x, b1, b2, c) \o f[0].out = OutAt(s, x, b1, b2, d)
       /\ f[0].rest = Part(s, FromAt(s, x, d), d)
  <2>1. LoopOf(f, Part(s, a, d), cuts)
    BY <1>11 DEF buffer
  <2>2. a = FromAt(s, x, c)
    BY DEF a
  <2> QED BY <1>1, <1>8, <2>1, <2>2, StateNext
<1> QED BY <1>12, <1>13 DEF StateAt

-----------------------------------------------------------------------------
QuicFills(s, x, b1, b2) ==
  /\ Fills(s, x, b1, b2) /\ Len(b1) <= MaxBody /\ Len(b2) <= MaxBody
  /\ x = Len(QuicMessage(b1)) /\ Lies(s, 0, QuicMessage(b1))
  /\ Len(s) = x + Len(QuicMessage(b2)) /\ Lies(s, x, QuicMessage(b2))

(* _handle_stream_data does so with its frames.                             *)
LEMMA QuicHandled ==
  ASSUME NEW s, NEW x, NEW b1, NEW b2, QuicFills(s, x, b1, b2),
         NEW c \in 0..Len(s), NEW d \in c..Len(s)
  PROVE  Handled(StateAt(s, x, b1, b2, c), Part(s, c, d), QuicCut) = StateAt(s, x, b1, b2, d)
<1> DEFINE L == Len(s)
           a == FromAt(s, x, c)
           buffer == Part(s, a, d)
           cuts == [n \in 0..d - a |-> QuicCut(Part(buffer, n, Len(buffer)))]
           f == CHOOSE g : g = [n \in 0..Len(buffer) |->
                  LET rest == SubSeq(buffer, n + 1, Len(buffer))
                      cut == QuicCut(rest)
                  IN  IF cut = Incomplete THEN [out |-> << >>, rest |-> rest]
                      ELSE LET after == g[n + cut.to]
                           IN  [out |-> <<SubSeq(rest, cut.from, cut.to)>> \o after.out,
                                rest |-> after.rest]]
<1>1. Fills(s, x, b1, b2)
  BY DEF QuicFills
<1>2. /\ s \in Seq(Nat) /\ b1 \in Seq(Nat) /\ b2 \in Seq(Nat) /\ L \in Nat /\ x \in 1..L - 1
      /\ c \in Nat /\ d \in Nat /\ c <= d /\ d <= L
  BY <1>1 DEF Fills
<1>3. a \in {0, x, L} /\ a \in 0..c
  BY <1>1, FromIs
<1> HIDE DEF a
<1>4. a \in 0..L /\ d \in a..L /\ c \in a..L /\ c \in 0..L /\ a \in Nat
  BY <1>2, <1>3
<1>5. /\ buffer \in Seq(Nat) /\ Len(buffer) = d - a
      /\ \A n \in 0..d - a : Part(buffer, n, Len(buffer)) = Part(s, a + n, d)
  <2>1. 0 \in 0..d - a
    BY <1>4
  <2> QED BY <1>2, <1>4, <2>1, RestSeen
<1>6. Part(s, a, c) \o Part(s, c, d) = buffer
  BY <1>2, <1>4, PartsJoin
<1> HIDE DEF buffer
<1>7. \A n \in 0..d - a : cuts[n] = QuicCut(Part(s, a + n, d))
  BY <1>5
<1>8. CutsRight(s, x, b1, b2, a, d, cuts)
  <2>1. ASSUME a = 0 PROVE cuts[0] = CutFor(b1, x - Len(b1), 0, x, d)
    <3>1. 0 \in 0..d - a /\ a + 0 = 0 /\ d \in 0..L /\ 0 + x = x
      BY <1>2, <1>4, <2>1
    <3>2. Lies(s, 0, QuicMessage(b1)) /\ x = Len(QuicMessage(b1))
          /\ Len(b1) <= MaxBody
      BY DEF QuicFills
    <3>3. QuicCut(Part(s, 0, d)) =
            CutFor(b1, Len(QuicMessage(b1)) - Len(b1), 0, 0 + Len(QuicMessage(b1)), d)
      <4>1. QuicCutAt(s, 0, b1, d)
        BY <1>2, <3>1, <3>2, QuicCutIs
      <4> QED BY <4>1 DEF QuicCutAt
    <3>4. cuts[0] = QuicCut(Part(s, 0, d))
      BY <1>7, <3>1
    <3> HIDE DEF cuts
    <3> QED BY <3>1, <3>2, <3>3, <3>4
  <2>2. ASSUME a <= x, x <= d
        PROVE  cuts[x - a] = CutFor(b2, (Len(s) - x) - Len(b2), x, Len(s), d)
    <3>1. x - a \in 0..d - a /\ a + (x - a) = x /\ d \in x..L
      BY <1>2, <1>4, <2>2
    <3>2. Lies(s, x, QuicMessage(b2)) /\ Len(s) = x + Len(QuicMessage(b2))
          /\ Len(b2) <= MaxBody
      BY DEF QuicFills
    <3>3. QuicCut(Part(s, x, d)) =
            CutFor(b2, Len(QuicMessage(b2)) - Len(b2), x, x + Len(QuicMessage(b2)), d)
      <4>1. QuicCutAt(s, x, b2, d)
        BY <1>2, <3>1, <3>2, QuicCutIs
      <4> QED BY <4>1 DEF QuicCutAt
    <3>4. cuts[x - a] = QuicCut(Part(s, x, d))
      BY <1>7, <3>1
    <3>5. Len(QuicMessage(b2)) = Len(s) - x
      <4>1. Len(QuicMessage(b2)) \in Nat
        BY <3>2 DEF Lies
      <4> QED BY <1>2, <3>2, <4>1
    <3> HIDE DEF cuts
    <3> QED BY <3>2, <3>3, <3>4, <3>5
  <2>3. ASSUME d = Len(s) PROVE cuts[d - a] = Incomplete
    <3>1. d - a \in 0..d - a /\ a + (d - a) = d /\ d \in 0..L
      BY <1>2, <1>4
    <3>2. cuts[d - a] = QuicCut(Part(s, d, d))
      BY <1>7, <3>1
    <3>3. Part(s, d, d) = << >>
      BY <1>2, <3>1, NoPart
    <3>4. QuicCut(<< >>) = Incomplete
      <4>1. Len(<< >>) = 0
        OBVIOUS
      <4>2. Digits > 0 /\ Digits \in Nat
        BY BodiesAssumption, FramingAssumption
      <4> QED BY <4>1, <4>2 DEF QuicCut
    <3> QED BY <3>2, <3>3, <3>4
  <2> HIDE DEF cuts
  <2> QED BY <2>1, <2>2, <2>3 DEF CutsRight
<1>9. AllAdvance(buffer, cuts)
  <2>1. ASSUME NEW n \in 0..Len(buffer)
        PROVE  Advances(cuts[n], Part(buffer, n, Len(buffer)))
    <3>1. n \in 0..Len(buffer) /\ Len(buffer) \in 0..Len(buffer)
      BY <1>4, <1>5
    <3>2. Part(buffer, n, Len(buffer)) \in Seq(Nat)
      BY <1>5, <3>1, PartIs
    <3>3. cuts[n] = QuicCut(Part(buffer, n, Len(buffer)))
      BY <1>5
    <3> HIDE DEF cuts
    <3> QED BY <3>2, <3>3, QuicAdvances
  <2> HIDE DEF cuts
  <2> QED BY <2>1 DEF AllAdvance
<1>10. \A g : LoopOf(g, buffer, cuts) <=>
         g = [n \in 0..Len(buffer) |->
                  LET rest == SubSeq(buffer, n + 1, Len(buffer))
                      cut == QuicCut(rest)
                  IN  IF cut = Incomplete THEN [out |-> << >>, rest |-> rest]
                      ELSE LET after == g[n + cut.to]
                           IN  [out |-> <<SubSeq(rest, cut.from, cut.to)>> \o after.out,
                                rest |-> after.rest]]
  <2>1. \A n \in 0..Len(buffer) : cuts[n] = QuicCut(SubSeq(buffer, n + 1, Len(buffer)))
    BY <1>5 DEF Part
  <2> HIDE DEF cuts
  <2> QED BY <2>1, ZenonT(30) DEF LoopOf, Part
<1>11. LoopOf(f, buffer, cuts)
  <2>1. \E g : LoopOf(g, buffer, cuts)
    <3> HIDE DEF cuts
    <3> QED BY <1>5, <1>9, LoopExists
  <2> HIDE DEF cuts
  <2> QED BY <1>10, <2>1
<1>12. Handled(StateAt(s, x, b1, b2, c), Part(s, c, d), QuicCut)
         = [out |-> OutAt(s, x, b1, b2, c) \o f[0].out, rest |-> f[0].rest]
  <2>1. StateAt(s, x, b1, b2, c).rest \o Part(s, c, d) = buffer
    BY <1>6 DEF StateAt, a
  <2>2. StateAt(s, x, b1, b2, c).out = OutAt(s, x, b1, b2, c)
    BY DEF StateAt
  <2> HIDE DEF cuts
  <2> QED BY <2>1, <2>2 DEF Handled
<1> HIDE DEF f, cuts
<1>13. /\ OutAt(s, x, b1, b2, c) \o f[0].out = OutAt(s, x, b1, b2, d)
       /\ f[0].rest = Part(s, FromAt(s, x, d), d)
  <2>1. LoopOf(f, Part(s, a, d), cuts)
    BY <1>11 DEF buffer
  <2>2. a = FromAt(s, x, c)
    BY DEF a
  <2> QED BY <1>1, <1>8, <2>1, <2>2, StateNext
<1> QED BY <1>12, <1>13 DEF StateAt

(* The greatest of a set of numbers.                                        *)
LEMMA GreatestIs ==
  ASSUME NEW T, T \subseteq Nat, NEW m \in T, \A x \in T : x <= m
  PROVE  Max(T) = m
<1>1. \A y \in T : (\A x \in T : y >= x) => y = m
  <2> TAKE y \in T
  <2> HAVE \A x \in T : y >= x
  <2>1. y <= m /\ y >= m /\ y \in Nat /\ m \in Nat
    OBVIOUS
  <2> QED BY <2>1
<1>2. Max(T) \in T /\ \A x \in T : Max(T) >= x
  BY DEF Max
<1> QED BY <1>1, <1>2

(* The last of up to three.                                                 *)
LEMMA LastOfThree ==
  ASSUME NEW m \in 1..3, NEW t \in SUBSET (1..m)
  PROVE  /\ 3 \in t => m = 3 /\ Max(t) = 3
         /\ 3 \notin t /\ 2 \in t => m >= 2 /\ Max(t) = 2
         /\ 3 \notin t /\ 2 \notin t /\ 1 \in t => Max(t) = 1
         /\ 3 \notin t /\ 2 \notin t /\ 1 \notin t => t = {}
<1>1. t \subseteq Nat /\ \A x \in t : x = 1 \/ x = 2 \/ x = 3
  OBVIOUS
<1>2. 3 \in t => m = 3 /\ \A x \in t : x <= 3
  BY <1>1
<1>3. 3 \notin t => \A x \in t : x <= 2
  BY <1>1
<1>4. 3 \notin t /\ 2 \notin t => \A x \in t : x <= 1
  BY <1>1
<1>5. 2 \in t => m >= 2
  OBVIOUS
<1>6. 3 \notin t /\ 2 \notin t /\ 1 \notin t => t = {}
  BY <1>1
<1> QED BY <1>1, <1>2, <1>3, <1>4, <1>5, <1>6, GreatestIs

(* Three reads of the broker, one after the other.                          *)
LEMMA MqttFolded ==
  ASSUME NEW p1, NEW p2, NEW p3
  PROVE  LET one == Handled(NothingRead, p1, MqttCut)
             two == Handled(one, p2, MqttCut)
         IN  HandleClient(<<p1, p2, p3>>) = Handled(two, p3, MqttCut)
<1> DEFINE p == <<p1, p2, p3>>
           H(state, i) == Handled(state, p[i], MqttCut)
           A1(t) == IF 1 \in t THEN H(NothingRead, 1) ELSE NothingRead
           A2(t) == IF 2 \in t THEN H(A1(t), 2) ELSE A1(t)
           A3(t) == IF 3 \in t THEN H(A2(t), 3) ELSE A2(t)
           D == SUBSET (1..3)
           Folds(g) == g = [t \in D |-> IF t = {} THEN NothingRead
                                        ELSE H(g[t \ {Max(t)}], Max(t))]
           f == CHOOSE g : Folds(g)
<1>1. DOMAIN p = 1..3
  OBVIOUS
<1>2. HandleClient(p) = f[1..3]
  <2>1. 1..3 = DOMAIN p
    BY <1>1
  <2> HIDE DEF p
  <2> QED BY <2>1 DEF HandleClient, FoldLeft, MapThenFoldSet
<1>3. \E g : Folds(g)
  <2> DEFINE g == [t \in D |-> A3(t)]
  <2> HIDE DEF H
  <2>1. ASSUME NEW t \in D
        PROVE  g[t] = IF t = {} THEN NothingRead ELSE H(g[t \ {Max(t)}], Max(t))
    <3>1. t \ {Max(t)} \in D
      OBVIOUS
    <3>2. /\ 3 \in t => Max(t) = 3
          /\ 3 \notin t /\ 2 \in t => Max(t) = 2
          /\ 3 \notin t /\ 2 \notin t /\ 1 \in t => Max(t) = 1
          /\ 3 \notin t /\ 2 \notin t /\ 1 \notin t => t = {}
      BY LastOfThree
    <3> HIDE DEF D
    <3>3. g[t] = A3(t) /\ g[t \ {Max(t)}] = A3(t \ {Max(t)})
      BY <3>1
    <3>4. CASE 3 \in t
      BY <3>2, <3>3, <3>4
    <3>5. CASE 3 \notin t /\ 2 \in t
      BY <3>2, <3>3, <3>5
    <3>6. CASE 3 \notin t /\ 2 \notin t
      BY <3>2, <3>3, <3>6
    <3> QED BY <3>4, <3>5, <3>6
  <2>2. g = [t \in D |-> IF t = {} THEN NothingRead ELSE H(g[t \ {Max(t)}], Max(t))]
    <3> HIDE DEF D, H
    <3>1. g = [t \in D |-> g[t]]
      OBVIOUS
    <3> HIDE DEF g
    <3> QED BY <2>1, <3>1
  <2> HIDE DEF g
  <2> QED BY <2>2
<1>4. Folds(f)
  <2> HIDE DEF H, D
  <2> QED BY <1>3
<1> HIDE DEF f
<1>5. ASSUME NEW t \in D, t # {} PROVE f[t] = H(f[t \ {Max(t)}], Max(t))
  <2> HIDE DEF H, D
  <2> QED BY <1>4, <1>5
<1>6. f[{}] = NothingRead
  <2>1. {} \in D
    OBVIOUS
  <2> HIDE DEF H, D
  <2> QED BY <1>4, <2>1
<1>7. 3 \in 1..3 /\ {1} \in D /\ {1, 2} \in D /\ {1, 2, 3} \in D /\ 1..3 = {1, 2, 3}
  OBVIOUS
<1>8. Max({1}) = 1 /\ Max({1, 2}) = 2 /\ Max({1, 2, 3}) = 3
  BY <1>7, LastOfThree
<1>9. {1} \ {1} = {} /\ {1, 2} \ {2} = {1} /\ {1, 2, 3} \ {3} = {1, 2}
  OBVIOUS
<1>10. f[{1}] = H(NothingRead, 1)
  <2> HIDE DEF H, D
  <2> QED BY <1>5, <1>6, <1>7, <1>8, <1>9
<1>11. f[{1, 2}] = H(f[{1}], 2)
  <2> HIDE DEF H, D
  <2> QED BY <1>5, <1>7, <1>8, <1>9
<1>12. f[{1, 2, 3}] = H(f[{1, 2}], 3)
  <2> HIDE DEF H, D
  <2> QED BY <1>5, <1>7, <1>8, <1>9
<1>13. p[1] = p1 /\ p[2] = p2 /\ p[3] = p3
  OBVIOUS
<1> QED BY <1>2, <1>7, <1>10, <1>11, <1>12, <1>13

-----------------------------------------------------------------------------
(* Three reads of a QUIC stream, one after the other.                       *)
LEMMA QuicFolded ==
  ASSUME NEW p1, NEW p2, NEW p3
  PROVE  LET one == Handled(NothingRead, p1, QuicCut)
             two == Handled(one, p2, QuicCut)
         IN  HandleStreamData(<<p1, p2, p3>>) =
                  [Handled(two, p3, QuicCut) EXCEPT !.out = SelectSeq(@, Parses)]
<1> DEFINE p == <<p1, p2, p3>>
           H(state, i) == Handled(state, p[i], QuicCut)
           A1(t) == IF 1 \in t THEN H(NothingRead, 1) ELSE NothingRead
           A2(t) == IF 2 \in t THEN H(A1(t), 2) ELSE A1(t)
           A3(t) == IF 3 \in t THEN H(A2(t), 3) ELSE A2(t)
           D == SUBSET (1..3)
           Folds(g) == g = [t \in D |-> IF t = {} THEN NothingRead
                                        ELSE H(g[t \ {Max(t)}], Max(t))]
           f == CHOOSE g : Folds(g)
<1>1. DOMAIN p = 1..3
  OBVIOUS
<1>2. HandleStreamData(p) = [f[1..3] EXCEPT !.out = SelectSeq(@, Parses)]
  <2>1. 1..3 = DOMAIN p
    BY <1>1
  <2> HIDE DEF p
  <2> QED BY <2>1 DEF HandleStreamData, FoldLeft, MapThenFoldSet
<1>3. \E g : Folds(g)
  <2> DEFINE g == [t \in D |-> A3(t)]
  <2> HIDE DEF H
  <2>1. ASSUME NEW t \in D
        PROVE  g[t] = IF t = {} THEN NothingRead ELSE H(g[t \ {Max(t)}], Max(t))
    <3>1. t \ {Max(t)} \in D
      OBVIOUS
    <3>2. /\ 3 \in t => Max(t) = 3
          /\ 3 \notin t /\ 2 \in t => Max(t) = 2
          /\ 3 \notin t /\ 2 \notin t /\ 1 \in t => Max(t) = 1
          /\ 3 \notin t /\ 2 \notin t /\ 1 \notin t => t = {}
      BY LastOfThree
    <3> HIDE DEF D
    <3>3. g[t] = A3(t) /\ g[t \ {Max(t)}] = A3(t \ {Max(t)})
      BY <3>1
    <3>4. CASE 3 \in t
      BY <3>2, <3>3, <3>4
    <3>5. CASE 3 \notin t /\ 2 \in t
      BY <3>2, <3>3, <3>5
    <3>6. CASE 3 \notin t /\ 2 \notin t
      BY <3>2, <3>3, <3>6
    <3> QED BY <3>4, <3>5, <3>6
  <2>2. g = [t \in D |-> IF t = {} THEN NothingRead ELSE H(g[t \ {Max(t)}], Max(t))]
    <3> HIDE DEF D, H
    <3>1. g = [t \in D |-> g[t]]
      OBVIOUS
    <3> HIDE DEF g
    <3> QED BY <2>1, <3>1
  <2> HIDE DEF g
  <2> QED BY <2>2
<1>4. Folds(f)
  <2> HIDE DEF H, D
  <2> QED BY <1>3
<1> HIDE DEF f
<1>5. ASSUME NEW t \in D, t # {} PROVE f[t] = H(f[t \ {Max(t)}], Max(t))
  <2> HIDE DEF H, D
  <2> QED BY <1>4, <1>5
<1>6. f[{}] = NothingRead
  <2>1. {} \in D
    OBVIOUS
  <2> HIDE DEF H, D
  <2> QED BY <1>4, <2>1
<1>7. 3 \in 1..3 /\ {1} \in D /\ {1, 2} \in D /\ {1, 2, 3} \in D /\ 1..3 = {1, 2, 3}
  OBVIOUS
<1>8. Max({1}) = 1 /\ Max({1, 2}) = 2 /\ Max({1, 2, 3}) = 3
  BY <1>7, LastOfThree
<1>9. {1} \ {1} = {} /\ {1, 2} \ {2} = {1} /\ {1, 2, 3} \ {3} = {1, 2}
  OBVIOUS
<1>10. f[{1}] = H(NothingRead, 1)
  <2> HIDE DEF H, D
  <2> QED BY <1>5, <1>6, <1>7, <1>8, <1>9
<1>11. f[{1, 2}] = H(f[{1}], 2)
  <2> HIDE DEF H, D
  <2> QED BY <1>5, <1>7, <1>8, <1>9
<1>12. f[{1, 2, 3}] = H(f[{1, 2}], 3)
  <2> HIDE DEF H, D
  <2> QED BY <1>5, <1>7, <1>8, <1>9
<1>13. p[1] = p1 /\ p[2] = p2 /\ p[3] = p3
  OBVIOUS
<1> QED BY <1>2, <1>7, <1>10, <1>11, <1>12, <1>13

Filled(s, w1, w2, b1, b2) ==
  /\ Fills(s, Len(w1), b1, b2)
  /\ Lies(s, 0, w1) /\ Lies(s, Len(w1), w2) /\ Len(s) = Len(w1) + Len(w2)

(* Two messages with their headers fill a stream.                           *)
LEMMA TwoFill ==
  ASSUME NEW h1 \in Seq(Nat), NEW h2 \in Seq(Nat), NEW b1 \in Seq(Nat), NEW b2 \in Seq(Nat),
         Len(h1) > 0, Len(h2) > 0,
         NEW w1, w1 = h1 \o b1, NEW w2, w2 = h2 \o b2, NEW s, s = w1 \o w2
  PROVE  Filled(s, w1, w2, b1, b2)
<1>1. /\ w1 \in Seq(Nat) /\ Len(w1) = Len(h1) + Len(b1)
      /\ w2 \in Seq(Nat) /\ Len(w2) = Len(h2) + Len(b2)
  BY ConcatProperties
<1>2. s \in Seq(Nat) /\ Len(s) = Len(w1) + Len(w2)
  BY <1>1, ConcatProperties
<1>3. Lies(s, 0, w1) /\ Lies(s, Len(w1), w2)
  BY <1>1, LiesWhole
<1>4. /\ Len(h1) \in Nat /\ Len(h2) \in Nat /\ Len(b1) \in Nat /\ Len(b2) \in Nat
      /\ 0 + Len(h1) = Len(w1) - Len(b1) /\ Len(w1) + Len(h2) = Len(s) - Len(b2)
  BY <1>1, <1>2
<1>5. Lies(s, Len(w1) - Len(b1), b1)
  <2>1. Lies(s, 0 + Len(h1), b1)
    BY <1>2, <1>3, LiesSplit, Zenon
  <2> QED BY <2>1, <1>4
<1>6. Lies(s, Len(s) - Len(b2), b2)
  <2>1. Lies(s, Len(w1) + Len(h2), b2)
    BY <1>2, <1>3, LiesSplit, Zenon
  <2> QED BY <2>1, <1>4
<1>7. Len(w1) \in 1..Len(s) - 1 /\ Len(b1) < Len(w1) /\ Len(b2) < Len(s) - Len(w1)
  BY <1>1, <1>2, <1>4
<1> QED BY <1>2, <1>3, <1>5, <1>6, <1>7 DEF Fills, Filled

(* At the beginning nothing is there, at the end nothing is left.           *)
EndsWell(s, x, b1, b2) ==
  /\ StateAt(s, x, b1, b2, 0) = NothingRead
  /\ StateAt(s, x, b1, b2, Len(s)) = [out |-> <<b1, b2>>, rest |-> << >>]

(* At the beginning nothing is there, at the end both messages are, and     *)
(* nothing is left.                                                         *)
LEMMA StateEnds ==
  ASSUME NEW s, NEW x, NEW b1, NEW b2, Fills(s, x, b1, b2)
  PROVE  EndsWell(s, x, b1, b2)
<1>1. s \in Seq(Nat) /\ Len(s) \in Nat /\ x \in 1..Len(s) - 1
  BY DEF Fills
<1>2. 0 \in 0..Len(s) /\ Len(s) \in 0..Len(s) /\ 0 < x /\ ~(Len(s) < x) /\ ~(Len(s) < Len(s))
  BY <1>1
<1>3. Part(s, 0, 0) = << >> /\ Part(s, Len(s), Len(s)) = << >>
  BY <1>1, <1>2, NoPart
<1>4. /\ OutAt(s, x, b1, b2, 0) = << >> /\ FromAt(s, x, 0) = 0
      /\ OutAt(s, x, b1, b2, Len(s)) = <<b1, b2>> /\ FromAt(s, x, Len(s)) = Len(s)
  BY <1>2 DEF OutAt, FromAt
<1> QED BY <1>3, <1>4 DEF StateAt, NothingRead, EndsWell

PiecesOf(s, i, j) ==
  <<SubSeq(s, 1, i), SubSeq(s, i + 1, j), SubSeq(s, j + 1, Len(s))>>

(* The pieces a stream is cut into are its parts.                           *)
LEMMA PiecesAre ==
  ASSUME NEW s, NEW i, NEW j
  PROVE  PiecesOf(s, i, j) = <<Part(s, 0, i), Part(s, i, j), Part(s, j, Len(s))>>
<1>1. 0 + 1 = 1
  OBVIOUS
<1> QED BY <1>1 DEF PiecesOf, Part

(* Cut anywhere twice, two packets are taken whole from the stream.         *)
LEMMA MqttCuts ==
  ASSUME NEW b1 \in Seq(Nat), NEW b2 \in Seq(Nat), NEW s, s = MqttPacket(b1) \o MqttPacket(b2),
         NEW i \in 0..Len(s), NEW j \in i..Len(s)
  PROVE  HandleClient(PiecesOf(s, i, j)) = [out |-> <<b1, b2>>, rest |-> << >>]
<1> DEFINE w1 == MqttPacket(b1)
           w2 == MqttPacket(b2)
           x == Len(w1)
           h1 == <<Type>> \o EncodeRemainingLength(Len(b1))
           h2 == <<Type>> \o EncodeRemainingLength(Len(b2))
           State(c) == StateAt(s, x, b1, b2, c)
<1>1. ASSUME NEW n \in Nat
      PROVE  LET h == <<Type>> \o EncodeRemainingLength(n) IN h \in Seq(Nat) /\ Len(h) > 0
  <2>1. EncodeRemainingLength(n) \in Seq(Nat)
    BY EncodedLengthIs DEF Marked
  <2>2. Type \in Nat /\ <<Type>> \in Seq(Nat) /\ Len(<<Type>>) = 1
    BY DEF Type
  <2> HIDE DEF Type
  <2>3. Len(EncodeRemainingLength(n)) \in Nat
    BY <2>1
  <2> QED BY <2>1, <2>2, <2>3, ConcatProperties
<1>2. h1 \in Seq(Nat) /\ Len(h1) > 0 /\ h2 \in Seq(Nat) /\ Len(h2) > 0
  <2>1. Len(b1) \in Nat /\ Len(b2) \in Nat
    OBVIOUS
  <2> QED BY <1>1, <2>1
<1>3. w1 = h1 \o b1 /\ w2 = h2 \o b2 /\ s = w1 \o w2
  BY DEF MqttPacket
<1> HIDE DEF h1, h2
<1>4. MqttFills(s, x, b1, b2)
  <2>1. Filled(s, w1, w2, b1, b2)
    <3> HIDE DEF w1, w2
    <3>1. b1 \in Seq(Nat) /\ b2 \in Seq(Nat)
      OBVIOUS
    <3> QED BY <1>2, <1>3, <3>1, TwoFill
  <2> QED BY <2>1 DEF MqttFills, Filled
<1>5. Fills(s, x, b1, b2) /\ Len(s) \in Nat
  BY <1>4 DEF MqttFills, Fills
<1> HIDE DEF x, w1, w2
<1>6. /\ 0 \in 0..Len(s) /\ i \in 0..Len(s) /\ j \in 0..Len(s)
      /\ j \in i..Len(s) /\ Len(s) \in j..Len(s)
  BY <1>5
<1>7. Handled(State(0), Part(s, 0, i), MqttCut) = State(i)
  BY <1>4, <1>6, MqttHandled, ZenonT(30)
<1>8. Handled(State(i), Part(s, i, j), MqttCut) = State(j)
  BY <1>4, <1>6, MqttHandled, ZenonT(30)
<1>9. Handled(State(j), Part(s, j, Len(s)), MqttCut) = State(Len(s))
  BY <1>4, <1>6, MqttHandled, ZenonT(30)
<1>10. State(0) = NothingRead /\ State(Len(s)) = [out |-> <<b1, b2>>, rest |-> << >>]
  <2>1. EndsWell(s, x, b1, b2)
    BY <1>5, StateEnds
  <2> QED BY <2>1 DEF EndsWell
<1> DEFINE p == Part(s, 0, i)
           q == Part(s, i, j)
           r == Part(s, j, Len(s))
<1>11. HandleClient(<<p, q, r>>)
         = Handled(Handled(Handled(NothingRead, p, MqttCut), q, MqttCut), r, MqttCut)
  BY MqttFolded
<1>12. PiecesOf(s, i, j) = <<p, q, r>>
  BY PiecesAre
<1> HIDE DEF State
<1> QED BY <1>7, <1>8, <1>9, <1>10, <1>11, <1>12

(* So are two frames of a QUIC stream, without those that cannot be         *)
(* deserialized.                                                            *)
LEMMA QuicCuts ==
  ASSUME NEW b1 \in Seq(Nat), NEW b2 \in Seq(Nat),
         Len(b1) <= MaxBody, Len(b2) <= MaxBody, NEW s, s = QuicMessage(b1) \o QuicMessage(b2),
         NEW i \in 0..Len(s), NEW j \in i..Len(s)
  PROVE  HandleStreamData(PiecesOf(s, i, j))
           = [out |-> SelectSeq(<<b1, b2>>, Parses), rest |-> << >>]
<1> DEFINE w1 == QuicMessage(b1)
           w2 == QuicMessage(b2)
           x == Len(w1)
           h1 == FixedLength(Len(b1))
           h2 == FixedLength(Len(b2))
           State(c) == StateAt(s, x, b1, b2, c)
<1>2. h1 \in Seq(Nat) /\ Len(h1) > 0 /\ h2 \in Seq(Nat) /\ Len(h2) > 0
  <2>1. Len(b1) \in 0..MaxBody /\ Len(b2) \in 0..MaxBody /\ Digits > 0
    BY BodiesAssumption
  <2> QED BY <2>1, FixedIs
<1>3. w1 = h1 \o b1 /\ w2 = h2 \o b2 /\ s = w1 \o w2
  BY DEF QuicMessage
<1> HIDE DEF h1, h2
<1>4. QuicFills(s, x, b1, b2)
  <2>1. Filled(s, w1, w2, b1, b2)
    <3> HIDE DEF w1, w2
    <3>1. b1 \in Seq(Nat) /\ b2 \in Seq(Nat)
      OBVIOUS
    <3> QED BY <1>2, <1>3, <3>1, TwoFill
  <2> QED BY <2>1 DEF QuicFills, Filled
<1>5. Fills(s, x, b1, b2) /\ Len(s) \in Nat
  BY <1>4 DEF QuicFills, Fills
<1> HIDE DEF x, w1, w2
<1>6. /\ 0 \in 0..Len(s) /\ i \in 0..Len(s) /\ j \in 0..Len(s)
      /\ j \in i..Len(s) /\ Len(s) \in j..Len(s)
  BY <1>5
<1>7. Handled(State(0), Part(s, 0, i), QuicCut) = State(i)
  BY <1>4, <1>6, QuicHandled, ZenonT(30)
<1>8. Handled(State(i), Part(s, i, j), QuicCut) = State(j)
  BY <1>4, <1>6, QuicHandled, ZenonT(30)
<1>9. Handled(State(j), Part(s, j, Len(s)), QuicCut) = State(Len(s))
  BY <1>4, <1>6, QuicHandled, ZenonT(30)
<1>10. State(0) = NothingRead /\ State(Len(s)) = [out |-> <<b1, b2>>, rest |-> << >>]
  <2>1. EndsWell(s, x, b1, b2)
    BY <1>5, StateEnds
  <2> QED BY <2>1 DEF EndsWell
<1> DEFINE p == Part(s, 0, i)
           q == Part(s, i, j)
           r == Part(s, j, Len(s))
<1>11. HandleStreamData(<<p, q, r>>)
         = [Handled(Handled(Handled(NothingRead, p, QuicCut), q, QuicCut), r, QuicCut)
              EXCEPT !.out = SelectSeq(@, Parses)]
  BY QuicFolded
<1>12. PiecesOf(s, i, j) = <<p, q, r>>
  BY PiecesAre
<1> HIDE DEF State, p, q, r
<1>13. Handled(Handled(Handled(NothingRead, p, QuicCut), q, QuicCut), r, QuicCut)
         = [out |-> <<b1, b2>>, rest |-> << >>]
  BY <1>7, <1>8, <1>9, <1>10 DEF p, q, r
<1> QED BY <1>11, <1>12, <1>13

-----------------------------------------------------------------------------
(* One piece of a socket is read.                                           *)
Receive(n, state, piece) ==
  LET lacking == n - Len(state.got)
      taken == IF lacking < Len(piece) THEN lacking ELSE Len(piece)
  IN  [got |-> state.got \o SubSeq(piece, 1, taken),
       socket |-> Append(state.socket, SubSeq(piece, taken + 1, Len(piece)))]

(* How far is read when a piece ends at w.                                  *)
ReadTo(c, n, w) == AtLeast(c, UpTo(c + n, w))

(* A piece of a socket: what is taken of it goes behind what was got, and   *)
(* the rest of it stays.                                                    *)
LEMMA ReceiveIs ==
  ASSUME NEW s \in Seq(Nat), NEW L \in 0..Len(s), NEW v \in 0..L, NEW w \in v..L,
         NEW c \in 0..L, NEW n \in Nat, NEW q
  PROVE  Receive(n, [got |-> Part(s, c, ReadTo(c, n, v)), socket |-> q],
                 Part(s, AtLeast(c, v), w))
           = [got |-> Part(s, c, ReadTo(c, n, w)),
              socket |-> Append(q, Part(s, AtLeast(UpTo(c + n, L), v), w))]
<1> DEFINE u == AtLeast(c, v)
           g == ReadTo(c, n, v)
           h == ReadTo(c, n, w)
           d == AtLeast(UpTo(c + n, L), v)
           got == Part(s, c, g)
           piece == Part(s, u, w)
           lacking == n - Len(got)
           taken == IF lacking < Len(piece) THEN lacking ELSE Len(piece)
<1>1. /\ L \in Nat /\ v \in Nat /\ w \in Nat /\ c \in Nat /\ Len(s) \in Nat
      /\ v <= w /\ w <= L /\ c <= L /\ L <= Len(s)
  OBVIOUS
<1>2. /\ u \in 0..Len(s) /\ g \in c..Len(s) /\ h \in c..Len(s) /\ d \in 0..Len(s)
      /\ w \in 0..Len(s) /\ c \in 0..Len(s)
      /\ g \in 0..Len(s) /\ h \in 0..Len(s) /\ c <= g /\ c <= h
  BY <1>1 DEF AtLeast, UpTo, ReadTo
<1>3. Len(got) = g - c /\ got \in Seq(Nat)
  <2> HIDE DEF g
  <2> QED BY <1>2, PartIs
<1>4. Len(piece) = (IF u <= w THEN w - u ELSE 0) /\ piece \in Seq(Nat)
  <2> HIDE DEF u
  <2> QED BY <1>2, PartIs
<1> HIDE DEF got, piece
<1>5. Receive(n, [got |-> got, socket |-> q], piece)
        = [got |-> got \o SubSeq(piece, 1, taken),
           socket |-> Append(q, SubSeq(piece, taken + 1, Len(piece)))]
  BY DEF Receive
<1>6. SubSeq(piece, 1, taken) = Part(piece, 0, taken)
      /\ SubSeq(piece, taken + 1, Len(piece)) = Part(piece, taken, Len(piece))
  <2>1. 0 + 1 = 1
    OBVIOUS
  <2> QED BY <2>1 DEF Part
<1>7. CASE c + n <= v
  <2>1. g = c + n /\ h = c + n /\ d = v /\ u = v /\ lacking = 0
    BY <1>1, <1>3, <1>7 DEF AtLeast, UpTo, ReadTo
  <2>2. taken = 0 /\ Len(piece) \in Nat
    BY <1>1, <1>4, <2>1
  <2>3. Part(piece, 0, 0) = << >>
    <3>1. 0 \in 0..Len(piece) /\ 0 <= 0
      BY <2>2
    <3> QED BY <1>4, <3>1, NoPart
  <2>4. Part(piece, 0, Len(piece)) = piece
    <3>1. 0 + 1 = 1
      OBVIOUS
    <3> QED BY <1>4, <3>1, SubSeqFull DEF Part
  <2>5. got \o << >> = got
    BY <1>3, ConcatEmptySeq
  <2>6. piece = Part(s, d, w) /\ got = Part(s, c, h)
    BY <2>1 DEF piece, got
  <2> HIDE DEF taken, lacking, u, g, h, d
  <2>7. Receive(n, [got |-> got, socket |-> q], piece)
          = [got |-> Part(s, c, h), socket |-> Append(q, Part(s, d, w))]
    BY <1>5, <1>6, <2>2, <2>3, <2>4, <2>5, <2>6
  <2> QED BY <2>7 DEF got, piece, u, g, h, d
<1>8. CASE c + n > v /\ w <= u
  <2>1. g = u /\ h = u /\ w <= d /\ lacking \in Nat /\ Len(piece) = 0
    BY <1>1, <1>3, <1>4, <1>8 DEF AtLeast, UpTo, ReadTo
  <2>2. taken = 0
    BY <2>1
  <2>3. Part(piece, 0, 0) = << >>
    <3>1. 0 \in 0..Len(piece) /\ 0 <= 0
      BY <2>1
    <3> QED BY <1>4, <3>1, NoPart
  <2>4. Part(s, d, w) = << >>
    <3> HIDE DEF d
    <3> QED BY <1>2, <2>1, NoPart
  <2>5. got \o << >> = got
    BY <1>3, ConcatEmptySeq
  <2>6. got = Part(s, c, h)
    BY <2>1 DEF got
  <2> HIDE DEF taken, lacking, u, g, h, d
  <2>7. Receive(n, [got |-> got, socket |-> q], piece)
          = [got |-> Part(s, c, h), socket |-> Append(q, Part(s, d, w))]
    BY <1>5, <1>6, <2>1, <2>2, <2>3, <2>4, <2>5, <2>6
  <2> QED BY <2>7 DEF got, piece, u, g, h, d
<1>9. CASE c + n > v /\ w > u
  <2>1. /\ g = u /\ lacking = (c + n) - u /\ Len(piece) = w - u
        /\ h = UpTo(c + n, w) /\ u \in Nat /\ u <= w
    BY <1>1, <1>3, <1>4, <1>9 DEF AtLeast, UpTo, ReadTo
  <2>2. taken \in 0..w - u /\ u + taken = h
    <3>1. u <= c + n
      BY <1>1, <1>9 DEF AtLeast
    <3>2. taken = IF (c + n) - u < w - u THEN (c + n) - u ELSE w - u
      BY <2>1
    <3>3. h = IF c + n < w THEN c + n ELSE w
      BY <2>1 DEF UpTo
    <3> HIDE DEF taken, h, u
    <3> QED BY <1>1, <2>1, <3>1, <3>2, <3>3
  <2>3. IF c + n <= w THEN d = h ELSE h = w /\ d >= w
    BY <1>1, <2>1, <1>9 DEF UpTo, AtLeast
  <2> HIDE DEF taken, lacking
  <2>4. Part(piece, 0, taken) = Part(s, u, h)
    <3>1. w \in u..Len(s) /\ 0 \in 0..w - u /\ u + 0 = u
      BY <1>2, <2>1, <2>2
    <3> HIDE DEF u, h
    <3>2. Part(Part(s, u, w), 0, taken) = Part(s, u + 0, u + taken)
      BY <1>2, <2>2, <3>1, PartOfPart
    <3> QED BY <2>2, <3>1, <3>2 DEF piece
  <2>5. Part(piece, taken, Len(piece)) = Part(s, h, w)
    <3> DEFINE e == w - u
    <3>1. w \in u..Len(s) /\ e \in 0..w - u /\ u + e = w
      <4>1. u \in Nat /\ u <= w /\ w \in 0..Len(s)
        BY <1>2, <2>1
      <4> HIDE DEF u
      <4> QED BY <4>1
    <3>2. Len(piece) = e
      BY <2>1
    <3> HIDE DEF e, u, h
    <3>3. Part(Part(s, u, w), taken, e) = Part(s, u + taken, u + e)
      BY <1>2, <2>2, <3>1, PartOfPart
    <3> QED BY <2>2, <3>1, <3>2, <3>3 DEF piece
  <2>6. got \o Part(s, u, h) = Part(s, c, h)
    <3>1. got = Part(s, c, u) /\ u \in c..Len(s) /\ h \in u..Len(s)
      <4>1. u <= h /\ c <= u
        BY <1>2, <2>1, <2>2
      <4> QED BY <1>2, <2>1, <4>1 DEF got
    <3> HIDE DEF u, h
    <3> QED BY <1>2, <3>1, PartsJoin
  <2>7. Part(s, h, w) = Part(s, d, w)
    <3>1. CASE c + n <= w
      BY <2>3, <3>1
    <3>2. CASE ~(c + n <= w)
      <4>1. h \in 0..Len(s) /\ d \in 0..Len(s) /\ w <= h /\ w <= d
        BY <1>1, <1>2, <2>3, <3>2
      <4> HIDE DEF h, d
      <4>2. Part(s, h, w) = << >> /\ Part(s, d, w) = << >>
        BY <1>2, <4>1, NoPart
      <4> QED BY <4>2
    <3> QED BY <3>1, <3>2
  <2> HIDE DEF u, g, h, d
  <2>8. Receive(n, [got |-> got, socket |-> q], piece)
          = [got |-> Part(s, c, h), socket |-> Append(q, Part(s, d, w))]
    BY <1>5, <1>6, <2>4, <2>5, <2>6, <2>7
  <2> QED BY <2>8 DEF got, piece, u, g, h, d
<1>10. u \in Int /\ c + n \in Int
  BY <1>1 DEF AtLeast
<1> QED BY <1>1, <1>7, <1>8, <1>9, <1>10

-----------------------------------------------------------------------------
NothingGot == [got |-> << >>, socket |-> << >>]

(* A socket of two pieces or three, one after the other.                    *)
LEMMA ReceiveFolded ==
  ASSUME NEW n, NEW p, NEW m \in 2..3, DOMAIN p = 1..m
  PROVE  LET one == Receive(n, NothingGot, p[1])
             two == Receive(n, one, p[2])
         IN  RecvExactly(p, n) = IF m = 3 THEN Receive(n, two, p[3]) ELSE two
<1> DEFINE H(state, i) == Receive(n, state, p[i])
           A1(t) == IF 1 \in t THEN H(NothingGot, 1) ELSE NothingGot
           A2(t) == IF 2 \in t THEN H(A1(t), 2) ELSE A1(t)
           A3(t) == IF 3 \in t THEN H(A2(t), 3) ELSE A2(t)
           D == SUBSET (1..m)
           Folds(g) == g = [t \in D |-> IF t = {} THEN NothingGot
                                        ELSE H(g[t \ {Max(t)}], Max(t))]
           f == CHOOSE g : Folds(g)
<1>1. m \in 1..3
  OBVIOUS
<1>2. RecvExactly(p, n) = f[1..m]
  <2> HIDE DEF D
  <2>1. D = SUBSET (DOMAIN p)
    BY DEF D
  <2>2. RecvExactly(p, n) = f[DOMAIN p]
    BY <2>1 DEF RecvExactly, FoldLeft, MapThenFoldSet, Receive, NothingGot
  <2> QED BY <2>2
<1>3. \E g : Folds(g)
  <2> DEFINE g == [t \in D |-> A3(t)]
  <2> HIDE DEF H
  <2>1. ASSUME NEW t \in D
        PROVE  g[t] = IF t = {} THEN NothingGot ELSE H(g[t \ {Max(t)}], Max(t))
    <3>1. t \ {Max(t)} \in D
      OBVIOUS
    <3>2. /\ 3 \in t => Max(t) = 3
          /\ 3 \notin t /\ 2 \in t => Max(t) = 2
          /\ 3 \notin t /\ 2 \notin t /\ 1 \in t => Max(t) = 1
          /\ 3 \notin t /\ 2 \notin t /\ 1 \notin t => t = {}
      BY <1>1, LastOfThree
    <3> HIDE DEF D
    <3>3. g[t] = A3(t) /\ g[t \ {Max(t)}] = A3(t \ {Max(t)})
      BY <3>1
    <3>4. CASE 3 \in t
      BY <3>2, <3>3, <3>4
    <3>5. CASE 3 \notin t /\ 2 \in t
      BY <3>2, <3>3, <3>5
    <3>6. CASE 3 \notin t /\ 2 \notin t
      BY <3>2, <3>3, <3>6
    <3> QED BY <3>4, <3>5, <3>6
  <2>2. g = [t \in D |-> IF t = {} THEN NothingGot ELSE H(g[t \ {Max(t)}], Max(t))]
    <3> HIDE DEF D, H
    <3>1. g = [t \in D |-> g[t]]
      OBVIOUS
    <3> HIDE DEF g
    <3> QED BY <2>1, <3>1
  <2> HIDE DEF g
  <2> QED BY <2>2
<1>4. Folds(f)
  <2> HIDE DEF H, D
  <2> QED BY <1>3
<1> HIDE DEF f
<1>5. ASSUME NEW t \in D, t # {} PROVE f[t] = H(f[t \ {Max(t)}], Max(t))
  <2> HIDE DEF H, D
  <2> QED BY <1>4, <1>5
<1>6. f[{}] = NothingGot
  <2>1. {} \in D
    OBVIOUS
  <2> HIDE DEF H, D
  <2> QED BY <1>4, <2>1
<1>7. /\ {1} \in D /\ {1, 2} \in D /\ {1, 2} = 1..2
      /\ m = 3 => {1, 2, 3} \in D /\ {1, 2, 3} = 1..3
  OBVIOUS
<1>8. Max({1}) = 1 /\ Max({1, 2}) = 2 /\ (m = 3 => Max({1, 2, 3}) = 3)
  BY <1>1, <1>7, LastOfThree
<1>9. {1} \ {1} = {} /\ {1, 2} \ {2} = {1} /\ {1, 2, 3} \ {3} = {1, 2}
  OBVIOUS
<1>10. f[{1}] = H(NothingGot, 1)
  <2> HIDE DEF H, D
  <2> QED BY <1>5, <1>6, <1>7, <1>8, <1>9
<1>11. f[{1, 2}] = H(f[{1}], 2)
  <2> HIDE DEF H, D
  <2> QED BY <1>5, <1>7, <1>8, <1>9
<1>12. m = 3 => f[{1, 2, 3}] = H(f[{1, 2}], 3)
  <2> HIDE DEF H, D
  <2> QED BY <1>5, <1>7, <1>8, <1>9
<1>13. m = 3 \/ m = 2
  OBVIOUS
<1> HIDE DEF D
<1> QED BY <1>2, <1>7, <1>10, <1>11, <1>12, <1>13

(* One element more.                                                        *)
LEMMA Appended ==
  ASSUME NEW x, NEW y, NEW z
  PROVE  Append(<<x>>, y) = <<x, y>> /\ Append(<<x, y>>, z) = <<x, y, z>>
<1> DEFINE S == {x, y, z}
           t == Append(<<x>>, y)
           u == Append(<<x, y>>, z)
<1>1. /\ <<x>> \in Seq(S) /\ <<x, y>> \in Seq(S) /\ <<x, y, z>> \in Seq(S) /\ y \in S /\ z \in S
      /\ Len(<<x>>) = 1 /\ Len(<<x, y>>) = 2 /\ Len(<<x, y, z>>) = 3
  OBVIOUS
<1>2. /\ t \in Seq(S) /\ Len(t) = 2 /\ t[2] = y /\ t[1] = x
      /\ u \in Seq(S) /\ Len(u) = 3 /\ u[3] = z /\ u[1] = x /\ u[2] = y
  <2> HIDE DEF S
  <2>1. /\ t \in Seq(S) /\ Len(t) = Len(<<x>>) + 1
        /\ \A i \in 1..Len(<<x>>) : t[i] = <<x>>[i]
        /\ t[Len(<<x>>) + 1] = y
    BY <1>1, AppendProperties
  <2>2. /\ u \in Seq(S) /\ Len(u) = Len(<<x, y>>) + 1
        /\ \A i \in 1..Len(<<x, y>>) : u[i] = <<x, y>>[i]
        /\ u[Len(<<x, y>>) + 1] = z
    BY <1>1, AppendProperties
  <2> HIDE DEF t, u
  <2>3. Len(t) = 2 /\ t[2] = y /\ t[1] = <<x>>[1]
    BY <1>1, <2>1
  <2>4. Len(u) = 3 /\ u[3] = z /\ u[1] = <<x, y>>[1] /\ u[2] = <<x, y>>[2]
    BY <1>1, <2>2
  <2> QED BY <2>1, <2>2, <2>3, <2>4
<1> HIDE DEF S, t, u
<1>3. t = <<x, y>> /\ u = <<x, y, z>>
  <2>1. t = <<x, y>>
    BY <1>1, <1>2, SeqEqual
  <2>2. u = <<x, y, z>>
    BY <1>1, <1>2, SeqEqual
  <2> QED BY <2>1, <2>2
<1> QED BY <1>3 DEF t, u

(* A socket holds what lies between c and L, in two pieces or three.        *)
HoldsTwo(q, s, L, c) ==
  \E v \in 0..L : q = <<Part(s, c, v), Part(s, AtLeast(c, v), L)>>
HoldsThree(q, s, L, c) ==
  \E v \in 0..L : \E w \in v..L :
    q = <<Part(s, c, v), Part(s, AtLeast(c, v), w), Part(s, AtLeast(c, w), L)>>
Holds(q, s, L, c) == HoldsTwo(q, s, L, c) \/ HoldsThree(q, s, L, c)

(* _recv_exactly() gives the next n bytes, or all of them when fewer have   *)
(* arrived, and what is behind them stays in the socket.                    *)
LEMMA ReceivedIs ==
  ASSUME NEW s \in Seq(Nat), NEW L \in 0..Len(s), NEW c \in 0..L, NEW n \in Nat,
         NEW q, Holds(q, s, L, c)
  PROVE  /\ RecvExactly(q, n).got = Part(s, c, UpTo(c + n, L))
         /\ Holds(RecvExactly(q, n).socket, s, L, UpTo(c + n, L))
<1> DEFINE d == UpTo(c + n, L)
           GotTo(w) == Part(s, c, ReadTo(c, n, w))
           Left(v, w) == Part(s, AtLeast(d, v), w)
<1>1. /\ L \in Nat /\ c \in Nat /\ 0 <= c /\ d \in 0..L /\ c <= d
      /\ c <= c + n /\ AtLeast(c, 0) = c /\ AtLeast(d, 0) = d
  BY DEF UpTo, AtLeast
<1>2. NothingGot = [got |-> GotTo(0), socket |-> << >>]
  <2>1. ReadTo(c, n, 0) = c
    BY <1>1 DEF ReadTo, UpTo, AtLeast
  <2>2. Part(s, c, c) = << >>
    <3>1. c \in 0..Len(s) /\ c <= c
      OBVIOUS
    <3> QED BY <3>1, NoPart
  <2> QED BY <2>1, <2>2 DEF NothingGot
<1>3. ReadTo(c, n, L) = d
  BY <1>1 DEF ReadTo, UpTo, AtLeast
<1> HIDE DEF GotTo, Left
<1>4. ASSUME NEW v \in 0..L, NEW w \in v..L, NEW old
      PROVE  Receive(n, [got |-> GotTo(v), socket |-> old], Part(s, AtLeast(c, v), w))
               = [got |-> GotTo(w), socket |-> Append(old, Left(v, w))]
  BY ReceiveIs DEF GotTo, Left
<1>5. ASSUME NEW v \in 0..L
      PROVE  Receive(n, NothingGot, Part(s, c, v)) = [got |-> GotTo(v), socket |-> <<Left(0, v)>>]
  <2>1. 0 \in 0..L /\ v \in 0..L
    OBVIOUS
  <2>2. Receive(n, [got |-> GotTo(0), socket |-> << >>], Part(s, AtLeast(c, 0), v))
          = [got |-> GotTo(v), socket |-> Append(<< >>, Left(0, v))]
    BY <1>4, <2>1
  <2>3. Append(<< >>, Left(0, v)) = <<Left(0, v)>>
    OBVIOUS
  <2> QED BY <1>1, <1>2, <2>2, <2>3
<1>6. \A v \in 0..L : Left(0, v) = Part(s, d, v)
  BY <1>1 DEF Left
<1>7. CASE HoldsTwo(q, s, L, c)
  <2>1. PICK v \in 0..L : q = <<Part(s, c, v), Part(s, AtLeast(c, v), L)>>
    BY <1>7 DEF HoldsTwo
  <2>2. /\ DOMAIN q = 1..2 /\ q[1] = Part(s, c, v) /\ q[2] = Part(s, AtLeast(c, v), L)
        /\ 2 \in 2..3 /\ L \in v..L
    BY <2>1
  <2>3. RecvExactly(q, n) = Receive(n, Receive(n, NothingGot, q[1]), q[2])
    BY <2>2, ReceiveFolded
  <2>4. Receive(n, NothingGot, q[1]) = [got |-> GotTo(v), socket |-> <<Left(0, v)>>]
    BY <1>5, <2>2
  <2>5. RecvExactly(q, n) = [got |-> GotTo(L), socket |-> Append(<<Left(0, v)>>, Left(v, L))]
    BY <1>4, <2>2, <2>3, <2>4
  <2>6. Append(<<Left(0, v)>>, Left(v, L)) = <<Left(0, v), Left(v, L)>>
    BY Appended
  <2>7. HoldsTwo(RecvExactly(q, n).socket, s, L, d)
    BY <1>6, <2>5, <2>6 DEF HoldsTwo, Left
  <2> QED BY <1>3, <2>5, <2>7 DEF GotTo, Holds
<1>8. CASE HoldsThree(q, s, L, c)
  <2>1. PICK v \in 0..L : \E w \in v..L :
          q = <<Part(s, c, v), Part(s, AtLeast(c, v), w), Part(s, AtLeast(c, w), L)>>
    BY <1>8 DEF HoldsThree
  <2>2. PICK w \in v..L :
          q = <<Part(s, c, v), Part(s, AtLeast(c, v), w), Part(s, AtLeast(c, w), L)>>
    BY <2>1
  <2>3. /\ DOMAIN q = 1..3 /\ q[1] = Part(s, c, v) /\ q[2] = Part(s, AtLeast(c, v), w)
        /\ q[3] = Part(s, AtLeast(c, w), L)
        /\ 3 \in 2..3 /\ w \in 0..L /\ L \in w..L
    BY <2>2
  <2>4. RecvExactly(q, n) = Receive(n, Receive(n, Receive(n, NothingGot, q[1]), q[2]), q[3])
    BY <2>3, ReceiveFolded
  <2>5. Receive(n, NothingGot, q[1]) = [got |-> GotTo(v), socket |-> <<Left(0, v)>>]
    BY <1>5, <2>3
  <2>6. Receive(n, Receive(n, NothingGot, q[1]), q[2])
          = [got |-> GotTo(w), socket |-> Append(<<Left(0, v)>>, Left(v, w))]
    BY <1>4, <2>3, <2>5
  <2>7. Append(<<Left(0, v)>>, Left(v, w)) = <<Left(0, v), Left(v, w)>>
    BY Appended
  <2>8. RecvExactly(q, n)
          = [got |-> GotTo(L), socket |-> Append(<<Left(0, v), Left(v, w)>>, Left(w, L))]
    BY <1>4, <2>3, <2>4, <2>6, <2>7
  <2>9. Append(<<Left(0, v), Left(v, w)>>, Left(w, L)) = <<Left(0, v), Left(v, w), Left(w, L)>>
    BY Appended
  <2>10. HoldsThree(RecvExactly(q, n).socket, s, L, d)
    BY <1>6, <2>3, <2>8, <2>9 DEF HoldsThree, Left
  <2> QED BY <1>3, <2>8, <2>10 DEF GotTo, Holds
<1> QED BY <1>7, <1>8 DEF Holds

-----------------------------------------------------------------------------
SaidOf(body) ==
  IF Parses(body) THEN [result |-> "frame", body |-> body]
  ELSE [result |-> "unreadable", body |-> << >>]
Closed == [result |-> "closed", body |-> << >>]
Told(r) == [result |-> r.result, body |-> r.body]

(* What recv_frame does with the frame of b at a, of which the bytes up to  *)
(* L arrive.                                                                *)
FrameGiven(q, s, L, a, b) ==
  LET z == a + Len(SendFrame(b))
  IN  IF z <= L THEN Told(RecvFrame(q)) = SaidOf(b) /\ Holds(RecvFrame(q).socket, s, L, z)
      ELSE Told(RecvFrame(q)) = Closed /\ Holds(RecvFrame(q).socket, s, L, L)

(* What send_frame writes: a magic number and a version, the length, and    *)
(* the body.                                                                *)
LEMMA FrameIs ==
  ASSUME NEW b \in Seq(Nat), Len(b) <= MaxBody
  PROVE  LET head == <<TcpMagic, TcpVersion>> \o FixedLength(Len(b))
         IN  /\ head \in Seq(Nat) /\ Len(head) = TcpHeader
             /\ head[1] = TcpMagic /\ head[2] = TcpVersion
             /\ SubSeq(head, 3, TcpHeader) = FixedLength(Len(b))
             /\ SendFrame(b) = head \o b
             /\ Len(SendFrame(b)) = TcpHeader + Len(b)
<1> DEFINE two == <<TcpMagic, TcpVersion>>
           f == FixedLength(Len(b))
           head == two \o f
<1>1. Len(b) \in 0..MaxBody /\ Digits \in Nat
  BY BodiesAssumption, FramingAssumption
<1>2. f \in Seq(Nat) /\ Len(f) = Digits
  BY <1>1, FixedIs
<1>3. two \in Seq(Nat) /\ Len(two) = 2 /\ two[1] = TcpMagic /\ two[2] = TcpVersion
  BY DEF TcpMagic, TcpVersion
<1> HIDE DEF two, f
<1>4. /\ head \in Seq(Nat) /\ Len(head) = Len(two) + Len(f)
      /\ \A i \in 1..Len(two) + Len(f) : head[i] = IF i <= Len(two) THEN two[i] ELSE f[i - Len(two)]
  BY <1>2, <1>3, ConcatProperties
<1>5. Lies(head, Len(two), f)
  BY <1>2, <1>3, LiesWhole
<1> HIDE DEF head
<1>6. Len(head) = TcpHeader /\ head[1] = TcpMagic /\ head[2] = TcpVersion
  <2>1. Len(head) = 2 + Digits
    BY <1>2, <1>3, <1>4
  <2>2. 1 \in 1..Len(two) + Len(f) /\ 2 \in 1..Len(two) + Len(f)
        /\ 1 <= Len(two) /\ 2 <= Len(two)
    BY <1>1, <1>2, <1>3
  <2>3. head[1] = two[1] /\ head[2] = two[2]
    BY <1>4, <2>2
  <2> QED BY <1>3, <2>1, <2>3 DEF TcpHeader
<1>7. SubSeq(head, 3, TcpHeader) = f
  <2>1. Part(head, 2, 2 + Digits) = f
    <3>1. Lies(head, 2, f) /\ 2 + Digits = 2 + Len(f)
      BY <1>2, <1>3, <1>5
    <3> QED BY <1>4, <3>1, LiesInPart
  <2>2. 2 + 1 = 3
    OBVIOUS
  <2> QED BY <2>1, <2>2 DEF Part, TcpHeader
<1>8. SendFrame(b) = head \o b
  BY DEF SendFrame, head, two, f
<1>9. Len(SendFrame(b)) = TcpHeader + Len(b)
  BY <1>4, <1>6, <1>8, ConcatProperties
<1> QED BY <1>4, <1>6, <1>7, <1>8, <1>9 DEF head, two, f

(* recv_frame gives the frame that lies at a, if all of it has arrived,     *)
(* and the socket holds what is behind it; if not, it fails, and nothing    *)
(* is left.                                                                 *)
LEMMA FrameReceived ==
  ASSUME NEW s \in Seq(Nat), NEW a, NEW b \in Seq(Nat), Len(b) <= MaxBody,
         Lies(s, a, SendFrame(b)), NEW L \in 0..Len(s), a <= L, NEW q, Holds(q, s, L, a)
  PROVE  FrameGiven(q, s, L, a, b)
<1> DEFINE n == Len(b)
           H == TcpHeader
           w == SendFrame(b)
           z == a + Len(w)
           head == <<TcpMagic, TcpVersion>> \o FixedLength(n)
           header == RecvExactly(q, H)
           data == RecvExactly(header.socket, n)
           far == UpTo(a + H, L)
<1>1. /\ head \in Seq(Nat) /\ Len(head) = H
      /\ head[1] = TcpMagic /\ head[2] = TcpVersion
      /\ SubSeq(head, 3, H) = FixedLength(n)
      /\ w = head \o b /\ Len(w) = H + n
  BY FrameIs
<1>2. a \in Nat /\ L \in Nat /\ Len(s) \in Nat /\ n \in Nat /\ H \in Nat /\ L <= Len(s) /\ H >= 2
      /\ n \in 0..MaxBody
  BY FramingAssumption, BodiesAssumption DEF TcpHeader, Lies
<1>3. Lies(s, a, head) /\ Lies(s, a + H, b)
  <2>0. Lies(s, a, head \o b)
    BY <1>1
  <2> HIDE DEF head, w
  <2>1. Lies(s, a, head) /\ Lies(s, a + Len(head), b)
    BY <1>1, <2>0, LiesSplit, Zenon
  <2> QED BY <1>1, <2>1
<1>4. Remaining(Reverse(SubSeq(head, 3, H))) = n
  <2>1. DigitsOf(Reverse(FixedLength(n)), n)
    BY <1>2, FixedIs
  <2>2. Remaining(Reverse(FixedLength(n))) = n
    BY <1>2, <2>1, RemainingIs
  <2> QED BY <1>1, <2>2
<1>5. RecvFrame(q) =
        IF Len(header.got) < H THEN Failing("closed", header.socket)
        ELSE LET m == Remaining(Reverse(SubSeq(header.got, 3, H)))
                 d == RecvExactly(header.socket, m)
             IN  IF header.got[1] # TcpMagic \/ header.got[2] # TcpVersion
                 THEN Failing("protocol", header.socket)
                 ELSE IF Len(d.got) < m THEN Failing("closed", d.socket)
                 ELSE IF ~Parses(d.got) THEN Failing("unreadable", d.socket)
                 ELSE [result |-> "frame", body |-> d.got, socket |-> d.socket]
  BY DEF RecvFrame
<1> HIDE DEF head, H, w
<1>6. header.got = Part(s, a, far) /\ Holds(header.socket, s, L, far)
  <2>1. a \in 0..L /\ Holds(q, s, L, a)
    BY <1>2
  <2> QED BY <1>2, <2>1, ReceivedIs
<1>7. CASE a + H > L
  <2>1. far = L
    BY <1>2, <1>7 DEF UpTo
  <2>2. Len(header.got) = L - a
    <3>1. a \in 0..Len(s) /\ L \in 0..Len(s)
      BY <1>2
    <3>2. Len(Part(s, a, L)) = L - a
      BY <3>1, PartIs
    <3> QED BY <1>6, <2>1, <3>2
  <2> HIDE DEF header
  <2>3. RecvFrame(q) = Failing("closed", header.socket)
    BY <1>2, <1>5, <1>7, <2>2
  <2>4. ~(z <= L)
    BY <1>1, <1>2, <1>7
  <2>5. Told(RecvFrame(q)) = Closed /\ RecvFrame(q).socket = header.socket
    BY <2>3 DEF Told, Closed, Failing
  <2> QED BY <1>6, <2>1, <2>4, <2>5 DEF FrameGiven, w
<1>8. CASE a + H <= L
  <2>1. far = a + H
    BY <1>2, <1>8 DEF UpTo
  <2>2. header.got = head
    <3>1. Part(s, a, a + H) = head
      BY <1>1, <1>3, LiesInPart
    <3> QED BY <1>6, <2>1, <3>1
  <2>3. RecvFrame(q) =
          IF Len(data.got) < n THEN Failing("closed", data.socket)
          ELSE IF ~Parses(data.got) THEN Failing("unreadable", data.socket)
          ELSE [result |-> "frame", body |-> data.got, socket |-> data.socket]
    <3> HIDE DEF n, header
    <3> QED BY <1>1, <1>2, <1>4, <1>5, <2>2, SMTT(20)
  <2>4. /\ data.got = Part(s, a + H, UpTo((a + H) + n, L))
        /\ Holds(data.socket, s, L, UpTo((a + H) + n, L))
    <3>1. a + H \in 0..L /\ Holds(header.socket, s, L, a + H)
      BY <1>2, <1>6, <1>8, <2>1
    <3> HIDE DEF header
    <3> QED BY <1>2, <3>1, ReceivedIs
  <2>5. z = (a + H) + n
    BY <1>1, <1>2
  <2> HIDE DEF data
  <2>6. CASE z <= L
    <3>1. UpTo((a + H) + n, L) = z
      <4> HIDE DEF z
      <4> QED BY <1>2, <2>5, <2>6 DEF UpTo
    <3>2. data.got = b
      <4>1. Part(s, a + H, (a + H) + n) = b
        BY <1>3, LiesInPart
      <4> QED BY <2>4, <2>5, <3>1, <4>1
    <3>3. ~(Len(data.got) < n)
      BY <1>2, <3>2
    <3>4. Told(RecvFrame(q)) = SaidOf(b) /\ RecvFrame(q).socket = data.socket
      BY <2>3, <3>2, <3>3 DEF Told, SaidOf, Failing
    <3> QED BY <2>4, <2>6, <3>1, <3>4 DEF FrameGiven, w
  <2>7. CASE ~(z <= L)
    <3>1. UpTo((a + H) + n, L) = L
      BY <1>2, <2>5, <2>7 DEF UpTo
    <3>2. Len(data.got) < n
      <4>1. a + H \in 0..Len(s) /\ L \in 0..Len(s)
        BY <1>2, <1>8
      <4>2. Len(Part(s, a + H, L)) = L - (a + H)
        <5> DEFINE e == a + H
        <5>1. e \in 0..Len(s) /\ e <= L
          BY <4>1, <1>8
        <5> HIDE DEF e
        <5>2. Len(Part(s, e, L)) = L - e
          BY <4>1, <5>1, PartIs
        <5> QED BY <5>2 DEF e
      <4>3. Len(data.got) = L - (a + H)
        BY <2>4, <3>1, <4>2
      <4> QED BY <1>2, <2>5, <2>7, <4>3
    <3>3. Told(RecvFrame(q)) = Closed /\ RecvFrame(q).socket = data.socket
      BY <2>3, <3>2 DEF Told, Closed, Failing
    <3> QED BY <2>4, <2>7, <3>1, <3>3 DEF FrameGiven, w
  <2> QED BY <2>6, <2>7
<1> QED BY <1>2, <1>7, <1>8

(* With nothing left, recv_frame fails and nothing changes.                 *)
LEMMA NothingReceived ==
  ASSUME NEW s \in Seq(Nat), NEW L \in 0..Len(s), NEW q, Holds(q, s, L, L)
  PROVE  Told(RecvFrame(q)) = Closed /\ Holds(RecvFrame(q).socket, s, L, L)
<1> DEFINE H == TcpHeader
           header == RecvExactly(q, H)
<1>1. H \in Nat /\ H >= 2 /\ L \in Nat
  BY FramingAssumption DEF TcpHeader
<1>2. UpTo(L + H, L) = L
  BY <1>1 DEF UpTo
<1> HIDE DEF H
<1>3. header.got = Part(s, L, L) /\ Holds(header.socket, s, L, L)
  <2>1. L \in 0..L
    BY <1>1
  <2>2. /\ header.got = Part(s, L, UpTo(L + H, L))
        /\ Holds(header.socket, s, L, UpTo(L + H, L))
    BY <1>1, <2>1, ReceivedIs
  <2> QED BY <1>2, <2>2
<1>4. Len(header.got) = 0
  BY <1>3, PartIs
<1>5. RecvFrame(q) = Failing("closed", header.socket)
  BY <1>1, <1>4 DEF RecvFrame, H
<1> QED BY <1>3, <1>5 DEF Told, Closed, Failing

-----------------------------------------------------------------------------
CallsOf(calls, q, n) ==
  calls = [i \in 0..n |->
             IF i = 0 THEN [got |-> << >>, socket |-> q]
             ELSE LET next == RecvFrame(calls[i - 1].socket)
                  IN  [got |-> Append(calls[i - 1].got,
                                      [result |-> next.result, body |-> next.body]),
                       socket |-> next.socket]]

(* Two calls or three of recv_frame, one after the other.                   *)
LEMMA CallsGive ==
  ASSUME NEW q, NEW n \in 2..3,
         NEW q1, q1 = RecvFrame(q).socket, NEW q2, q2 = RecvFrame(q1).socket,
         NEW r1, r1 = Told(RecvFrame(q)), NEW r2, r2 = Told(RecvFrame(q1)),
         NEW r3, r3 = Told(RecvFrame(q2))
  PROVE  RecvFrames(q, n) = IF n = 3 THEN <<r1, r2, r3>> ELSE <<r1, r2>>
<1> DEFINE q3 == RecvFrame(q2).socket
           After(c) == [got |-> Append(c.got, Told(RecvFrame(c.socket))),
                        socket |-> RecvFrame(c.socket).socket]
           c0 == [got |-> << >>, socket |-> q]
           c1 == [got |-> <<r1>>, socket |-> q1]
           c2 == [got |-> <<r1, r2>>, socket |-> q2]
           c3 == [got |-> <<r1, r2, r3>>, socket |-> q3]
           calls == CHOOSE c : CallsOf(c, q, n)
<1>1. Append(<< >>, r1) = <<r1>> /\ Append(<<r1>>, r2) = <<r1, r2>>
      /\ Append(<<r1, r2>>, r3) = <<r1, r2, r3>>
  BY Appended
<1>2. After(c0) = c1 /\ After(c1) = c2 /\ After(c2) = c3
  BY <1>1
<1>3. \A c : CallsOf(c, q, n) <=> c = [i \in 0..n |-> IF i = 0 THEN c0 ELSE After(c[i - 1])]
  BY DEF CallsOf, Told
<1> HIDE DEF c0, c1, c2, c3, After
<1>4. \E c : CallsOf(c, q, n)
  <2> DEFINE c == [i \in 0..n |-> IF i = 0 THEN c0 ELSE IF i = 1 THEN c1
                                  ELSE IF i = 2 THEN c2 ELSE c3]
  <2>1. ASSUME NEW i \in 0..n PROVE c[i] = IF i = 0 THEN c0 ELSE After(c[i - 1])
    <3>1. i = 0 \/ i = 1 \/ i = 2 \/ i = 3
      OBVIOUS
    <3>2. CASE i = 0
      BY <3>2
    <3>3. CASE i = 1
      <4>1. i - 1 = 0 /\ 0 \in 0..n
        BY <3>3
      <4> QED BY <1>2, <3>3, <4>1
    <3>4. CASE i = 2
      <4>1. i - 1 = 1 /\ 1 \in 0..n
        BY <3>4
      <4> QED BY <1>2, <3>4, <4>1
    <3>5. CASE i = 3
      <4>1. i - 1 = 2 /\ 2 \in 0..n
        BY <3>5
      <4> QED BY <1>2, <3>5, <4>1
    <3> QED BY <3>1, <3>2, <3>3, <3>4, <3>5
  <2>2. c = [i \in 0..n |-> IF i = 0 THEN c0 ELSE After(c[i - 1])]
    <3>1. c = [i \in 0..n |-> c[i]]
      OBVIOUS
    <3> HIDE DEF c
    <3> QED BY <2>1, <3>1
  <2> HIDE DEF c
  <2> QED BY <1>3, <2>2
<1>5. CallsOf(calls, q, n)
  BY <1>4
<1>6. RecvFrames(q, n) = calls[n].got
  BY DEF RecvFrames, CallsOf
<1> HIDE DEF calls
<1>7. \A i \in 0..n : calls[i] = IF i = 0 THEN c0 ELSE After(calls[i - 1])
  BY <1>3, <1>5
<1>8. 0 \in 0..n /\ 1 \in 0..n /\ 2 \in 0..n /\ n \in 0..n /\ (n = 2 \/ n = 3)
      /\ 1 - 1 = 0 /\ 2 - 1 = 1 /\ 3 - 1 = 2
  OBVIOUS
<1>9. calls[0] = c0 /\ calls[1] = After(calls[0]) /\ calls[2] = After(calls[1])
      /\ (n = 3 => calls[3] = After(calls[2]))
  <2>1. calls[0] = c0
    BY <1>7, <1>8
  <2>2. calls[1] = After(calls[0])
    BY <1>7, <1>8
  <2>3. calls[2] = After(calls[1])
    BY <1>7, <1>8
  <2>4. n = 3 => calls[3] = After(calls[2])
    BY <1>7, <1>8
  <2> QED BY <2>1, <2>2, <2>3, <2>4
<1>10. calls[2] = c2 /\ (n = 3 => calls[3] = c3)
  BY <1>2, <1>9
<1> QED BY <1>6, <1>8, <1>10 DEF c2, c3

(* What the calls give of the frames of b1 and b2, of which L bytes arrive. *)
FramesGiven(q, s, L, b1, b2) ==
  LET first == Len(SendFrame(b1))
      both == first + Len(SendFrame(b2))
      r1 == IF first <= L THEN SaidOf(b1) ELSE Closed
      r2 == IF both <= L THEN SaidOf(b2) ELSE Closed
  IN  /\ RecvFrames(q, 2) = <<r1, r2>>
      /\ L = Len(s) => RecvFrames(q, 3) = <<SaidOf(b1), SaidOf(b2), Closed>>

(* Each call gives the next frame that has arrived whole, and fails when    *)
(* none is left.                                                            *)
LEMMA FramesReceived ==
  ASSUME NEW b1 \in Seq(Nat), NEW b2 \in Seq(Nat), Len(b1) <= MaxBody, Len(b2) <= MaxBody,
         NEW s, s = SendFrame(b1) \o SendFrame(b2), NEW L \in 0..Len(s), NEW q, Holds(q, s, L, 0)
  PROVE  FramesGiven(q, s, L, b1, b2)
<1> DEFINE w1 == SendFrame(b1)
           w2 == SendFrame(b2)
           first == Len(w1)
           both == first + Len(w2)
           r1 == IF first <= L THEN SaidOf(b1) ELSE Closed
           r2 == IF both <= L THEN SaidOf(b2) ELSE Closed
           q1 == RecvFrame(q).socket
           q2 == RecvFrame(q1).socket
           t1 == Told(RecvFrame(q))
           t2 == Told(RecvFrame(q1))
           t3 == Told(RecvFrame(q2))
<1>1. ASSUME NEW b \in Seq(Nat), Len(b) <= MaxBody
      PROVE  SendFrame(b) \in Seq(Nat) /\ Len(SendFrame(b)) \in Nat
  <2> DEFINE head == <<TcpMagic, TcpVersion>> \o FixedLength(Len(b))
  <2>1. head \in Seq(Nat) /\ SendFrame(b) = head \o b
    BY <1>1, FrameIs
  <2> HIDE DEF head
  <2>2. SendFrame(b) \in Seq(Nat)
    BY <2>1, ConcatProperties
  <2> QED BY <2>2
<1>2. /\ w1 \in Seq(Nat) /\ w2 \in Seq(Nat) /\ first \in Nat /\ Len(w2) \in Nat
  BY <1>1
<1>3. /\ s \in Seq(Nat) /\ Len(s) = both /\ Lies(s, 0, w1) /\ Lies(s, first, w2)
      /\ 0 + first = first /\ L \in Nat /\ L <= both
  <2> HIDE DEF w1, w2
  <2>1. s = w1 \o w2
    BY DEF w1, w2
  <2>2. s \in Seq(Nat) /\ Len(s) = Len(w1) + Len(w2)
    BY <1>2, <2>1, ConcatProperties
  <2>3. Lies(s, 0, w1) /\ Lies(s, Len(w1), w2)
    BY <1>2, <2>1, LiesWhole
  <2> QED BY <1>2, <2>2, <2>3
<1>4. FrameGiven(q, s, L, 0, b1)
  <2>1. 0 <= L /\ Holds(q, s, L, 0)
    BY <1>3
  <2>2. Lies(s, 0, SendFrame(b1))
    <3>1. Lies(s, 0, w1)
      BY <1>3
    <3> QED BY <3>1 DEF w1
  <2>3. s \in Seq(Nat)
    BY <1>3
  <2> HIDE DEF w1, w2, first, both, r1, r2, q1, q2, t1, t2, t3
  <2> QED BY <2>1, <2>2, <2>3, FrameReceived
<1>5. IF first <= L THEN t1 = SaidOf(b1) /\ Holds(q1, s, L, first)
      ELSE t1 = Closed /\ Holds(q1, s, L, L)
  <2>1. LET z == 0 + first
        IN  IF z <= L THEN t1 = SaidOf(b1) /\ Holds(q1, s, L, z)
            ELSE t1 = Closed /\ Holds(q1, s, L, L)
    BY <1>4 DEF FrameGiven
  <2> HIDE DEF t1, q1, first
  <2> QED BY <1>3, <2>1
<1>6. first <= L => IF both <= L THEN t2 = SaidOf(b2) /\ Holds(q2, s, L, both)
                    ELSE t2 = Closed /\ Holds(q2, s, L, L)
  <2> SUFFICES ASSUME first <= L
               PROVE  IF both <= L THEN t2 = SaidOf(b2) /\ Holds(q2, s, L, both)
                      ELSE t2 = Closed /\ Holds(q2, s, L, L)
    OBVIOUS
  <2>1. FrameGiven(q1, s, L, first, b2)
    <3> HIDE DEF q1, first
    <3>1. Holds(q1, s, L, first)
      BY <1>5
    <3> QED BY <1>3, <3>1, FrameReceived
  <2> QED BY <2>1 DEF FrameGiven
<1>7. ~(first <= L) => t2 = Closed /\ Holds(q2, s, L, L) /\ ~(both <= L)
  <2> SUFFICES ASSUME ~(first <= L)
               PROVE  t2 = Closed /\ Holds(q2, s, L, L) /\ ~(both <= L)
    OBVIOUS
  <2>1. Holds(q1, s, L, L)
    BY <1>5
  <2>2. t2 = Closed /\ Holds(q2, s, L, L)
    <3> HIDE DEF q1
    <3> QED BY <1>3, <2>1, NothingReceived
  <2> QED BY <1>2, <1>3, <2>2
<1>8. L = Len(s) => t3 = Closed
  <2> SUFFICES ASSUME L = Len(s) PROVE t3 = Closed
    OBVIOUS
  <2>1. Holds(q2, s, L, L)
    <3>1. first <= L /\ both <= L /\ both = L
      BY <1>2, <1>3
    <3> HIDE DEF first, both, q2, t2
    <3> QED BY <1>6, <3>1
  <2> HIDE DEF q2
  <2> QED BY <1>3, <2>1, NothingReceived
<1> HIDE DEF first, both, q1, q2, t1, t2, t3
<1>9. t1 = r1 /\ t2 = r2
  BY <1>2, <1>3, <1>5, <1>6, <1>7 DEF both
<1>10. RecvFrames(q, 2) = <<t1, t2>> /\ RecvFrames(q, 3) = <<t1, t2, t3>>
  <2>1. /\ q1 = RecvFrame(q).socket /\ q2 = RecvFrame(q1).socket
        /\ t1 = Told(RecvFrame(q)) /\ t2 = Told(RecvFrame(q1)) /\ t3 = Told(RecvFrame(q2))
    BY DEF q1, q2, t1, t2, t3
  <2>2. \A n \in 2..3 : RecvFrames(q, n) = IF n = 3 THEN <<t1, t2, t3>> ELSE <<t1, t2>>
    BY <2>1, CallsGive
  <2> QED BY <2>2
<1>11. L = Len(s) => t1 = SaidOf(b1) /\ t2 = SaidOf(b2)
  BY <1>2, <1>3, <1>9 DEF both
<1>12. RecvFrames(q, 2) = <<r1, r2>>
  BY <1>9, <1>10
<1>13. L = Len(s) => RecvFrames(q, 3) = <<SaidOf(b1), SaidOf(b2), Closed>>
  BY <1>8, <1>10, <1>11
<1> QED BY <1>12, <1>13 DEF FramesGiven, first, both, w1, w2

-----------------------------------------------------------------------------
(* A whole stream arrives in three pieces; of the first two, j bytes.       *)
LEMMA PiecesHold ==
  ASSUME NEW s \in Seq(Nat), NEW i \in 0..Len(s), NEW j \in i..Len(s),
         NEW p, p = PiecesOf(s, i, j)
  PROVE  /\ Holds(p, s, Len(s), 0) /\ Holds(SubSeq(p, 1, 2), s, j, 0)
         /\ Len(p[1]) + Len(p[2]) = j
<1> DEFINE L == Len(s)
<1>1. /\ L \in Nat /\ i \in 0..L /\ j \in 0..L /\ i \in 0..j /\ i \in Nat /\ j \in Nat
      /\ 0 \in 0..L /\ i <= j
  OBVIOUS
<1>2. AtLeast(0, i) = i /\ AtLeast(0, j) = j
  BY <1>1 DEF AtLeast
<1>3. p = <<Part(s, 0, i), Part(s, i, j), Part(s, j, L)>>
  BY PiecesAre
<1>4. HoldsThree(p, s, L, 0)
  <2>1. i \in 0..L /\ j \in i..L
    OBVIOUS
  <2> HIDE DEF L
  <2> QED BY <1>2, <1>3, <2>1 DEF HoldsThree
<1>5. Len(Part(s, 0, i)) = i /\ Len(Part(s, i, j)) = j - i
  <2>1. Len(Part(s, 0, i)) = i - 0
    BY <1>1, PartIs
  <2>2. Len(Part(s, i, j)) = j - i
    BY <1>1, PartIs
  <2> QED BY <1>1, <2>1, <2>2
<1> DEFINE u == Part(s, 0, i)
           v == Part(s, i, j)
           w == Part(s, j, L)
<1>6. p = <<u, v, w>>
  BY <1>3
<1> HIDE DEF u, v, w, L
<1>7. SubSeq(p, 1, 2) = <<u, v>> /\ p[1] = u /\ p[2] = v
  <2> DEFINE S == {u, v, w}
  <2>1. p \in Seq(S) /\ Len(p) = 3 /\ p[1] = u /\ p[2] = v
    BY <1>6
  <2> HIDE DEF S
  <2>2. SubSeq(p, 1, 2) \in Seq(S) /\ Len(SubSeq(p, 1, 2)) = 2
        /\ SubSeq(p, 1, 2)[1] = p[1] /\ SubSeq(p, 1, 2)[2] = p[2]
    <3>1. \A k \in 1..2 : p[k] \in S
      <4> TAKE k \in 1..2
      <4>1. k \in 1..Len(p)
        BY <2>1
      <4> QED BY <2>1, <4>1, ElementOfSeq
    <3>2. 1 \in Int /\ 2 \in Int
      OBVIOUS
    <3>3. /\ SubSeq(p, 1, 2) \in Seq(S) /\ Len(SubSeq(p, 1, 2)) = 2
          /\ \A k \in 1..2 : SubSeq(p, 1, 2)[k] = p[1 + k - 1]
      BY <3>1, <3>2, SubSeqProperties
    <3>4. 1 \in 1..2 /\ 2 \in 1..2 /\ 1 + 1 - 1 = 1 /\ 1 + 2 - 1 = 2
      OBVIOUS
    <3> QED BY <3>3, <3>4
  <2> DEFINE t == SubSeq(p, 1, 2)
  <2>3. t = <<t[1], t[2]>>
    <3>1. t \in Seq(S) /\ Len(t) = 2
      BY <2>2
    <3> HIDE DEF t
    <3> QED BY <3>1
  <2> QED BY <2>1, <2>2, <2>3
<1>8. HoldsTwo(SubSeq(p, 1, 2), s, j, 0)
  BY <1>1, <1>2, <1>7 DEF HoldsTwo, u, v
<1>9. Len(p[1]) + Len(p[2]) = j
  BY <1>1, <1>5, <1>7 DEF u, v
<1> QED BY <1>4, <1>8, <1>9 DEF Holds, L

(* Bodies are sequences of bytes, of a size that a length can say.          *)
LEMMA BodiesAre ==
  ASSUME NEW b \in Bodies
  PROVE  b \in Seq(Nat) /\ Len(b) <= MaxBody
<1>1. PICK n \in 0..MaxBody, x \in {0, Base, Bad} : b \in [1..n -> {x}]
  BY DEF Bodies
<1>2. x \in Nat /\ n \in Nat /\ n <= MaxBody
  BY FramingAssumption, BodiesAssumption
<1>3. b \in [1..n -> Nat]
  BY <1>1, <1>2
<1> QED BY <1>2, <1>3

(* What CutsIntoMessages says of one stream, cut at i and j.                *)
SocketRight(x, y, p) ==
  LET first == Len(SendFrame(x))
      both == first + Len(SendFrame(y))
      arrived == Len(p[1]) + Len(p[2])
  IN  /\ RecvFrames(p, 3) = <<SaidOf(x), SaidOf(y), Closed>>
      /\ RecvFrames(SubSeq(p, 1, 2), 2)
           = <<IF first <= arrived THEN SaidOf(x) ELSE Closed,
               IF both <= arrived THEN SaidOf(y) ELSE Closed>>

(* Cut anywhere twice, two frames are received from a socket as             *)
(* CutsIntoMessages says.                                                   *)
LEMMA SocketCuts ==
  ASSUME NEW x \in Bodies, NEW y \in Bodies, NEW s, s = SendFrame(x) \o SendFrame(y),
         NEW i \in 0..Len(s), NEW j \in i..Len(s), NEW p, p = PiecesOf(s, i, j)
  PROVE  SocketRight(x, y, p)
<1>1. x \in Seq(Nat) /\ y \in Seq(Nat) /\ Len(x) <= MaxBody /\ Len(y) <= MaxBody
  BY BodiesAre
<1>2. s \in Seq(Nat)
  <2>1. ASSUME NEW b \in Seq(Nat), Len(b) <= MaxBody PROVE SendFrame(b) \in Seq(Nat)
    <3> DEFINE head == <<TcpMagic, TcpVersion>> \o FixedLength(Len(b))
    <3>1. head \in Seq(Nat) /\ SendFrame(b) = head \o b
      BY <2>1, FrameIs
    <3> HIDE DEF head
    <3> QED BY <3>1, ConcatProperties
  <2>2. SendFrame(x) \in Seq(Nat) /\ SendFrame(y) \in Seq(Nat)
    BY <1>1, <2>1
  <2> DEFINE a == SendFrame(x)
             b == SendFrame(y)
  <2>3. a \in Seq(Nat) /\ b \in Seq(Nat) /\ s = a \o b
    BY <2>2
  <2> HIDE DEF a, b
  <2> QED BY <2>3, ConcatProperties
<1>3. Len(s) \in 0..Len(s) /\ j \in 0..Len(s)
  BY <1>2
<1>4. /\ Holds(p, s, Len(s), 0) /\ Holds(SubSeq(p, 1, 2), s, j, 0)
      /\ Len(p[1]) + Len(p[2]) = j
  BY <1>2, PiecesHold
<1>5. RecvFrames(p, 3) = <<SaidOf(x), SaidOf(y), Closed>>
  <2>1. FramesGiven(p, s, Len(s), x, y)
    BY <1>1, <1>3, <1>4, FramesReceived
  <2> QED BY <2>1 DEF FramesGiven
<1>6. FramesGiven(SubSeq(p, 1, 2), s, j, x, y)
  BY <1>1, <1>3, <1>4, FramesReceived
<1> QED BY <1>4, <1>5, <1>6 DEF SocketRight, FramesGiven

(* A stream that is picked is cut as CutsIntoMessages says.                 *)
LEMMA StreamRight ==
  ASSUME PickStream PROVE CutsIntoMessages' /\ case'.of \in {"mqtt", "quic", "tcp"}
<1> DEFINE Wire(over, body) == CASE over = "mqtt" -> MqttPacket(body)
                                 [] over = "quic" -> QuicMessage(body)
                                 [] OTHER -> SendFrame(body)
<1>1. PICK over \in {"mqtt", "quic", "tcp"}, x \in Bodies, y \in Bodies :
        \E i, j \in 0..Len(Wire(over, x) \o Wire(over, y)) :
          /\ i <= j
          /\ case' = [of |-> over, bodies |-> <<x, y>>,
                      pieces |-> PiecesOf(Wire(over, x) \o Wire(over, y), i, j)]
  BY DEF PickStream, PiecesOf
<1> DEFINE s == Wire(over, x) \o Wire(over, y)
<1>2. PICK i \in 0..Len(s), j \in 0..Len(s) :
        /\ i <= j
        /\ case' = [of |-> over, bodies |-> <<x, y>>, pieces |-> PiecesOf(s, i, j)]
  BY <1>1
<1>3. j \in i..Len(s)
  BY <1>2
<1>4. x \in Seq(Nat) /\ y \in Seq(Nat) /\ Len(x) <= MaxBody /\ Len(y) <= MaxBody
  BY BodiesAre
<1> DEFINE p == PiecesOf(s, i, j)
<1>5. case'.of = over /\ case'.bodies = <<x, y>> /\ case'.pieces = p
      /\ case'.bodies[1] = x /\ case'.bodies[2] = y
  <2> HIDE DEF p
  <2> QED BY <1>2 DEF p
<1>6. CASE over = "mqtt"
  <2>1. s = MqttPacket(x) \o MqttPacket(y)
    BY <1>6
  <2> HIDE DEF s
  <2>2. HandleClient(p) = [out |-> <<x, y>>, rest |-> << >>]
    BY <1>3, <1>4, <2>1, MqttCuts
  <2> HIDE DEF p
  <2> QED BY <1>5, <1>6, <2>2 DEF CutsIntoMessages
<1>7. CASE over = "quic"
  <2>1. s = QuicMessage(x) \o QuicMessage(y)
    BY <1>7
  <2> HIDE DEF s
  <2>2. HandleStreamData(p) = [out |-> SelectSeq(<<x, y>>, Parses), rest |-> << >>]
    BY <1>3, <1>4, <2>1, QuicCuts
  <2> HIDE DEF p
  <2> QED BY <1>5, <1>7, <2>2 DEF CutsIntoMessages
<1>8. CASE over = "tcp"
  <2>1. s = SendFrame(x) \o SendFrame(y)
    BY <1>8
  <2> HIDE DEF s
  <2>2. SocketRight(x, y, p)
    BY <1>3, <2>1, SocketCuts
  <2> HIDE DEF p
  <2> QED BY <1>5, <1>8, <2>2 DEF CutsIntoMessages, SocketRight, SaidOf, Closed
<1> QED BY <1>1, <1>6, <1>7, <1>8

(* However the bytes of two messages are cut by reads, even inside a length,*)
(* QDAPBroker.handle_client takes exactly its two packets from them and     *)
(* QDAPQUICAdapter._handle_stream_data those of its two frames that can be  *)
(* deserialized, in order, with nothing left over; QDAPOverTCP.recv_frame   *)
(* gives each frame that has arrived whole or says that it cannot be read,  *)
(* and fails after them.  (broker.py:46, quic/adapter.py:182,               *)
(* tcp_adapter.py:54)                                                       *)
THEOREM StreamsAreCut == Spec => []CutsIntoMessages
<1>1. Init => CutsIntoMessages
  BY DEF Init, NoCase, CutsIntoMessages
<1>2. CutsIntoMessages /\ [Next]_case => CutsIntoMessages'
  <2>1. CASE UNCHANGED case
    BY <2>1 DEF CutsIntoMessages
  <2>2. case'.of \notin {"mqtt", "quic", "tcp"} => CutsIntoMessages'
    BY DEF CutsIntoMessages
  <2>3. PickTopic \/ PickBlock \/ PickGroup \/ PickBatches \/ PickStreams \/ PickPath
          => case'.of \notin {"mqtt", "quic", "tcp"}
    <3>1. PickTopic => case'.of = "topic"
      BY DEF PickTopic
    <3>2. PickBlock => case'.of = "block"
      BY DEF PickBlock
    <3>3. PickGroup => case'.of = "group"
      BY DEF PickGroup
    <3>4. PickBatches \/ PickStreams \/ PickPath => case'.of \in {"batches", "streams", "path"}
      BY DEF PickBatches, PickStreams, PickPath
    <3> QED BY <3>1, <3>2, <3>3, <3>4
  <2>4. {"mqtt", "quic", "tcp"} \cap OtherKinds = {}
    BY DEF OtherKinds
  <2>5. Next => PickStream \/ case'.of \notin {"mqtt", "quic", "tcp"}
    BY OtherPicks, <2>3, <2>4
  <2> QED BY <2>1, <2>2, <2>5, StreamRight
<1> QED BY <1>1, <1>2, PTL DEF Spec

-----------------------------------------------------------------------------
(* The powers of two that a length can be compared with.                    *)
LEMMA PowersOfTwo ==
  /\ \A e \in 0..30 : 2^e \in Nat /\ 2^(e + 1) = 2 * 2^e
  /\ 2^0 = 1 /\ 2^31 \in Nat /\ 1024 * MB < 2^31
<1> DEFINE P(e) == 2^e
<1>1. /\ P(0) = 1 /\ P(1) = 2 /\ P(2) = 4 /\ P(3) = 8
      /\ P(4) = 16 /\ P(5) = 32 /\ P(6) = 64 /\ P(7) = 128
      /\ P(8) = 256 /\ P(9) = 512 /\ P(10) = 1024 /\ P(11) = 2048
      /\ P(12) = 4096 /\ P(13) = 8192 /\ P(14) = 16384 /\ P(15) = 32768
      /\ P(16) = 65536 /\ P(17) = 131072 /\ P(18) = 262144 /\ P(19) = 524288
      /\ P(20) = 1048576 /\ P(21) = 2097152 /\ P(22) = 4194304 /\ P(23) = 8388608
      /\ P(24) = 16777216 /\ P(25) = 33554432 /\ P(26) = 67108864 /\ P(27) = 134217728
      /\ P(28) = 268435456 /\ P(29) = 536870912 /\ P(30) = 1073741824 /\ P(31) = 2147483648
  BY SMT
<1> HIDE DEF P
<1>2. ASSUME NEW e \in 0..30 PROVE P(e) \in Nat /\ P(e + 1) = 2 * P(e)
  <2>1. \/ e = 0 \/ e = 1 \/ e = 2 \/ e = 3 \/ e = 4 \/ e = 5 \/ e = 6 \/ e = 7
        \/ e = 8 \/ e = 9 \/ e = 10 \/ e = 11 \/ e = 12 \/ e = 13 \/ e = 14 \/ e = 15
        \/ e = 16 \/ e = 17 \/ e = 18 \/ e = 19 \/ e = 20 \/ e = 21 \/ e = 22 \/ e = 23
        \/ e = 24 \/ e = 25 \/ e = 26 \/ e = 27 \/ e = 28 \/ e = 29 \/ e = 30
    OBVIOUS
  <2> QED BY <1>1, <2>1, SMT
<1>3. P(31) \in Nat /\ 1024 * MB < P(31) /\ P(0) = 1
  BY <1>1, SMT DEF MB, KB
<1> QED BY <1>2, <1>3, SMT DEF P

(* A number has a greatest power of two below it.                           *)
LEMMA FloorIs ==
  ASSUME NEW n \in Nat, 1 <= n, n < 2^31
  PROVE  \E p \in Nat : NextPowerOfTwoFloor(n) = p /\ p <= n /\ n < 2 * p
<1> DEFINE P(x) == 2^x
           Below(x) == P(x) <= n /\ n < P(x + 1)
           last == CHOOSE x \in 0..30 : Below(x)
<1>1. NextPowerOfTwoFloor(n) = P(last)
  BY DEF NextPowerOfTwoFloor
<1>2. (\A x \in 0..30 : P(x) \in Nat /\ P(x + 1) = 2 * P(x)) /\ P(0) = 1 /\ n < P(31)
  BY PowersOfTwo
<1> HIDE DEF P
<1>3. \E x \in 0..30 : Below(x)
  <2> SUFFICES ASSUME \A x \in 0..30 : ~Below(x) PROVE FALSE
    OBVIOUS
  <2> DEFINE T == {x \in Nat : x <= 31 => P(x) \in Nat /\ P(x) <= n}
  <2>1. 0 \in T
    BY <1>2
  <2>2. ASSUME NEW x \in T \cap Nat PROVE x + 1 \in T
    <3> SUFFICES ASSUME x + 1 <= 31 PROVE P(x + 1) \in Nat /\ P(x + 1) <= n
      OBVIOUS
    <3>1. x \in 0..30 /\ P(x) <= n
      BY <2>2
    <3>2. P(x) \in Nat /\ P(x + 1) = 2 * P(x)
      BY <3>1, <1>2
    <3>3. ~(n < P(x + 1))
      BY <3>1
    <3> QED BY <3>2, <3>3
  <2>3. Nat \subseteq T
    <3> HIDE DEF T
    <3> QED BY <2>1, <2>2, AllNaturals
  <2>4. 31 \in T
    BY <2>3
  <2>5. P(31) \in Nat /\ P(31) <= n
    BY <2>4
  <2> QED BY <1>2, <2>5
<1>4. last \in 0..30 /\ Below(last)
  BY <1>3
<1> HIDE DEF last
<1>5. P(last) \in Nat /\ P(last) <= n /\ n < 2 * P(last)
  BY <1>2, <1>4
<1> QED BY <1>1, <1>5

PathRight(size, path) ==
  LET chunk == CalculateOptimalChunkSize(size, path.rtt, path.bandwidth)
      useful == UpTo((path.rtt * path.bandwidth * 125) \div 4, size)
  IN  /\ Micro <= chunk /\ chunk <= Jumbo
      /\ chunk <= useful \/ chunk = Micro
      /\ useful < 2 * chunk \/ chunk = Jumbo

(* Sizes that have a name, in bytes.                                        *)
LEMMA SizesAre == KB = 1024 /\ MB = 1048576 /\ Micro = 4096 /\ Jumbo = 1048576
BY SMT DEF Micro, Jumbo, KB, MB

(* The chunk for a path is as PlansTileThePayload says.                     *)
LEMMA PathPlanned ==
  ASSUME NEW size \in Nat, size < 2^31, NEW path, path.rtt \in Nat, path.bandwidth \in Nat
  PROVE  PathRight(size, path)
<1> DEFINE flight == path.bandwidth * 125 * path.rtt
           n == UpTo(AtLeast(flight \div 4, Micro), size)
           floor == NextPowerOfTwoFloor(n)
           chunk == UpTo(AtLeast(floor, Micro), Jumbo)
           useful == UpTo(flight \div 4, size)
<1>1. flight \in Nat /\ path.rtt * path.bandwidth * 125 = flight
  <2>1. PICK r \in Nat, b \in Nat : r = path.rtt /\ b = path.bandwidth
    OBVIOUS
  <2>2. b * 125 * r \in Nat /\ r * b * 125 = b * 125 * r
    OBVIOUS
  <2> QED BY <2>1, <2>2
<1>2. Micro = 4096 /\ Jumbo = 1048576
  BY SizesAre
<1>3. size \in Nat /\ size < 2^31 /\ 2^31 \in Nat
  BY PowersOfTwo
<1>4. flight \div 4 \in Nat
  BY <1>1
<1> DEFINE quarter == flight \div 4
<1>5. CalculateOptimalChunkSize(size, path.rtt, path.bandwidth) = chunk
  BY DEF CalculateOptimalChunkSize
<1> HIDE DEF flight
<1>6. quarter \in Nat
  BY <1>4
<1> HIDE DEF quarter
<1>7. useful = UpTo(quarter, size) /\ n = UpTo(AtLeast(quarter, Micro), size)
  BY DEF quarter
<1> HIDE DEF useful, n
<1>8. useful \in Nat /\ n \in Nat /\ n <= size /\ useful <= n /\ (n = useful \/ n <= 4096)
      /\ (quarter >= 4096 => n = useful)
  BY <1>2, <1>3, <1>6, <1>7 DEF UpTo, AtLeast
<1>9. floor \in Nat /\ ((floor <= n /\ n < 2 * floor) \/ (n = 0 /\ floor = 4096))
  <2>1. CASE n = 0
    BY <2>1 DEF NextPowerOfTwoFloor
  <2>2. CASE n # 0
    <3>1. n \in Nat /\ 1 <= n /\ n < 2^31
      BY <1>3, <1>8, <2>2
    <3> QED BY <3>1, FloorIs
  <2> QED BY <2>1, <2>2
<1> HIDE DEF floor
<1>10. /\ 4096 <= chunk /\ chunk <= 1048576
       /\ chunk <= useful \/ chunk = 4096
       /\ useful < 2 * chunk \/ chunk = 1048576
  BY <1>2, <1>3, <1>6, <1>8, <1>9 DEF UpTo, AtLeast
<1> HIDE DEF chunk
<1> QED BY <1>1, <1>2, <1>5, <1>10 DEF PathRight, useful, flight

-----------------------------------------------------------------------------
(* A multiple that grows.                                                   *)
LEMMA MoreTimes ==
  ASSUME NEW a \in Nat, NEW b \in Nat, NEW k \in Nat
  PROVE  /\ a * k \in Nat /\ (a + 1) * k = a * k + k
         /\ a <= b => a * k <= b * k
         /\ a < b => a * k + k <= b * k
<1>1. a * k \in Nat /\ (a + 1) * k = a * k + k
  OBVIOUS
<1>2. ASSUME a <= b PROVE a * k <= b * k
  <2>1. PICK d \in Nat : b = a + d
    <3>1. b - a \in Nat /\ b = a + (b - a)
      BY <1>2
    <3> QED BY <3>1
  <2>2. b * k = a * k + d * k /\ d * k \in Nat
    BY <2>1
  <2> QED BY <1>1, <2>2
<1>3. ASSUME a < b PROVE a * k + k <= b * k
  <2>1. PICK d \in Nat : b = (a + 1) + d
    <3>1. b - (a + 1) \in Nat /\ b = (a + 1) + (b - (a + 1))
      BY <1>3
    <3> QED BY <3>1
  <2>2. b * k = (a + 1) * k + d * k /\ d * k \in Nat
    BY <2>1
  <2> QED BY <1>1, <2>2
<1> QED BY <1>1, <1>2, <1>3

(* So many chunks hold it all, and one less would not.                      *)
LEMMA ChunkCounts ==
  ASSUME NEW size \in Nat, NEW chunk \in Nat \ {0}
  PROVE  /\ Chunks(size, chunk) \in Nat
         /\ size <= Chunks(size, chunk) * chunk
         /\ Chunks(size, chunk) * chunk < size + chunk
         /\ Chunks(size, chunk) = 0 <=> size = 0
<1> DEFINE n == size + chunk - 1
           q == n \div chunk
<1>1. n \in Nat
  OBVIOUS
<1>2. q \in Nat /\ chunk * q <= n /\ n < chunk * q + chunk
  <2> HIDE DEF n
  <2> QED BY <1>1, Quotients
<1>3. Chunks(size, chunk) = q
  BY DEF Chunks
<1> HIDE DEF q
<1>4. chunk * q = q * chunk /\ q * chunk \in Nat
  BY <1>2
<1>5. size <= q * chunk /\ q * chunk < size + chunk
  BY <1>2, <1>4
<1>6. q = 0 => q * chunk = 0
  BY <1>2
<1>7. q # 0 => chunk <= q * chunk
  <2> SUFFICES ASSUME q # 0 PROVE chunk <= q * chunk
    OBVIOUS
  <2>1. 0 * chunk + chunk <= q * chunk
    BY <1>2, MoreTimes
  <2>2. 0 * chunk = 0
    OBVIOUS
  <2> QED BY <2>1, <2>2
<1>8. q = 0 <=> size = 0
  BY <1>2, <1>4, <1>5, <1>6, <1>7
<1> QED BY <1>2, <1>3, <1>5, <1>8

(* The chunk that a byte is in.                                             *)
LEMMA ChunkFound ==
  ASSUME NEW size \in Nat, NEW k \in Nat \ {0}, NEW at \in 0..size - 1
  PROVE  {n \in 1..Chunks(size, k) : (n - 1) * k <= at /\ at < UpTo(n * k, size)}
           = {at \div k + 1}
<1> DEFINE q == at \div k
           total == Chunks(size, k)
<1>1. q \in Nat /\ q * k <= at /\ at < q * k + k /\ q * k \in Nat
  <2>1. q \in Nat /\ k * q <= at /\ at < k * q + k
    BY Quotients
  <2> HIDE DEF q
  <2>2. k * q = q * k /\ q * k \in Nat
    BY <2>1
  <2> QED BY <2>1, <2>2
<1>2. total \in Nat /\ size <= total * k
  BY ChunkCounts
<1> HIDE DEF q, total
<1>3. q < total
  <2> SUFFICES ASSUME total <= q PROVE FALSE
    BY <1>1, <1>2
  <2>1. total * k <= q * k
    BY <1>1, <1>2, MoreTimes
  <2> QED BY <1>1, <1>2, <2>1
<1>4. q + 1 \in 1..total /\ (q + 1 - 1) * k <= at /\ at < UpTo((q + 1) * k, size)
  <2>1. (q + 1) * k = q * k + k /\ q + 1 - 1 = q
    BY <1>1, MoreTimes
  <2> DEFINE end == (q + 1) * k
  <2>2. end \in Nat /\ at < end
    BY <1>1, <2>1
  <2> HIDE DEF end
  <2>3. at < UpTo(end, size)
    BY <2>2 DEF UpTo
  <2>4. (q + 1 - 1) * k <= at
    BY <1>1, <2>1
  <2> QED BY <1>1, <1>2, <1>3, <2>3, <2>4 DEF end
<1>5. ASSUME NEW n \in 1..total, (n - 1) * k <= at, at < UpTo(n * k, size)
      PROVE  n = q + 1
  <2>1. n - 1 \in Nat /\ n \in Nat
    BY <1>2
  <2> DEFINE end == n * k
             start == (n - 1) * k
  <2>2. end \in Nat /\ start \in Nat
    BY <2>1, MoreTimes
  <2>3. ASSUME n <= q PROVE end <= q * k
    BY <1>1, <2>1, <2>3, MoreTimes
  <2>4. ASSUME q < n - 1 PROVE q * k + k <= start
    BY <1>1, <2>1, <2>4, MoreTimes
  <2>5. start <= at /\ at < UpTo(end, size)
    BY <1>5
  <2> HIDE DEF end, start
  <2>6. at < end
    BY <2>2, <2>5 DEF UpTo
  <2>7. ~(n <= q)
    BY <1>1, <2>2, <2>3, <2>6
  <2>8. ~(q < n - 1)
    BY <1>1, <2>2, <2>4, <2>5
  <2> QED BY <1>1, <2>1, <2>7, <2>8
<1> QED BY <1>4, <1>5 DEF q, total

-----------------------------------------------------------------------------
(* The sums of a function, and of what is taken from a plan, are one.       *)
LEMMA PartialsAgree ==
  ASSUME NEW S, IsFiniteSet(S), NEW f, NEW g, Partial(f, g, SUBSET S),
         NEW h, Partial(f, h, SUBSET S)
  PROVE  g[S] = h[S]
<1> DEFINE Wrong == {s \in SUBSET S : g[s] # h[s]}
<1>1. {} \notin Wrong
  BY DEF Partial
<1>2. ASSUME NEW s \in Wrong, s # {}, Picked(s) \in s PROVE s \ {Picked(s)} \in Wrong
  <2>1. g[s] = f[Picked(s)] + g[s \ {Picked(s)}] /\ h[s] = f[Picked(s)] + h[s \ {Picked(s)}]
    BY <1>2 DEF Partial
  <2> QED BY <1>2, <2>1
<1>3. Wrong = {}
  <2> HIDE DEF Wrong
  <2>1. Wrong \subseteq SUBSET S
    BY DEF Wrong
  <2> QED BY <1>1, <1>2, <2>1, NoSubsetIsBad
<1> QED BY <1>3

(* The sum of what the batches of a plan hold, over its definition, is      *)
(* that of the function.                                                    *)
LEMMA ChunksAddUp ==
  ASSUME NEW plan, NEW S, IsFiniteSet(S)
  PROVE  MapThenSumSet(LAMBDA i : plan[i].chunks, S)
           = SumFunction([i \in S |-> plan[i].chunks])
<1> DEFINE f == [i \in S |-> plan[i].chunks]
           Q(g) == g = [s \in SUBSET S |-> IF s = {} THEN 0
                                         ELSE plan[Picked(s)].chunks + g[s \ {Picked(s)}]]
           sum == CHOOSE g : Q(g)
<1>1. MapThenSumSet(LAMBDA i : plan[i].chunks, S) = sum[S]
  BY DEF MapThenSumSet, MapThenFoldSet, Picked
<1>2. ASSUME NEW g PROVE Q(g) <=> Partial(f, g, SUBSET S)
  <2>1. \A s \in SUBSET S : s # {} => f[Picked(s)] = plan[Picked(s)].chunks
    BY DEF Picked
  <2> DEFINE G == [s \in SUBSET S |-> IF s = {} THEN 0
                                         ELSE plan[Picked(s)].chunks + g[s \ {Picked(s)}]]
             H == [s \in SUBSET S |-> IF s = {} THEN 0
                                         ELSE f[Picked(s)] + g[s \ {Picked(s)}]]
  <2>2. G = H
    <3> HIDE DEF f
    <3> QED BY <2>1
  <2> QED BY <2>2 DEF Partial
<1>3. PICK h : Partial(f, h, SUBSET S) /\ SumFunction(f) = h[S]
  <2>1. DOMAIN f = S
    OBVIOUS
  <2> HIDE DEF f
  <2> QED BY <2>1, SumIsPartial
<1>4. Partial(f, sum, SUBSET S)
  <2>1. \E g : Q(g)
    BY <1>2, <1>3
  <2> HIDE DEF Q
  <2>2. Q(sum)
    BY <2>1
  <2> QED BY <1>2, <2>2
<1>5. sum[S] = h[S]
  <2> HIDE DEF sum, f
  <2> QED BY <1>3, <1>4, PartialsAgree
<1> QED BY <1>1, <1>3, <1>5

-----------------------------------------------------------------------------
(* The same of the bytes in frames.                                         *)
LEMMA BytesAddUp ==
  ASSUME NEW frames, NEW S, IsFiniteSet(S)
  PROVE  MapThenSumSet(LAMBDA n : frames[n][2].bytes, S)
           = SumFunction([n \in S |-> frames[n][2].bytes])
<1> DEFINE f == [n \in S |-> frames[n][2].bytes]
           Q(g) == g = [s \in SUBSET S |-> IF s = {} THEN 0
                                         ELSE frames[Picked(s)][2].bytes + g[s \ {Picked(s)}]]
           sum == CHOOSE g : Q(g)
<1>1. MapThenSumSet(LAMBDA n : frames[n][2].bytes, S) = sum[S]
  BY DEF MapThenSumSet, MapThenFoldSet, Picked
<1>2. ASSUME NEW g PROVE Q(g) <=> Partial(f, g, SUBSET S)
  <2>1. \A s \in SUBSET S : s # {} => f[Picked(s)] = frames[Picked(s)][2].bytes
    BY DEF Picked
  <2> DEFINE G == [s \in SUBSET S |-> IF s = {} THEN 0
                                         ELSE frames[Picked(s)][2].bytes + g[s \ {Picked(s)}]]
             H == [s \in SUBSET S |-> IF s = {} THEN 0
                                         ELSE f[Picked(s)] + g[s \ {Picked(s)}]]
  <2>2. G = H
    <3> HIDE DEF f
    <3> QED BY <2>1
  <2> QED BY <2>2 DEF Partial
<1>3. PICK h : Partial(f, h, SUBSET S) /\ SumFunction(f) = h[S]
  <2>1. DOMAIN f = S
    OBVIOUS
  <2> HIDE DEF f
  <2> QED BY <2>1, SumIsPartial
<1>4. Partial(f, sum, SUBSET S)
  <2>1. \E g : Q(g)
    BY <1>2, <1>3
  <2> HIDE DEF Q
  <2>2. Q(sum)
    BY <2>1
  <2> QED BY <1>2, <2>2
<1>5. sum[S] = h[S]
  <2> HIDE DEF sum, f
  <2> QED BY <1>3, <1>4, PartialsAgree
<1> QED BY <1>1, <1>3, <1>5

(* Pieces of which each lies between one end and the next.                 *)
Between(f, F, a, n) ==
  /\ F \in [0..n -> Int] /\ f \in [a..a + n - 1 -> Int]
  /\ \A i \in 0..n - 1 : f[a + i] = F[i + 1] - F[i]

(* The pieces are all that is between the first end and the last.           *)
LEMMA PiecesAddUp ==
  ASSUME NEW a \in Int, NEW n \in Nat, NEW F, NEW f, Between(f, F, a, n)
  PROVE  SumFunction(f) = F[n] - F[0]
<1> DEFINE S == a..a + n - 1
           G(k) == [x \in S |-> IF x < a + k THEN f[x] ELSE 0]
           T == {k \in Nat : k <= n => SumFunction(G(k)) = F[k] - F[0]}
<1>1. IsFiniteSet(S)
  BY FS_Interval
<1>2. \A k \in Nat : G(k) \in [S -> Int]
  BY DEF Between
<1>3. 0 \in T
  <2>1. DOMAIN G(0) = S /\ \A x \in S : G(0)[x] = 0
    OBVIOUS
  <2>2. SumFunction(G(0)) = 0
    <3> DEFINE g == G(0)
    <3>1. DOMAIN g = S /\ \A x \in S : g[x] = 0
      BY <2>1
    <3> HIDE DEF g, S
    <3>2. SumFunction(g) = 0
      BY <1>1, <3>1, SumOfNothing
    <3> QED BY <3>2 DEF g, S
  <2>3. F[0] \in Int
    BY DEF Between
  <2> QED BY <2>2, <2>3
<1>4. ASSUME NEW k \in T \cap Nat PROVE k + 1 \in T
  <2> SUFFICES ASSUME k + 1 <= n PROVE SumFunction(G(k + 1)) = F[k + 1] - F[0]
    OBVIOUS
  <2>1. SumFunction(G(k)) = F[k] - F[0]
    BY <1>4
  <2>2. k \in 0..n - 1 /\ a + k \in S /\ k + 1 \in Nat
    OBVIOUS
  <2>3. G(k)[a + k] = 0 /\ G(k + 1)[a + k] = f[a + k]
    BY <2>2
  <2>4. \A x \in S \ {a + k} : G(k + 1)[x] = G(k)[x]
    OBVIOUS
  <2>5. G(k) \in [S -> Int] /\ G(k + 1) \in [S -> Int]
    BY <1>2, <2>2
  <2>6. SumFunction(G(k + 1)) = SumFunction(G(k)) + G(k + 1)[a + k] - G(k)[a + k]
    <3>1. PICK g : g = G(k)
      OBVIOUS
    <3>2. PICK h : h = G(k + 1)
      OBVIOUS
    <3>3. PICK e : e = a + k
      OBVIOUS
    <3>4. /\ g \in [S -> Int] /\ h \in [S -> Int] /\ e \in S
          /\ \A x \in S \ {e} : h[x] = g[x]
      BY <2>2, <2>4, <2>5, <3>1, <3>2, <3>3
    <3> HIDE DEF S, G, T
    <3>5. SumFunction(h) = SumFunction(g) + h[e] - g[e] /\ SumFunction(g) \in Int
      BY <1>1, <3>4, SumChanges
    <3> QED BY <3>1, <3>2, <3>3, <3>5
  <2>7. f[a + k] = F[k + 1] - F[k] /\ F[k] \in Int /\ F[k + 1] \in Int /\ F[0] \in Int
    BY <2>2 DEF Between
  <2> HIDE DEF G
  <2> QED BY <2>1, <2>3, <2>6, <2>7
<1>5. Nat \subseteq T
  <2> HIDE DEF T
  <2> QED BY <1>3, <1>4, AllNaturals
<1>6. SumFunction(G(n)) = F[n] - F[0]
  BY <1>5
<1>7. G(n) = f
  <2>1. \A x \in S : G(n)[x] = f[x]
    OBVIOUS
  <2>2. DOMAIN f = S /\ f = [x \in S |-> f[x]]
    BY DEF Between
  <2>3. [x \in S |-> G(n)[x]] = [x \in S |-> f[x]]
    <3> HIDE DEF G, S
    <3> QED BY <2>1
  <2>4. G(n) = [x \in S |-> G(n)[x]]
    OBVIOUS
  <2> QED BY <2>2, <2>3, <2>4
<1> QED BY <1>6, <1>7

-----------------------------------------------------------------------------
(* The numbers with a remainder.                                            *)
LEMMA Remainders ==
  ASSUME NEW n \in Nat, NEW k \in Nat \ {0}
  PROVE  /\ n % k \in 0..k - 1 /\ n = k * (n \div k) + (n % k)
         /\ \A r \in 0..k - 1, q \in Nat : n = k * q + r => n % k = r
<1>1. n % k \in 0..k - 1 /\ n = k * (n \div k) + (n % k)
  OBVIOUS
<1>2. ASSUME NEW r \in 0..k - 1, NEW q \in Nat, n = k * q + r PROVE n % k = r
  <2> DEFINE p == n \div k
             m == n % k
  <2>1. p \in Nat /\ m \in 0..k - 1 /\ n = k * p + m
    BY <1>1
  <2> HIDE DEF p, m
  <2>2. p * k \in Nat /\ q * k \in Nat /\ p * k = k * p /\ q * k = k * q
    BY <2>1
  <2>3. p < q => p * k + k <= q * k
    BY <2>1, MoreTimes
  <2>4. q < p => q * k + k <= p * k
    BY <2>1, MoreTimes
  <2>5. p * k + m = q * k + r
    BY <1>2, <2>1, <2>2
  <2>6. p = q
    BY <2>1, <2>2, <2>3, <2>4, <2>5
  <2> QED BY <2>1, <2>2, <2>5, <2>6 DEF m
<1> QED BY <1>1, <1>2

(* From a number with one remainder to the nearest below it with another.   *)
LEMMA Shifts ==
  ASSUME NEW n \in Nat, NEW k \in Nat \ {0}, NEW s \in 0..k - 1, NEW t \in 0..k - 1,
         n % k = s
  PROVE  /\ n >= s
         /\ t <= s => n - s + t \in Nat /\ (n - s + t) % k = t
         /\ n # s => n - k - s + t \in Nat /\ (n - k - s + t) % k = t
<1> DEFINE q == n \div k
<1>1. q \in Nat /\ n = k * q + s
  BY Remainders
<1> HIDE DEF q
<1>2. k * q \in Nat
  BY <1>1
<1>3. n - s + t = k * q + t /\ n - s + t \in Nat
  BY <1>1, <1>2
<1>4. (n - s + t) % k = t
  BY <1>1, <1>3, Remainders
<1>5. ASSUME n # s PROVE n - k - s + t \in Nat /\ (n - k - s + t) % k = t
  <2>1. q # 0
    BY <1>1, <1>5
  <2>2. q - 1 \in Nat /\ k * q = k * (q - 1) + k /\ k * (q - 1) \in Nat
    BY <1>1, <2>1
  <2> DEFINE p == k * (q - 1)
  <2>3. n - k - s + t = p + t /\ n - k - s + t \in Nat
    <3> HIDE DEF p
    <3>1. p \in Nat /\ n = p + k + s
      BY <1>1, <2>2 DEF p
    <3> QED BY <3>1
  <2> QED BY <2>2, <2>3, Remainders
<1> QED BY <1>1, <1>2, <1>3, <1>4, <1>5

(* No remainder is left by two numbers more than another is.                *)
LEMMA LoadsAreEven ==
  ASSUME NEW total \in Nat, NEW k \in Nat \ {0}, NEW s \in 0..k - 1, NEW t \in 0..k - 1
  PROVE  Cardinality({n \in 1..total : (n - 1) % k = s})
           <= Cardinality({n \in 1..total : (n - 1) % k = t}) + 1
<1> DEFINE Of(x) == {n \in 1..total : (n - 1) % k = x}
<1>1. \A x \in 0..k - 1 : IsFiniteSet(Of(x)) /\ Cardinality(Of(x)) \in Nat
  <2>1. IsFiniteSet(1..total)
    BY FS_Interval
  <2>2. \A x : Of(x) \in SUBSET (1..total)
    OBVIOUS
  <2> HIDE DEF Of
  <2> QED BY <2>1, <2>2, FS_Subset, FS_CardinalityType
<1>9. Cardinality(Of(s)) \in Nat /\ Cardinality(Of(t)) \in Nat
      /\ IsFiniteSet(Of(s)) /\ IsFiniteSet(Of(t))
  BY <1>1
<1>2. CASE t <= s
  <2> DEFINE f == [n \in Of(s) |-> n - s + t]
  <2>1. \A n \in Of(s) : n - s + t \in Of(t)
    <3> TAKE n \in Of(s)
    <3>1. n - 1 \in Nat /\ (n - 1) % k = s /\ n \in 1..total
      OBVIOUS
    <3>2. n - 1 - s + t \in Nat /\ (n - 1 - s + t) % k = t
      BY <1>2, <3>1, Shifts
    <3>3. n - 1 - s + t = n - s + t - 1 /\ n - s + t \in 1..total
      BY <1>2, <3>1, <3>2
    <3> QED BY <3>2, <3>3
  <2>2. f \in Injection(Of(s), Of(t))
    <3>1. f \in [Of(s) -> Of(t)]
      BY <2>1
    <3>2. \A a, b \in Of(s) : f[a] = f[b] => a = b
      OBVIOUS
    <3> QED BY <3>1, <3>2 DEF Injection, IsInjective
  <2>3. Cardinality(Of(s)) <= Cardinality(Of(t))
    <3> HIDE DEF f, Of
    <3> QED BY <1>9, <2>2, FS_Injection
  <2>4. Cardinality(Of(s)) <= Cardinality(Of(t)) + 1
    <3> HIDE DEF Of
    <3> QED BY <1>9, <2>3
  <2> QED BY <2>4
<1>3. CASE s < t
  <2> DEFINE R == Of(s) \ {s + 1}
             f == [n \in R |-> n - k - s + t]
  <2>1. \A n \in R : n - k - s + t \in Of(t)
    <3> TAKE n \in R
    <3> DEFINE m == n - 1
    <3>1. m \in Nat /\ m % k = s /\ n \in 1..total /\ m # s /\ n \in Nat
      OBVIOUS
    <3>2. m - k - s + t \in Nat /\ (m - k - s + t) % k = t
      <4> HIDE DEF m, R, Of
      <4> QED BY <3>1, Shifts
    <3>3. m - k - s + t = n - k - s + t - 1 /\ n - k - s + t \in 1..total
      BY <1>3, <3>1, <3>2
    <3> QED BY <3>2, <3>3
  <2>2. f \in Injection(R, Of(t))
    <3>1. f \in [R -> Of(t)]
      BY <2>1
    <3>2. \A a, b \in R : f[a] = f[b] => a = b
      OBVIOUS
    <3> QED BY <3>1, <3>2 DEF Injection, IsInjective
  <2>3. Cardinality(R) <= Cardinality(Of(t))
    <3> HIDE DEF f, Of, R
    <3> QED BY <1>9, <2>2, FS_Injection
  <2>4. Cardinality(Of(s)) <= Cardinality(R) + 1 /\ Cardinality(R) \in Nat
    <3> HIDE DEF Of
    <3>1. IsFiniteSet(R) /\ Cardinality(R) = IF s + 1 \in Of(s) THEN Cardinality(Of(s)) - 1
                                                  ELSE Cardinality(Of(s))
      BY <1>9, FS_RemoveElement
    <3>2. Cardinality(R) \in Nat
      BY <3>1, FS_CardinalityType
    <3> QED BY <1>9, <3>1, <3>2
  <2>5. Cardinality(Of(s)) <= Cardinality(Of(t)) + 1
    <3> HIDE DEF R, Of
    <3> QED BY <1>9, <2>3, <2>4
  <2> QED BY <2>5
<1> QED BY <1>2, <1>3

-----------------------------------------------------------------------------
(* What PlansTileThePayload says of parallel streams, and of chunks that    *)
(* are sent one by one.                                                     *)
StreamsRight(size, chunk, streams) ==
  LET plan == PlanParallelChunks(size, chunk, streams)
      Load(s) == Cardinality({n \in DOMAIN plan : plan[n].stream = s})
  IN  /\ \A at \in 0..size - 1 :
           plan # << >> =>
             Cardinality({n \in DOMAIN plan : plan[n].start <= at /\ at < plan[n].end}) = 1
      /\ \A s, t \in 0..streams - 1 : Load(s) <= Load(t) + 1
      /\ plan = << >> <=> chunk = 0 \/ streams = 0 \/ size = 0
FramesRight(size, chunk) ==
  LET frames == MakeChunkFrames(7, size, chunk, 100)
      Says(n) == MetadataRead(frames[n][1].meta)
  IN  /\ MapThenSumSet(LAMBDA n : frames[n][2].bytes, DOMAIN frames) = size
      /\ \A n \in DOMAIN frames :
           /\ frames[n][2].bytes \in 1..chunk
           /\ frames[n][2].deadline < frames[n][1].deadline
           /\ Says(n) = [stream |-> 7, index |-> n - 1, total |-> Len(frames),
                         first |-> n = 1, last |-> n = Len(frames)]

(* Chunks on parallel streams are as PlansTileThePayload says.              *)
LEMMA StreamsPlanned ==
  ASSUME NEW size \in Nat, NEW chunk \in Nat, NEW streams \in Nat
  PROVE  StreamsRight(size, chunk, streams)
<1> DEFINE plan == PlanParallelChunks(size, chunk, streams)
           total == Chunks(size, chunk)
<1>1. CASE chunk = 0 \/ streams = 0
  <2>1. plan = << >>
    BY <1>1 DEF PlanParallelChunks
  <2> HIDE DEF plan
  <2>2. DOMAIN plan = {}
    BY <2>1
  <2>3. \A s : {n \in DOMAIN plan : plan[n].stream = s} = {}
    BY <2>2
  <2>4. Cardinality({}) = 0
    BY FS_EmptySet
  <2>5. \A s, t : Cardinality({n \in DOMAIN plan : plan[n].stream = s})
                    <= Cardinality({n \in DOMAIN plan : plan[n].stream = t}) + 1
    <3> TAKE s, t
    <3>1. {n \in DOMAIN plan : plan[n].stream = s} = {}
          /\ {n \in DOMAIN plan : plan[n].stream = t} = {}
      BY <2>3
    <3> QED BY <2>4, <3>1
  <2> QED BY <1>1, <2>1, <2>5 DEF StreamsRight, plan
<1>2. CASE chunk # 0 /\ streams # 0
  <2>1. chunk \in Nat \ {0} /\ streams \in Nat \ {0}
    BY <1>2
  <2>2. total \in Nat /\ (total = 0 <=> size = 0)
    BY <2>1, ChunkCounts
  <2>3. plan = [n \in 1..total |->
                  [stream |-> (n - 1) % streams, index |-> n - 1,
                   start |-> (n - 1) * chunk, end |-> UpTo(n * chunk, size)]]
    BY <1>2 DEF PlanParallelChunks
  <2> HIDE DEF plan
  <2>4. /\ DOMAIN plan = 1..total
        /\ \A n \in 1..total : /\ plan[n].stream = (n - 1) % streams
                               /\ plan[n].start = (n - 1) * chunk
                               /\ plan[n].end = UpTo(n * chunk, size)
    BY <2>3
  <2>5. ASSUME NEW at \in 0..size - 1
        PROVE  Cardinality({n \in DOMAIN plan : plan[n].start <= at /\ at < plan[n].end}) = 1
    <3>1. {n \in DOMAIN plan : plan[n].start <= at /\ at < plan[n].end}
            = {n \in 1..total : (n - 1) * chunk <= at /\ at < UpTo(n * chunk, size)}
      <4> HIDE DEF total
      <4> QED BY <2>4
    <3>2. {n \in 1..total : (n - 1) * chunk <= at /\ at < UpTo(n * chunk, size)}
            = {at \div chunk + 1}
      BY <2>1, ChunkFound
    <3> QED BY <3>1, <3>2, FS_Singleton
  <2>6. ASSUME NEW s \in 0..streams - 1, NEW t \in 0..streams - 1
        PROVE  Cardinality({n \in DOMAIN plan : plan[n].stream = s})
                 <= Cardinality({n \in DOMAIN plan : plan[n].stream = t}) + 1
    <3>1. \A x : {n \in DOMAIN plan : plan[n].stream = x}
                   = {n \in 1..total : (n - 1) % streams = x}
      <4> HIDE DEF total
      <4> QED BY <2>4
    <3>2. Cardinality({n \in 1..total : (n - 1) % streams = s})
            <= Cardinality({n \in 1..total : (n - 1) % streams = t}) + 1
      <4> HIDE DEF total
      <4> QED BY <2>1, <2>2, LoadsAreEven
    <3> QED BY <3>1, <3>2
  <2>7. plan = << >> <=> size = 0
    <3>1. plan = << >> => DOMAIN plan = {}
      OBVIOUS
    <3>2. DOMAIN plan = {} <=> total = 0
      <4> HIDE DEF total
      <4> QED BY <2>2, <2>4
    <3>3. DOMAIN plan = {} => plan = << >>
      <4> HIDE DEF total
      <4> SUFFICES ASSUME DOMAIN plan = {} PROVE plan = << >>
        OBVIOUS
      <4>1. 1..total = {}
        BY <2>4
      <4>2. plan \in [1..total -> {}]
        BY <2>3, <4>1
      <4>3. total = 0
        BY <2>2, <4>1
      <4>4. plan \in Seq({}) /\ Len(plan) = 0
        BY <2>2, <4>2, <4>3
      <4> QED BY <4>4, EmptySeq
    <3> QED BY <2>2, <3>1, <3>2, <3>3
  <2> QED BY <1>2, <2>5, <2>6, <2>7 DEF StreamsRight, plan
<1> QED BY <1>1, <1>2

(* So are chunks that are sent one by one.                                  *)
LEMMA FramesPlanned ==
  ASSUME NEW size \in Nat, NEW chunk \in Nat \ {0}
  PROVE  FramesRight(size, chunk)
<1> DEFINE frames == MakeChunkFrames(7, size, chunk, 100)
           total == Chunks(size, chunk)
           End(n) == UpTo(n * chunk, size)
<1>1. /\ total \in Nat /\ size <= total * chunk /\ total * chunk < size + chunk
      /\ (total = 0 <=> size = 0)
  BY ChunkCounts
<1>2. frames = [n \in 1..total |->
         <<[type |-> "CTRL", meta |-> ChunkMetadata(7, n - 1, total), deadline |-> 2 * 100],
           [type |-> "DATA", bytes |-> End(n) - End(n - 1), deadline |-> 100]>>]
  BY DEF MakeChunkFrames
<1> HIDE DEF frames, total
<1>3. /\ DOMAIN frames = 1..total /\ Len(frames) = total
      /\ \A n \in 1..total : /\ frames[n][1].meta = ChunkMetadata(7, n - 1, total)
                             /\ frames[n][1].deadline = 200
                             /\ frames[n][2].bytes = End(n) - End(n - 1)
                             /\ frames[n][2].deadline = 100
  <2> HIDE DEF End
  <2>1. DOMAIN frames = 1..total /\ Len(frames) = total
    BY <1>1, <1>2
  <2> QED BY <1>2, <2>1
<1>4. \A n \in Nat : n * chunk \in Nat /\ End(n) \in Nat
  BY MoreTimes DEF UpTo
<1>5. End(0) = 0 /\ End(total) = size
  <2>1. 0 * chunk = 0
    OBVIOUS
  <2>2. total * chunk \in Nat
    BY <1>1, <1>4
  <2> QED BY <1>1, <2>1, <2>2 DEF UpTo
<1>6. ASSUME NEW n \in 1..total
      PROVE  End(n) - End(n - 1) \in 1..chunk
  <2>1. n \in Nat /\ n - 1 \in Nat /\ n <= total
    BY <1>1
  <2> DEFINE start == (n - 1) * chunk
             stop == n * chunk
             all == total * chunk
  <2>2. start \in Nat /\ stop = start + chunk /\ stop <= all /\ all \in Nat
    <3>1. (n - 1 + 1) * chunk = (n - 1) * chunk + chunk /\ n - 1 + 1 = n
      BY <2>1, MoreTimes
    <3>2. n * chunk <= total * chunk
      BY <1>1, <2>1, MoreTimes
    <3> QED BY <1>1, <1>4, <2>1, <3>1, <3>2
  <2>3. size <= all /\ all < size + chunk
    BY <1>1
  <2>4. End(n) = UpTo(stop, size) /\ End(n - 1) = UpTo(start, size)
    OBVIOUS
  <2> HIDE DEF start, stop, all, End
  <2> QED BY <2>2, <2>3, <2>4 DEF UpTo
<1>7. MapThenSumSet(LAMBDA n : frames[n][2].bytes, DOMAIN frames) = size
  <2>1. PICK F : F = [n \in 0..total |-> End(n)]
    OBVIOUS
  <2>2. PICK f : f = [n \in 1..total |-> frames[n][2].bytes]
    OBVIOUS
  <2>3. \A n \in 1..total : frames[n][2].bytes = End(n) - End(n - 1)
    BY <1>3
  <2>4. \A n \in 0..total : End(n) \in Nat
    BY <1>1, <1>4
  <2> HIDE DEF End
  <2>5. Between(f, F, 1, total)
    <3>1. F \in [0..total -> Int]
      BY <2>1, <2>4
    <3>2. \A n \in 1..total : f[n] = End(n) - End(n - 1)
      BY <2>2, <2>3
    <3>3. \A n \in 1..total : n \in 0..total /\ n - 1 \in 0..total
      BY <1>1
    <3>4. f \in [1..total -> Int]
      <4>1. \A n \in 1..total : frames[n][2].bytes \in Int
        BY <2>3, <2>4, <3>3
      <4> QED BY <2>2, <4>1
    <3>5. \A i \in 0..total - 1 : f[1 + i] = F[i + 1] - F[i]
      <4> TAKE i \in 0..total - 1
      <4>1. 1 + i \in 1..total /\ i + 1 \in 0..total /\ i \in 0..total /\ 1 + i - 1 = i
            /\ 1 + i = i + 1
        BY <1>1
      <4>2. f[1 + i] = End(i + 1) - End(i)
        BY <3>2, <4>1
      <4>3. F[i + 1] = End(i + 1) /\ F[i] = End(i)
        BY <2>1, <4>1
      <4> QED BY <4>2, <4>3
    <3>6. 1..1 + total - 1 = 1..total
      BY <1>1
    <3> QED BY <3>1, <3>4, <3>5, <3>6 DEF Between
  <2>6. SumFunction(f) = F[total] - F[0]
    BY <1>1, <2>5, PiecesAddUp
  <2>7. F[total] = size /\ F[0] = 0
    BY <1>1, <1>5, <2>1
  <2>8. SumFunction(f) = size
    BY <2>6, <2>7
  <2>9. IsFiniteSet(1..total)
    BY <1>1, FS_Interval
  <2>10. MapThenSumSet(LAMBDA n : frames[n][2].bytes, 1..total)
           = SumFunction([n \in 1..total |-> frames[n][2].bytes])
    BY <2>9, BytesAddUp
  <2> QED BY <1>3, <2>2, <2>8, <2>10
<1>8. ASSUME NEW n \in 1..total
      PROVE  MetadataRead(frames[n][1].meta)
               = [stream |-> 7, index |-> n - 1, total |-> Len(frames),
                  first |-> n = 1, last |-> n = Len(frames)]
  <2> DEFINE odd == IF n - 1 = 0 THEN 1 ELSE 0
             two == IF n - 1 = total - 1 THEN 2 ELSE 0
             flags == odd + two
  <2>1. frames[n][1].meta = <<7, n - 1, total, flags>>
    BY <1>3 DEF ChunkMetadata
  <2>2. (flags % 2 = 1) <=> n = 1
    BY <1>1
  <2>3. ((flags \div 2) % 2 = 1) <=> n = total
    BY <1>1
  <2> HIDE DEF flags
  <2> QED BY <1>3, <2>1, <2>2, <2>3 DEF MetadataRead
<1>9. ASSUME NEW n \in DOMAIN frames
      PROVE  /\ frames[n][2].bytes \in 1..chunk
             /\ frames[n][2].deadline < frames[n][1].deadline
             /\ MetadataRead(frames[n][1].meta)
                  = [stream |-> 7, index |-> n - 1, total |-> Len(frames),
                     first |-> n = 1, last |-> n = Len(frames)]
  <2>1. n \in 1..total
    BY <1>3
  <2>2. frames[n][2].bytes \in 1..chunk
    <3>1. frames[n][2].bytes = End(n) - End(n - 1)
      BY <1>3, <2>1
    <3> HIDE DEF End
    <3> QED BY <1>6, <2>1, <3>1
  <2>3. frames[n][2].deadline < frames[n][1].deadline
    BY <1>3, <2>1
  <2> QED BY <1>8, <2>1, <2>2, <2>3
<1> QED BY <1>7, <1>9, Zenon DEF FramesRight, frames

-----------------------------------------------------------------------------
(* Only one number of chunks holds it all without one too many.             *)
LEMMA ChunksFit ==
  ASSUME NEW n \in Nat, NEW k \in Nat \ {0}, NEW q \in Nat, n <= q * k, q * k < n + k
  PROVE  Chunks(n, k) = q
<1> DEFINE p == Chunks(n, k)
<1>1. p \in Nat /\ n <= p * k /\ p * k < n + k
  BY ChunkCounts
<1> HIDE DEF p
<1>2. p * k \in Nat /\ q * k \in Nat
  BY <1>1, MoreTimes
<1>3. p < q => p * k + k <= q * k
  BY <1>1, MoreTimes
<1>4. q < p => q * k + k <= p * k
  BY <1>1, MoreTimes
<1>5. p = q
  BY <1>1, <1>2, <1>3, <1>4
<1> QED BY <1>5 DEF p

(* The sizes of chunks, and the most that go into a batch.                  *)
ChunkSizesChosen == {4096, 16384, 65536, 262144, 1048576}

(* Each choice of a chunk size is one of five.                              *)
LEMMA SizesChosen ==
  ASSUME NEW bands, NEW size \in Nat
  PROVE  ChunkSizeFor(bands, size) \in ChunkSizesChosen
<1>1. Micro = 4096 /\ Small = 16384 /\ Medium = 65536 /\ Large = 262144 /\ Jumbo = 1048576
  BY DEF Micro, Small, Medium, Large, Jumbo, KB, MB
<1>2. PayloadSizeDefault(size) \in {Micro, Small, Medium, Large, Jumbo}
  BY DEF PayloadSizeDefault, KB, MB
<1>3. \A low, high : FromEnergyBands(low, high, size) \in {Micro, Small, Medium, Large, Jumbo}
  BY DEF FromEnergyBands
<1>4. ChunkSizeFor(bands, size) \in {Micro, Small, Medium, Large, Jumbo}
  BY <1>2, <1>3 DEF ChunkSizeFor
<1> QED BY <1>1, <1>4 DEF ChunkSizesChosen

(* A batch of the chosen chunks is of 2 MB at most, and of one chunk only   *)
(* when there are few.                                                      *)
LEMMA BatchesChosen ==
  ASSUME NEW size \in Nat, NEW chunk \in ChunkSizesChosen
  PROVE  /\ ForPayload(size, chunk) \in {1, 2, 8, 16, 32}
         /\ ForPayload(size, chunk) * chunk <= 2 * MB
         /\ ForPayload(size, chunk) = 1 => Chunks(size, chunk) <= 4
<1> DEFINE batch == (2 * MB) \div chunk
           few == Chunks(size, chunk) <= 4
<1>1. 2 * MB = 2097152
  BY DEF MB, KB
<1>2. ForPayload(size, chunk) = IF few THEN 1 ELSE IF batch <= 2 THEN 2
                                ELSE IF batch <= 8 THEN 8
                                ELSE IF batch <= 16 THEN 16 ELSE 32
  BY DEF ForPayload
<1>3. \/ chunk = 4096 /\ batch = 512
      \/ chunk = 16384 /\ batch = 128
      \/ chunk = 65536 /\ batch = 32
      \/ chunk = 262144 /\ batch = 8
      \/ chunk = 1048576 /\ batch = 2
  <2>1. CASE chunk = 4096
    BY <1>1, <2>1
  <2>2. CASE chunk = 16384
    BY <1>1, <2>2
  <2>3. CASE chunk = 65536
    BY <1>1, <2>3
  <2>4. CASE chunk = 262144
    BY <1>1, <2>4
  <2>5. CASE chunk = 1048576
    BY <1>1, <2>5
  <2> QED BY <2>1, <2>2, <2>3, <2>4, <2>5 DEF ChunkSizesChosen
<1> HIDE DEF batch, few
<1>4. ForPayload(size, chunk) \in {1, 2, 8, 16, 32}
  BY <1>2
<1>5. ForPayload(size, chunk) * chunk <= 2097152
  <2>1. CASE chunk = 4096
    BY <1>2, <1>3, <2>1
  <2>2. CASE chunk = 16384
    BY <1>2, <1>3, <2>2
  <2>3. CASE chunk = 65536
    BY <1>2, <1>3, <2>3
  <2>4. CASE chunk = 262144
    BY <1>2, <1>3, <2>4
  <2>5. CASE chunk = 1048576
    BY <1>2, <1>3, <2>5
  <2> QED BY <2>1, <2>2, <2>3, <2>4, <2>5 DEF ChunkSizesChosen
<1>6. ForPayload(size, chunk) = 1 => few
  BY <1>2
<1> QED BY <1>1, <1>4, <1>5, <1>6 DEF few

-----------------------------------------------------------------------------
(* What PlansTileThePayload says of batches.                                *)
BatchesRight(bands, size) ==
  LET plan == AdaptiveSend(bands, size)
      said == Report(bands, size)
      chunk == IF size < ChunkingThreshold THEN AtLeast(size, 1)
               ELSE ChunkSizeFor(bands, size - Overhead(size)) + Overhead(size)
      start(i) == plan[i].first * chunk
  IN  /\ 0 \in DOMAIN plan /\ plan[0].first = 0
      /\ \A i \in DOMAIN plan :
           /\ plan[i].chunks > 0
           /\ size > 0 => Chunks(plan[i].bytes, chunk) = plan[i].chunks
           /\ start(i) + plan[i].bytes =
                IF i + 1 \in DOMAIN plan THEN start(i + 1) ELSE size
           /\ plan[i].bytes <= 2 * MB + plan[i].chunks * Overhead(size)
      /\ said.chunks = MapThenSumSet(LAMBDA i : plan[i].chunks, DOMAIN plan)
      /\ said.batches * said.reduction <= said.chunks
      /\ size >= ChunkingThreshold /\ said.chunks > 4 => said.batches < said.chunks

(* The batch at i, of those that hold chunks of k bytes.                    *)
LEMMA BatchAt ==
  ASSUME NEW size \in Nat \ {0}, NEW k \in Nat \ {0}, NEW batch \in Nat \ {0},
         NEW all, all = Chunks(size, k), NEW m, m = Chunks(all, batch),
         NEW i \in 0..m - 1,
         NEW c, c = UpTo(batch, all - i * batch),
         NEW b, b = UpTo((i + 1) * batch * k, size) - i * batch * k
  PROVE  /\ c \in 1..batch /\ b \in Nat /\ b <= c * k
         /\ Chunks(b, k) = c
         /\ i * batch * k + b = IF i + 1 \in 0..m - 1 THEN (i + 1) * batch * k ELSE size
         /\ c = UpTo((i + 1) * batch, all) - UpTo(i * batch, all)
<1>1. all \in Nat /\ size <= all * k /\ all * k < size + k /\ all # 0 /\ all * k \in Nat
  BY ChunkCounts, MoreTimes
<1>2. m \in Nat /\ all <= m * batch /\ m * batch < all + batch
  BY <1>1, ChunkCounts
<1>3. i \in Nat /\ i + 1 \in Nat /\ i + 1 <= m
  BY <1>2
<1> DEFINE u == i * batch
           v == (i + 1) * batch
<1>4. u \in Nat /\ v = u + batch /\ v \in Nat /\ v <= m * batch /\ m * batch \in Nat
  BY <1>2, <1>3, MoreTimes
<1>5. i + 1 \in 0..m - 1 => v + batch <= m * batch
  <2> SUFFICES ASSUME i + 1 \in 0..m - 1 PROVE v + batch <= m * batch
    OBVIOUS
  <2>1. i + 1 < m
    BY <1>2
  <2> QED BY <1>2, <1>3, <2>1, MoreTimes
<1>6. i + 1 \notin 0..m - 1 => v = m * batch
  <2> SUFFICES ASSUME i + 1 \notin 0..m - 1 PROVE v = m * batch
    OBVIOUS
  <2>1. i + 1 = m
    BY <1>2, <1>3
  <2> QED BY <2>1
<1>7. c = UpTo(batch, all - u) /\ b = UpTo(v * k, size) - u * k
  OBVIOUS
<1> DEFINE inner == i + 1 \in 0..m - 1
<1>8. /\ inner => v < all
      /\ ~inner => all <= v
      /\ u < all
  <2> HIDE DEF u, v
  <2> QED BY <1>1, <1>2, <1>4, <1>5, <1>6
<1> HIDE DEF u, v, inner
<1>9. u * k \in Nat /\ v * k \in Nat /\ v * k = u * k + batch * k /\ batch * k \in Nat
  BY <1>4, MoreTimes
<1>10. u * k + k <= all * k /\ u * k < size
  <2>1. u * k + k <= all * k
    BY <1>1, <1>4, <1>8, MoreTimes
  <2> QED BY <1>1, <1>9, <2>1
<1>11. c \in 1..batch /\ c = UpTo(v, all) - UpTo(u, all)
  BY <1>1, <1>4, <1>7, <1>8 DEF UpTo
<1>12. CASE v < all
  <2>1. c = batch
    BY <1>1, <1>4, <1>7, <1>12 DEF UpTo
  <2>2. v * k + k <= all * k
    BY <1>1, <1>4, <1>12, MoreTimes
  <2>3. v * k < size
    BY <1>1, <1>9, <2>2
  <2>4. b = batch * k
    BY <1>7, <1>9, <2>3 DEF UpTo
  <2>5. Chunks(b, k) = c
    <3>1. b \in Nat /\ b <= batch * k /\ batch * k < b + k
      BY <1>9, <2>4
    <3>2. Chunks(b, k) = batch
      BY <3>1, ChunksFit
    <3> QED BY <2>1, <3>2
  <2>6. u * k + b = v * k
    BY <1>9, <2>4
  <2>7. b <= c * k /\ b \in Nat
    BY <1>9, <2>1, <2>4
  <2>8. inner
    BY <1>1, <1>4, <1>8, <1>12
  <2> QED BY <1>11, <2>5, <2>6, <2>7, <2>8 DEF u, v, inner
<1>13. CASE all <= v
  <2>1. c = all - u
    BY <1>1, <1>4, <1>7, <1>13 DEF UpTo
  <2>2. all * k <= v * k
    BY <1>1, <1>4, <1>13, MoreTimes
  <2>3. b = size - u * k /\ b \in Nat
    BY <1>1, <1>7, <1>9, <1>10, <2>2 DEF UpTo
  <2>4. c \in Nat /\ all = u + c
    BY <1>1, <1>4, <1>8, <2>1
  <2>5. all * k = u * k + c * k /\ c * k \in Nat
    BY <1>4, <2>4
  <2>6. b <= c * k /\ c * k < b + k
    BY <1>1, <1>9, <2>3, <2>5
  <2>7. Chunks(b, k) = c
    BY <2>3, <2>4, <2>6, ChunksFit
  <2>8. ~inner
    BY <1>1, <1>4, <1>8, <1>13
  <2>9. u * k + b = size
    BY <1>9, <2>3
  <2> QED BY <1>11, <2>3, <2>6, <2>7, <2>8, <2>9 DEF u, v, inner
<1> QED BY <1>1, <1>4, <1>12, <1>13

-----------------------------------------------------------------------------
(* What is sent as it is, and what is reported of it.                       *)
LEMMA ShortIsSingle ==
  ASSUME NEW bands, NEW size \in Nat, size < ChunkingThreshold
  PROVE  BatchesRight(bands, size)
<1> DEFINE plan == AdaptiveSend(bands, size)
           said == Report(bands, size)
           chunk == IF size < ChunkingThreshold THEN AtLeast(size, 1)
                    ELSE ChunkSizeFor(bands, size - Overhead(size)) + Overhead(size)
<1>1. plan = [i \in 0..0 |-> [first |-> 0, chunks |-> 1, bytes |-> size]]
  BY DEF AdaptiveSend, SendSingle
<1>2. chunk = AtLeast(size, 1) /\ chunk \in Nat \ {0} /\ (size > 0 => chunk = size)
  BY DEF AtLeast
<1> HIDE DEF plan
<1>3. /\ DOMAIN plan = {0} /\ plan[0].first = 0 /\ plan[0].chunks = 1
      /\ plan[0].bytes = size
  BY <1>1
<1>4. size > 0 => Chunks(size, chunk) = 1
  <2> SUFFICES ASSUME size > 0 PROVE Chunks(size, chunk) = 1
    OBVIOUS
  <2>1. size \in Nat \ {0} /\ chunk = size /\ 1 * size = size
    BY <1>2
  <2>2. size <= 1 * size /\ 1 * size < size + size
    BY <2>1
  <2> HIDE DEF chunk
  <2> QED BY <2>1, <2>2, ChunksFit
<1>5. Overhead(size) \in {0, 28} /\ 2 * MB = 2097152 /\ ChunkingThreshold = 32768
  BY DEF Overhead, MB, KB, ChunkingThreshold
<1>6. Cardinality(DOMAIN plan) = 1
  BY <1>3, FS_Singleton
<1>7. said.chunks = 1 /\ said.batches = 1 /\ said.reduction = 1
  BY <1>6 DEF Report, AtLeast, plan
<1>8. MapThenSumSet(LAMBDA i : plan[i].chunks, DOMAIN plan) = 1
  <2>1. IsFiniteSet({0})
    BY FS_Singleton
  <2>2. MapThenSumSet(LAMBDA i : plan[i].chunks, {0})
          = SumFunction([i \in {0} |-> plan[i].chunks])
    BY <2>1, ChunksAddUp
  <2>3. PICK f : f = [i \in {0} |-> plan[i].chunks]
    OBVIOUS
  <2>4. f \in [{0} -> Int] /\ f[0] = 1
    BY <1>3, <2>3
  <2>5. PICK g : g = [i \in {0} |-> 0]
    OBVIOUS
  <2>6. g \in [{0} -> Int] /\ g[0] = 0 /\ DOMAIN g = {0} /\ \A i \in {0} : g[i] = 0
    BY <2>5
  <2>7. SumFunction(g) = 0
    BY <2>1, <2>6, SumOfNothing
  <2>8. SumFunction(f) = SumFunction(g) + f[0] - g[0] /\ SumFunction(g) \in Int
    <3>1. 0 \in {0} /\ \A i \in {0} \ {0} : f[i] = g[i]
      OBVIOUS
    <3> QED BY <2>1, <2>4, <2>6, <3>1, SumChanges
  <2> QED BY <1>3, <2>2, <2>3, <2>4, <2>6, <2>7, <2>8
<1> HIDE DEF said, chunk
<1>9. ASSUME NEW i \in DOMAIN plan
      PROVE  /\ plan[i].chunks > 0
             /\ size > 0 => Chunks(plan[i].bytes, chunk) = plan[i].chunks
             /\ plan[i].first * chunk + plan[i].bytes =
                  IF i + 1 \in DOMAIN plan THEN plan[i + 1].first * chunk ELSE size
             /\ plan[i].bytes <= 2 * MB + plan[i].chunks * Overhead(size)
  <2>1. i = 0 /\ i + 1 \notin DOMAIN plan /\ 0 * chunk = 0
    BY <1>2, <1>3
  <2> QED BY <1>3, <1>4, <1>5, <2>1
<1>10. 0 \in DOMAIN plan /\ plan[0].first = 0
  BY <1>3
<1>11. said.batches * said.reduction <= said.chunks
       /\ (size >= ChunkingThreshold /\ said.chunks > 4 => said.batches < said.chunks)
  BY <1>7
<1>12. said.chunks = MapThenSumSet(LAMBDA i : plan[i].chunks, DOMAIN plan)
  BY <1>7, <1>8
<1> QED BY <1>9, <1>10, <1>11, <1>12, Zenon DEF BatchesRight, plan, said, chunk

(* What is sent in batches, and what is reported of them.                   *)
LEMMA LongIsBatched ==
  ASSUME NEW bands, NEW size \in Nat, size >= ChunkingThreshold
  PROVE  BatchesRight(bands, size)
<1> DEFINE plan == AdaptiveSend(bands, size)
           said == Report(bands, size)
           over == Overhead(size)
           original == size - over
           plain == ChunkSizeFor(bands, original)
           k == plain + over
           chunk == IF size < ChunkingThreshold THEN AtLeast(size, 1) ELSE k
           batch == ForPayload(original, plain)
           all == Chunks(size, k)
           m == Chunks(all, batch)
<1>1. over \in {0, 28} /\ 2 * MB = 2097152 /\ ChunkingThreshold = 32768
  BY DEF Overhead, MB, KB, ChunkingThreshold
<1>2. /\ chunk = k
      /\ plan = [i \in 0..m - 1 |->
                   [first |-> i * batch, chunks |-> UpTo(batch, all - i * batch),
                    bytes |-> UpTo((i + 1) * batch * k, size) - i * batch * k]]
  <2>1. ~(size < ChunkingThreshold)
    BY <1>1
  <2> QED BY <2>1 DEF AdaptiveSend, SendChunked, MakeBatchFrames, Batches, Chunks
<1>3. /\ said.chunks = all /\ said.batches = Cardinality(DOMAIN plan)
      /\ said.reduction = all \div AtLeast(Cardinality(DOMAIN plan), 1)
  BY <1>1 DEF Report
<1> HIDE DEF plan, said, over, chunk
<1>4. original \in Nat \ {0} /\ size \in Nat \ {0} /\ size = original + over /\ over \in Nat
  BY <1>1
<1> HIDE DEF original
<1>5. plain \in ChunkSizesChosen /\ plain \in Nat \ {0} /\ k \in Nat \ {0}
  <2>1. plain \in ChunkSizesChosen
    BY <1>4, SizesChosen
  <2> HIDE DEF plain
  <2> QED BY <1>4, <2>1 DEF ChunkSizesChosen
<1> HIDE DEF plain
<1>6. /\ batch \in {1, 2, 8, 16, 32} /\ batch \in Nat \ {0}
      /\ batch * plain <= 2 * MB
      /\ batch = 1 => Chunks(original, plain) <= 4
  BY <1>4, <1>5, BatchesChosen
<1> HIDE DEF batch
<1>7. all \in Nat /\ all # 0 /\ size <= all * k /\ all * k < size + k
  BY <1>4, <1>5, ChunkCounts
<1> HIDE DEF k
<1>8. m \in Nat /\ m # 0 /\ all <= m * batch /\ m * batch < all + batch
  <2> HIDE DEF all
  <2> QED BY <1>6, <1>7, ChunkCounts
<1>9. DOMAIN plan = 0..m - 1 /\ \A i \in 0..m - 1 :
        /\ plan[i].first = i * batch /\ plan[i].chunks = UpTo(batch, all - i * batch)
        /\ plan[i].bytes = UpTo((i + 1) * batch * k, size) - i * batch * k
  <2> HIDE DEF m, all
  <2> QED BY <1>2
<1>10. ASSUME NEW i \in 0..m - 1
       PROVE  /\ plan[i].chunks \in 1..batch /\ plan[i].bytes \in Nat
              /\ plan[i].bytes <= plan[i].chunks * k
              /\ Chunks(plan[i].bytes, k) = plan[i].chunks
              /\ i * batch * k + plan[i].bytes
                   = IF i + 1 \in 0..m - 1 THEN (i + 1) * batch * k ELSE size
              /\ plan[i].chunks = UpTo((i + 1) * batch, all) - UpTo(i * batch, all)
  <2>1. PICK c : c = plan[i].chunks
    OBVIOUS
  <2>2. PICK b : b = plan[i].bytes
    OBVIOUS
  <2>3. c = UpTo(batch, all - i * batch)
        /\ b = UpTo((i + 1) * batch * k, size) - i * batch * k
    BY <1>9, <2>1, <2>2
  <2>4. PICK a : a = all
    OBVIOUS
  <2>5. PICK last : last = m
    OBVIOUS
  <2>6. a = Chunks(size, k) /\ last = Chunks(a, batch)
    BY <2>4, <2>5
  <2> HIDE DEF all, m
  <2>7. i \in 0..last - 1
    BY <2>5
  <2>8. /\ c \in 1..batch /\ b \in Nat /\ b <= c * k
        /\ Chunks(b, k) = c
        /\ i * batch * k + b = IF i + 1 \in 0..last - 1 THEN (i + 1) * batch * k ELSE size
        /\ c = UpTo((i + 1) * batch, a) - UpTo(i * batch, a)
    <3>1. c = UpTo(batch, a - i * batch)
      BY <2>3, <2>4
    <3> QED BY <1>4, <1>5, <1>6, <2>3, <2>6, <2>7, <3>1, BatchAt, SMTT(30)
  <2> QED BY <2>1, <2>2, <2>4, <2>5, <2>8
<1>11. IsFiniteSet(0..m - 1) /\ Cardinality(0..m - 1) = m
  <2> HIDE DEF m
  <2> QED BY <1>8, FS_Interval
<1> HIDE DEF m, all
<1>12. /\ said.chunks = all /\ said.batches = m /\ said.reduction = all \div m
  BY <1>3, <1>8, <1>9, <1>11 DEF AtLeast
<1>13. said.batches * said.reduction <= said.chunks
  BY <1>7, <1>8, <1>12, Quotients
<1>14. MapThenSumSet(LAMBDA i : plan[i].chunks, DOMAIN plan) = all
  <2>1. MapThenSumSet(LAMBDA i : plan[i].chunks, 0..m - 1)
          = SumFunction([i \in 0..m - 1 |-> plan[i].chunks])
    BY <1>11, ChunksAddUp
  <2>2. PICK f : f = [i \in 0..m - 1 |-> plan[i].chunks]
    OBVIOUS
  <2>3. PICK F : F = [i \in 0..m |-> UpTo(i * batch, all)]
    OBVIOUS
  <2>4. Between(f, F, 0, m)
    <3>1. \A i \in 0..m : i * batch \in Nat /\ UpTo(i * batch, all) \in Int
      BY <1>6, <1>7, MoreTimes DEF UpTo
    <3>2. F \in [0..m -> Int]
      BY <2>3, <3>1
    <3>3. f \in [0..0 + m - 1 -> Int]
      <4>1. \A i \in 0..m - 1 : plan[i].chunks \in Int
        BY <1>6, <1>10
      <4>2. f \in [0..m - 1 -> Int]
        BY <2>2, <4>1
      <4>3. 0 + m - 1 = m - 1
        BY <1>8
      <4> QED BY <4>2, <4>3
    <3>4. \A i \in 0..m - 1 : f[0 + i] = F[i + 1] - F[i]
      <4> TAKE i \in 0..m - 1
      <4>1. 0 + i = i /\ i + 1 \in 0..m /\ i \in 0..m
        BY <1>8
      <4>2. f[0 + i] = UpTo((i + 1) * batch, all) - UpTo(i * batch, all)
        BY <1>10, <2>2, <4>1
      <4>3. F[i + 1] = UpTo((i + 1) * batch, all) /\ F[i] = UpTo(i * batch, all)
        BY <2>3, <4>1
      <4> QED BY <4>2, <4>3
    <3> QED BY <3>2, <3>3, <3>4 DEF Between
  <2>5. SumFunction(f) = F[m] - F[0]
    BY <1>8, <2>4, PiecesAddUp
  <2>6. F[m] = all /\ F[0] = 0
    <3>1. m \in 0..m /\ 0 \in 0..m /\ 0 * batch = 0 /\ m * batch \in Nat
      BY <1>6, <1>8, MoreTimes
    <3>2. F[m] = UpTo(m * batch, all) /\ F[0] = UpTo(0, all)
      BY <2>3, <3>1
    <3> QED BY <1>7, <1>8, <3>1, <3>2 DEF UpTo
  <2> QED BY <1>7, <1>9, <2>1, <2>2, <2>5, <2>6
<1>15. all > 4 => m < all
  <2> SUFFICES ASSUME all > 4 PROVE m < all
    OBVIOUS
  <2>1. Chunks(original, plain) > 4
    <3>1. PICK n : n = Chunks(original, plain)
      OBVIOUS
    <3>2. n \in Nat /\ original <= n * plain /\ n # 0 /\ n * plain \in Nat
      BY <1>4, <1>5, <3>1, ChunkCounts, MoreTimes
    <3>3. n * k = n * plain + n * over /\ n * over \in Nat /\ over <= n * over
      <4>1. over = 0 \/ over = 28
        BY <1>1
      <4> QED BY <1>4, <1>5, <3>2, <4>1 DEF k
    <3>4. size <= n * k
      BY <1>4, <3>2, <3>3
    <3>5. n < all => n * k + k <= all * k
      BY <1>5, <1>7, <3>2, MoreTimes
    <3>6. n * k \in Nat /\ all * k \in Nat
      BY <1>5, <1>7, <3>2
    <3>7. all <= n
      BY <1>4, <1>5, <1>7, <3>2, <3>4, <3>5, <3>6
    <3> QED BY <1>7, <3>1, <3>2, <3>7
  <2>2. batch \in {2, 8, 16, 32}
    <3>1. batch # 1
      <4>1. Chunks(original, plain) \in Nat
        BY <1>4, <1>5, ChunkCounts
      <4> QED BY <1>6, <2>1, <4>1
    <3> QED BY <1>6, <3>1
  <2> QED BY <1>7, <1>8, <2>2
<1>16. ASSUME NEW i \in DOMAIN plan
      PROVE  /\ plan[i].chunks > 0
             /\ size > 0 => Chunks(plan[i].bytes, chunk) = plan[i].chunks
             /\ plan[i].first * chunk + plan[i].bytes =
                  IF i + 1 \in DOMAIN plan THEN plan[i + 1].first * chunk ELSE size
             /\ plan[i].bytes <= 2 * MB + plan[i].chunks * Overhead(size)
  <2>1. i \in 0..m - 1
    BY <1>9
  <2>2. plan[i].chunks \in 1..batch /\ plan[i].bytes \in Nat
        /\ plan[i].bytes <= plan[i].chunks * k
    BY <1>10, <2>1
  <2>3. plan[i].chunks > 0
    BY <1>6, <2>2
  <2>4. Chunks(plan[i].bytes, chunk) = plan[i].chunks
    BY <1>2, <1>10, <2>1
  <2>5. plan[i].first * chunk + plan[i].bytes =
                  IF i + 1 \in DOMAIN plan THEN plan[i + 1].first * chunk ELSE size
    <3>1. plan[i].first = i * batch
      BY <1>9, <2>1
    <3>2. i + 1 \in 0..m - 1 => plan[i + 1].first = (i + 1) * batch
      BY <1>9
    <3> QED BY <1>2, <1>9, <1>10, <2>1, <3>1, <3>2
  <2>6. plan[i].bytes <= 2 * MB + plan[i].chunks * Overhead(size)
    <3>1. PICK c : c = plan[i].chunks
      OBVIOUS
    <3>2. c \in Nat /\ c <= batch
      BY <1>6, <2>2, <3>1
    <3>3. c * k = c * plain + c * over /\ c * plain \in Nat /\ c * over \in Nat
      BY <1>4, <1>5, <3>2 DEF k
    <3>4. c * plain <= batch * plain
      BY <1>5, <1>6, <3>2, MoreTimes
    <3>5. batch * plain \in Nat /\ over = Overhead(size)
      BY <1>5, <1>6 DEF over
    <3> QED BY <1>1, <1>6, <2>2, <3>1, <3>3, <3>4, <3>5
  <2> QED BY <2>3, <2>4, <2>5, <2>6
<1>17. 0 \in DOMAIN plan /\ plan[0].first = 0
  <2>1. 0 \in 0..m - 1 /\ 0 * batch = 0
    BY <1>6, <1>8
  <2> QED BY <1>9, <2>1
<1>18. said.batches * said.reduction <= said.chunks
       /\ (size >= ChunkingThreshold /\ said.chunks > 4 => said.batches < said.chunks)
  BY <1>12, <1>13, <1>15
<1>19. said.chunks = MapThenSumSet(LAMBDA i : plan[i].chunks, DOMAIN plan)
  BY <1>12, <1>14
<1> QED BY <1>16, <1>17, <1>18, <1>19, Zenon
        DEF BatchesRight, plan, said, chunk, k, plain, original, over

-----------------------------------------------------------------------------
(* The numbers that plans are made of.                                      *)
LEMMA PlansGiven ==
  /\ MaxPlan \in Nat
  /\ \A s \in Sizes \cup {0, 1, 4095, 4096} : s \in Nat /\ s < 2^31
  /\ \A p \in Links : p.rtt \in Nat /\ p.bandwidth \in Nat
<1>1. PICK top \in Nat : top = 1024 * MB /\ 4096 <= top
  BY SizesAre, SMT
<1>2. PICK power \in Nat : power = 2^31 /\ top < power
  BY <1>1, PowersOfTwo
<1>3. \A s \in Sizes : s \in 0..top
  BY <1>1, PlansAssumption
<1>4. \A s \in Sizes \cup {0, 1, 4095, 4096} : s \in Nat /\ s < power
  BY <1>1, <1>2, <1>3
<1> QED BY <1>2, <1>4, PlansAssumption

(* PlansTileThePayload in the parts above.                                  *)
Planned(c) ==
  /\ c.of = "batches" => BatchesRight(c.bands, c.size)
  /\ c.of = "streams" => StreamsRight(c.size, c.chunk, c.streams)
  /\ c.of = "streams" /\ c.chunk > 0 => FramesRight(c.size, c.chunk)
  /\ c.of = "path" => PathRight(c.size, c.path)

(* The property says of a case what its parts say.                          *)
LEMMA PlansMean ==
  /\ PlansTileThePayload <=> Planned(case)
  /\ PlansTileThePayload' <=> Planned(case')
<1>1. PlansTileThePayload <=> Planned(case)
  BY Zenon DEF Planned, PlansTileThePayload, BatchesRight, StreamsRight, FramesRight, PathRight
<1>2. PlansTileThePayload' <=> Planned(case)'
  BY <1>1, PTL
<1>3. Planned(case)' <=> Planned(case')
  OBVIOUS
<1> QED BY <1>1, <1>2, <1>3

(* Each plan that is picked is as PlansTileThePayload says.                 *)
LEMMA PlanRight ==
  ASSUME PickBatches \/ PickStreams \/ PickPath
  PROVE  Planned(case')
<1>1. CASE PickBatches
  <2>1. PICK b \in Bands, s \in Sizes : case' = [of |-> "batches", size |-> s, bands |-> b]
    BY <1>1 DEF PickBatches
  <2>2. s \in Nat
    BY PlansGiven
  <2>3. BatchesRight(b, s)
    <3>1. CASE s < ChunkingThreshold
      BY <2>2, <3>1, ShortIsSingle
    <3>2. CASE s >= ChunkingThreshold
      BY <2>2, <3>2, LongIsBatched
    <3> QED BY <2>2, <3>1, <3>2 DEF ChunkingThreshold, KB
  <2>4. case'.of = "batches" /\ case'.size = s /\ case'.bands = b
    BY <2>1
  <2> QED BY <2>3, <2>4 DEF Planned
<1>2. CASE PickStreams
  <2>1. PICK s \in 0..MaxPlan, c \in 0..MaxPlan, n \in 0..MaxPlan :
          case' = [of |-> "streams", size |-> s, chunk |-> c, streams |-> n]
    BY <1>2 DEF PickStreams
  <2>2. s \in Nat /\ c \in Nat /\ n \in Nat
    BY PlansGiven
  <2>3. StreamsRight(s, c, n)
    BY <2>2, StreamsPlanned
  <2>4. c > 0 => FramesRight(s, c)
    BY <2>2, FramesPlanned
  <2>5. case'.of = "streams" /\ case'.size = s /\ case'.chunk = c /\ case'.streams = n
    BY <2>1
  <2> QED BY <2>3, <2>4, <2>5 DEF Planned
<1>3. CASE PickPath
  <2>1. PICK s \in Sizes \cup {0, 1, 4095, 4096}, p \in Links :
          case' = [of |-> "path", size |-> s, path |-> p]
    BY <1>3 DEF PickPath
  <2>2. p.rtt \in Nat /\ p.bandwidth \in Nat /\ s \in Nat /\ s < 2^31
    BY PlansGiven
  <2>3. PathRight(s, p)
    BY <2>2, PathPlanned
  <2>4. case'.of = "path" /\ case'.size = s /\ case'.path = p
    BY <2>1
  <2> QED BY <2>3, <2>4 DEF Planned
<1> QED BY <1>1, <1>2, <1>3

(* Whatever the payload, the batches of AdaptiveChunker lie end to end and  *)
(* are all of it, within 2 MB each, as their headers and the report say;    *)
(* plan_parallel_chunks has each byte in one chunk, and no stream has two   *)
(* chunks more than another; of the frames of make_chunk_frames the first   *)
(* says that it is first and the last that it is last; and the chunk for a  *)
(* path is the power of two that its capacity asks for.                     *)
(* (adaptive.py, chunk_qframe.py, batch_config.py:6, chunker.rs:30)         *)
THEOREM PlansAreWhole == Spec => []PlansTileThePayload
<1>1. Init => PlansTileThePayload
  BY PlansMean DEF Init, NoCase, Planned
<1>2. PlansTileThePayload /\ [Next]_case => PlansTileThePayload'
  <2>1. Planned(case) /\ UNCHANGED case => Planned(case')
    OBVIOUS
  <2>2. case'.of \notin {"batches", "streams", "path"} => Planned(case')
    BY DEF Planned
  <2>3. PickTopic \/ PickBlock \/ PickGroup \/ PickStream
          => case'.of \notin {"batches", "streams", "path"}
    <3>1. PickTopic => case'.of = "topic"
      BY DEF PickTopic
    <3>2. PickBlock => case'.of = "block"
      BY DEF PickBlock
    <3>3. PickGroup => case'.of = "group"
      BY DEF PickGroup
    <3>4. PickStream => case'.of \in {"mqtt", "quic", "tcp"}
      BY DEF PickStream
    <3> QED BY <3>1, <3>2, <3>3, <3>4
  <2>4. {"batches", "streams", "path"} \cap OtherKinds = {}
    BY DEF OtherKinds
  <2>5. Next => \/ PickBatches \/ PickStreams \/ PickPath
                \/ case'.of \notin {"batches", "streams", "path"}
    BY OtherPicks, <2>3, <2>4
  <2> HIDE DEF Planned
  <2> QED BY <2>1, <2>2, <2>5, PlanRight, PlansMean
<1> QED BY <1>1, <1>2, PTL DEF Spec

-----------------------------------------------------------------------------
(* The encoder knows the place of every field of its baseline.              *)
FieldsOrdered == baseline # NoReading => fieldOrder \in Orders(DOMAIN baseline)

(* The encoder's baseline is the reading of the last frame it sent.         *)
LastIsBaseline ==
  baseline # NoReading /\ wire # <<>> => wire[Len(wire)].reading = baseline

FullIsReading ==
  \A i \in 1..Len(wire) :
    wire[i].frame.type = "FULL" => wire[i].frame.body = wire[i].reading

(* A DELTA frame turns the reading of the frame before it into its own.     *)
Chained ==
  \A i \in 1..(Len(wire) - 1) :
    wire[i + 1].frame.type = "DELTA" =>
      Applied(wire[i].reading, wire[i + 1].frame) = wire[i + 1].reading

(* A DELTA frame at the head fits the decoder's baseline, if none was lost. *)
HeadFits ==
  wire # <<>> /\ ~gap /\ known # NoReading /\ wire[1].frame.type = "DELTA" =>
    Applied(known, wire[1].frame) = wire[1].reading

(* The inductive invariant: BaselinesAgree speaks of an empty wire only;    *)
(* the frames on their way have to lead from one baseline to the other.     *)
DeltaInv ==
  /\ TypeOK
  /\ FieldsOrdered
  /\ LastIsBaseline
  /\ FullIsReading
  /\ Chained
  /\ HeadFits
  /\ BaselinesAgree

-----------------------------------------------------------------------------
(* A reading is something a decoder may hold, and so is not Nothing.        *)
LEMMA ReadingsArePartial == Readings \subseteq Partials /\ NoReading \notin Readings
<1>1. ASSUME NEW s \in Schemas PROVE [s -> Values] \subseteq Partials
  BY s \in SUBSET UNION Schemas DEF Partials
<1>2. Readings \subseteq Partials
  BY <1>1 DEF Readings
<1> QED BY <1>2, NoReadingAssumption

(* Applying a frame to a baseline gives values of fields again.             *)
LEMMA AppliedType ==
  ASSUME NEW old \in Partials, NEW d \in Frames
  PROVE  Applied(old, d) \in Partials
<1>1. d.body \in Partials
  BY DEF Frames
<1>2. PICK fs \in SUBSET UNION Schemas : old \in [fs -> Values]
  BY DEF Partials
<1>3. PICK gs \in SUBSET UNION Schemas : d.body \in [gs -> Values]
  BY <1>1 DEF Partials
<1>4. Updated(old, d.body) \in [fs \cup gs -> Values]
  BY <1>2, <1>3 DEF Updated
<1>5. fs \cup gs \in SUBSET UNION Schemas
  OBVIOUS
<1>6. Updated(old, d.body) \in Partials
  BY <1>4, <1>5 DEF Partials
<1> QED BY <1>6 DEF Applied

(* A DELTA frame is only built when its bitmask reaches every field: then   *)
(* bitmask 0 means that nothing changed, and in each case the baseline and  *)
(* the frame give the reading back.                                         *)
LEMMA DeltaRebuilds ==
  ASSUME TypeOK, FieldsOrdered, NEW r \in Readings, ~NeedsFull(r)
  PROVE  /\ Delta(r) \in Frames
         /\ Applied(baseline, Delta(r)) = r
<1> DEFINE s == DOMAIN r
<1>1. PICK t \in Schemas : r \in [t -> Values]
  BY DEF Readings
<1>2. s = t /\ IsFiniteSet(s) /\ Cardinality(s) \in Nat
  BY <1>1, SchemasAssumption, FS_CardinalityType
<1>3. baseline # NoReading /\ baseline \in Readings /\ DOMAIN baseline = s
  BY DEF NeedsFull, TypeOK
<1>4. baseline \in [s -> Values]
  BY <1>3 DEF Readings
<1>5. fieldOrder \in [1..Cardinality(s) -> s]
      /\ \A f \in s : \E i \in 1..Cardinality(s) : fieldOrder[i] = f
  BY <1>3 DEF FieldsOrdered, Orders
<1>6. Len(fieldOrder) = Cardinality(s)
  BY <1>2, <1>5
<1>7. Cardinality(s) <= MaxFields
  BY <1>2, MaxFieldsAssumption DEF NeedsFull, TooManyChanges
<1>8. Bitmask(r) \in SUBSET (1..MaxFields)
  BY <1>2, <1>6, MaxFieldsAssumption DEF Bitmask
<1>9. Changed(r) \subseteq s
  BY DEF Changed
<1>10. [f \in Changed(r) |-> r[f]] \in [Changed(r) -> Values]
  BY <1>1, <1>9
<1>11. Changed(r) \in SUBSET UNION Schemas
  BY <1>2, <1>9
<1>12. [f \in Changed(r) |-> r[f]] \in Partials
  BY <1>10, <1>11 DEF Partials
<1>13. Delta(r) \in Frames
  BY <1>8, <1>12 DEF Delta, Frames
<1>14. CASE Bitmask(r) = {}
  <2>1. Changed(r) = {}
    <3>1. SUFFICES ASSUME NEW f \in Changed(r) PROVE FALSE
      OBVIOUS
    <3>2. PICK i \in 1..Cardinality(s) : fieldOrder[i] = f
      BY <1>5, <1>9
    <3>3. i \in Bitmask(r)
      BY <1>2, <1>6, <1>7, <3>2, MaxFieldsAssumption DEF Bitmask
    <3> QED BY <1>14, <3>3
  <2>2. \A f \in s : baseline[f] = r[f]
    BY <2>1 DEF Changed
  <2>3. baseline = r
    BY <1>1, <1>2, <1>4, <2>2
  <2> QED BY <1>13, <1>14, <2>3 DEF Applied, Delta
<1>15. CASE Bitmask(r) # {}
  <2> DEFINE body == [f \in Changed(r) |-> r[f]]
  <2>1. Applied(baseline, Delta(r)) = Updated(baseline, body)
    BY <1>15 DEF Applied, Delta
  <2>2. Updated(baseline, body) =
          [f \in s |-> IF f \in Changed(r) THEN r[f] ELSE baseline[f]]
    BY <1>3, <1>9 DEF Updated
  <2>3. \A f \in s : f \notin Changed(r) => baseline[f] = r[f]
    BY DEF Changed
  <2>4. Updated(baseline, body) = [f \in s |-> r[f]]
    BY <2>2, <2>3
  <2>5. [f \in s |-> r[f]] = r
    BY <1>1, <1>2
  <2> QED BY <1>13, <2>1, <2>4, <2>5
<1> QED BY <1>14, <1>15

(* Putting a frame on the wire, and taking the first one off.               *)
LEMMA AppendFacts ==
  ASSUME NEW T, NEW w \in Seq(T), NEW x \in T
  PROVE  /\ Append(w, x) \in Seq(T)
         /\ Len(Append(w, x)) = Len(w) + 1
         /\ \A i \in 1..Len(w) : Append(w, x)[i] = w[i]
         /\ Append(w, x)[Len(w) + 1] = x
         /\ Append(w, x) # <<>>
OBVIOUS

LEMMA TailFacts ==
  ASSUME NEW T, NEW w \in Seq(T), w # <<>>
  PROVE  /\ Len(w) \in Nat \ {0}
         /\ w[1] \in T /\ Head(w) = w[1]
         /\ Tail(w) \in Seq(T)
         /\ Len(Tail(w)) = Len(w) - 1
         /\ \A i \in 1..(Len(w) - 1) : Tail(w)[i] = w[i + 1]
         /\ Tail(w) # <<>> => Len(w) > 1
         /\ Tail(w) = <<>> => Len(w) = 1
<1>1. /\ Len(w) \in Nat \ {0}
      /\ w[1] \in T /\ Head(w) = w[1]
      /\ Tail(w) \in Seq(T)
      /\ Len(Tail(w)) = Len(w) - 1
      /\ \A i \in 1..(Len(w) - 1) : Tail(w)[i] = w[i + 1]
      /\ Tail(w) # <<>> => Len(w) > 1
  OBVIOUS
<1>2. Tail(w) = <<>> => Len(Tail(w)) = 0
  <2>1. Len(<<>>) = 0
    OBVIOUS
  <2> QED BY <2>1, Zenon
<1> QED BY <1>1, <1>2

-----------------------------------------------------------------------------
(* what the wire carries                                                    *)
Letters == [frame : Frames, reading : Readings]

(* With no frame on its way and no baselines there is nothing to agree on.  *)
LEMMA EmptyInv ==
  (TypeOK /\ wire = <<>> /\ baseline = NoReading /\ known = NoReading) => DeltaInv
<1>1. wire = <<>> => 1..Len(wire) = {} /\ 1..(Len(wire) - 1) = {}
  <2>1. Len(<<>>) = 0
    OBVIOUS
  <2> QED BY <2>1
<1> QED BY <1>1 DEF DeltaInv, FieldsOrdered, LastIsBaseline, FullIsReading, Chained,
                    HeadFits, BaselinesAgree

LEMMA DeltaStarts == DeltaInit => DeltaInv
<1>1. DeltaInit => TypeOK
  BY EmptySeq DEF DeltaInit, TypeOK
<1> QED BY <1>1, EmptyInv DEF DeltaInit

(* Sending the reading r as frame d preserves the invariant when d is a     *)
(* FULL frame of r, or turns the baseline into r.                           *)
LEMMA SendInv ==
  ASSUME DeltaInv, NEW r \in Readings, NEW d \in Frames,
         wire' = Append(wire, [frame |-> d, reading |-> r]),
         baseline' = r,
         d.type = "FULL" => d.body = r,
         d.type = "DELTA" => baseline # NoReading /\ Applied(baseline, d) = r,
         fieldOrder' \in Orders(DOMAIN r),
         UNCHANGED <<known, shown, gap>>
  PROVE  DeltaInv'
<1> DEFINE x == [frame |-> d, reading |-> r]
<1> DEFINE n == Len(wire)
<1>1. x \in Letters /\ x.frame = d /\ x.reading = r
  BY DEF Letters
<1>2. wire \in Seq(Letters) /\ n \in Nat
  BY DEF DeltaInv, TypeOK, Letters
<1>3. /\ wire' \in Seq(Letters)
      /\ Len(wire') = n + 1
      /\ \A i \in 1..n : wire'[i] = wire[i]
      /\ wire'[n + 1] = x
      /\ wire' # <<>>
  BY <1>1, <1>2, AppendFacts
<1>4. r # NoReading
  BY ReadingsArePartial
<1>5. TypeOK'
  <2>1. PICK t \in Schemas : DOMAIN r = t
    BY DEF Readings
  <2>2. Cardinality(t) \in Nat
    BY SchemasAssumption, FS_CardinalityType
  <2>3. fieldOrder' \in [1..Cardinality(t) -> t]
    BY <2>1 DEF Orders
  <2>4. fieldOrder' \in [1..Cardinality(t) -> UNION Schemas]
    BY <2>3
  <2>5. fieldOrder' \in Seq(UNION Schemas)
    BY <2>2, <2>4
  <2> QED BY <1>3, <2>5 DEF DeltaInv, TypeOK, Letters
<1>6. FieldsOrdered'
  BY DEF FieldsOrdered
<1>7. LastIsBaseline'
  BY <1>1, <1>3 DEF LastIsBaseline
<1>8. FullIsReading'
  BY <1>1, <1>2, <1>3 DEF FullIsReading, DeltaInv
<1>9. Chained'
  <2>1. SUFFICES ASSUME NEW i \in 1..n, wire'[i + 1].frame.type = "DELTA"
                 PROVE  Applied(wire'[i].reading, wire'[i + 1].frame)
                          = wire'[i + 1].reading
    BY <1>2, <1>3 DEF Chained
  <2>2. CASE i = n
    BY <1>1, <1>2, <1>3, <2>1, <2>2 DEF DeltaInv, LastIsBaseline
  <2>3. CASE i < n
    <3>1. i \in 1..(n - 1) /\ wire'[i] = wire[i] /\ wire'[i + 1] = wire[i + 1]
      BY <1>2, <1>3, <2>3
    <3> QED BY <2>1, <3>1 DEF DeltaInv, Chained
  <2> QED BY <1>2, <2>2, <2>3
<1>10. HeadFits'
  <2>1. CASE wire = <<>>
    <3>1. n = 0 /\ wire'[1] = x
      BY <1>3, <2>1
    <3> QED BY <1>1, <2>1, <3>1 DEF HeadFits, DeltaInv, BaselinesAgree
  <2>2. CASE wire # <<>>
    <3>1. wire'[1] = wire[1]
      BY <1>2, <1>3, <2>2
    <3> QED BY <2>2, <3>1 DEF HeadFits, DeltaInv
  <2> QED BY <2>1, <2>2
<1>11. BaselinesAgree'
  BY <1>3 DEF BaselinesAgree
<1> QED BY <1>5, <1>6, <1>7, <1>8, <1>9, <1>10, <1>11 DEF DeltaInv

LEMMA EncodeInv == DeltaInv /\ EncodeReading => DeltaInv'
<1>1. SUFFICES ASSUME DeltaInv, EncodeReading PROVE DeltaInv'
  OBVIOUS
<1>2. PICK r \in Readings : IF NeedsFull(r) THEN EncodeFull(r) ELSE EncodeDelta(r)
  BY <1>1 DEF EncodeReading
<1>3. UNCHANGED <<known, shown, gap>>
  BY <1>1 DEF EncodeReading
<1>4. CASE NeedsFull(r)
  <2>1. EncodeFull(r)
    BY <1>2, <1>4
  <2>2. Full(r) \in Frames /\ Full(r).type = "FULL" /\ Full(r).body = r
    BY ReadingsArePartial DEF Full, Frames
  <2> QED BY <1>1, <1>3, <2>1, <2>2, SendInv DEF EncodeFull
<1>5. CASE ~NeedsFull(r)
  <2>1. EncodeDelta(r)
    BY <1>2, <1>5
  <2>2. Delta(r) \in Frames /\ Applied(baseline, Delta(r)) = r
    BY <1>1, <1>5, DeltaRebuilds DEF DeltaInv
  <2>3. Delta(r).type = "DELTA"
    BY DEF Delta
  <2>4. baseline # NoReading /\ DOMAIN r = DOMAIN baseline
    BY <1>5 DEF NeedsFull
  <2>5. fieldOrder' \in Orders(DOMAIN r)
    BY <1>1, <2>1, <2>4 DEF EncodeDelta, DeltaInv, FieldsOrdered
  <2> QED BY <1>1, <1>3, <2>1, <2>2, <2>3, <2>4, <2>5, SendInv DEF EncodeDelta
<1> QED BY <1>4, <1>5

(* Taking the first frame off preserves what is said of the wire alone.     *)
LEMMA TakeInv ==
  ASSUME DeltaInv, wire # <<>>, wire' = Tail(wire), UNCHANGED <<baseline, fieldOrder>>
  PROVE  /\ wire' \in Seq(Letters)
         /\ FieldsOrdered' /\ LastIsBaseline' /\ FullIsReading' /\ Chained'
         /\ wire' # <<>> => wire'[1] = wire[2] /\ 1 \in 1..(Len(wire) - 1)
         /\ wire' = <<>> /\ baseline # NoReading => wire[1].reading = baseline
<1> DEFINE n == Len(wire)
<1>1. wire \in Seq(Letters)
  BY DEF DeltaInv, TypeOK, Letters
<1>2. /\ n \in Nat \ {0}
      /\ wire' \in Seq(Letters)
      /\ Len(wire') = n - 1
      /\ \A i \in 1..(n - 1) : wire'[i] = wire[i + 1]
      /\ wire' # <<>> => n > 1
  BY <1>1, TailFacts
<1>3. wire' = <<>> => n = 1
  BY <1>1, TailFacts
<1>4. FieldsOrdered'
  BY DEF DeltaInv, FieldsOrdered
<1>5. LastIsBaseline'
  BY <1>2 DEF DeltaInv, LastIsBaseline
<1>6. FullIsReading'
  BY <1>2 DEF DeltaInv, FullIsReading
<1>7. Chained'
  BY <1>2 DEF DeltaInv, Chained
<1>8. wire' # <<>> => wire'[1] = wire[2] /\ 1 \in 1..(n - 1)
  BY <1>2
<1>9. wire' = <<>> /\ baseline # NoReading => wire[1].reading = baseline
  BY <1>3 DEF DeltaInv, LastIsBaseline
<1> QED BY <1>2, <1>4, <1>5, <1>6, <1>7, <1>8, <1>9

(* A decoder that missed nothing and takes the head frame holds its reading;*)
(* the next frame fits it then.                                             *)
LEMMA TakenHeadFits ==
  ASSUME DeltaInv, wire # <<>>, wire' = Tail(wire), UNCHANGED <<baseline, fieldOrder>>,
         ~gap' /\ known' # NoReading => known' = wire[1].reading
  PROVE  HeadFits' /\ BaselinesAgree'
<1>1. HeadFits'
  BY TakeInv DEF HeadFits, DeltaInv, Chained
<1>2. BaselinesAgree'
  BY TakeInv DEF BaselinesAgree
<1> QED BY <1>1, <1>2

(* What decode() makes of the head frame.                                   *)
LEMMA DecodeShows ==
  ASSUME DeltaInv, DecodeFrame
  PROVE  /\ known' \in Partials \cup {NoReading}
         /\ shown' \in Partials \cup {NoReading}
         /\ gap' \in {FALSE, gap}
         /\ known' = NoReading => known = NoReading /\ shown' = NoReading /\ gap' = gap
         /\ known' # NoReading => shown' = known'
         /\ known' # NoReading /\ known = NoReading => shown' = wire[1].reading
         /\ known' # NoReading /\ ~gap' => shown' = wire[1].reading
<1> DEFINE d == wire[1].frame
<1>1. wire \in Seq(Letters) /\ wire # <<>>
  BY DEF DeltaInv, TypeOK, Letters, DecodeFrame
<1>2. wire[1] \in Letters /\ Head(wire) = wire[1] /\ 1 \in 1..Len(wire)
  BY <1>1, TailFacts
<1>3. d \in Frames /\ d.body \in Partials /\ wire[1].reading \in Readings
      /\ d.type \in {"FULL", "DELTA"}
  BY <1>2 DEF Letters, Frames
<1>4. CASE d.type = "FULL"
  <2>1. DecodeFull(d.body)
    BY <1>2, <1>4 DEF DecodeFrame
  <2>2. d.body = wire[1].reading
    BY <1>2, <1>4 DEF DeltaInv, FullIsReading
  <2> QED BY <1>3, <2>1, <2>2, NoReadingAssumption, ReadingsArePartial
          DEF DecodeFull, DeltaInv, TypeOK
<1>5. CASE d.type = "DELTA"
  <2>1. DecodeDelta(d)
    BY <1>2, <1>5 DEF DecodeFrame
  <2>2. CASE known = NoReading
    BY <2>1, <2>2 DEF DecodeDelta, DeltaInv, TypeOK
  <2>3. CASE known # NoReading
    <3>1. known' = Applied(known, d) /\ shown' = known' /\ gap' = gap
      BY <2>1, <2>3 DEF DecodeDelta
    <3>2. known' \in Partials
      BY <1>3, <2>3, <3>1, AppliedType DEF DeltaInv, TypeOK
    <3>3. ~gap => known' = wire[1].reading
      BY <1>1, <1>5, <2>3, <3>1 DEF DeltaInv, HeadFits
    <3> QED BY <2>3, <3>1, <3>2, <3>3, NoReadingAssumption
  <2> QED BY <2>2, <2>3
<1> QED BY <1>3, <1>4, <1>5

LEMMA DecodeInv == DeltaInv /\ DecodeFrame => DeltaInv'
<1>1. SUFFICES ASSUME DeltaInv, DecodeFrame PROVE DeltaInv'
  OBVIOUS
<1>2. wire # <<>> /\ wire' = Tail(wire) /\ UNCHANGED <<baseline, fieldOrder>>
  BY <1>1 DEF DecodeFrame
<1>3. ~gap' /\ known' # NoReading => known' = wire[1].reading
  BY <1>1, DecodeShows
<1>4. HeadFits' /\ BaselinesAgree'
  BY <1>1, <1>2, <1>3, TakenHeadFits
<1>5. wire' \in Seq(Letters)
      /\ FieldsOrdered' /\ LastIsBaseline' /\ FullIsReading' /\ Chained'
  BY <1>1, <1>2, TakeInv
<1>6. TypeOK'
  BY <1>1, <1>2, <1>5, DecodeShows DEF DeltaInv, TypeOK, Letters
<1> QED BY <1>4, <1>5, <1>6 DEF DeltaInv

LEMMA LoseInv == DeltaInv /\ Lose => DeltaInv'
<1>1. SUFFICES ASSUME DeltaInv, Lose PROVE DeltaInv'
  OBVIOUS
<1>2. wire # <<>> /\ wire' = Tail(wire) /\ UNCHANGED <<baseline, fieldOrder>>
      /\ gap' = TRUE
  BY <1>1 DEF Lose
<1>3. HeadFits' /\ BaselinesAgree'
  BY <1>1, <1>2, TakenHeadFits
<1>4. wire' \in Seq(Letters)
      /\ FieldsOrdered' /\ LastIsBaseline' /\ FullIsReading' /\ Chained'
  BY <1>1, <1>2, TakeInv
<1>5. TypeOK'
  BY <1>1, <1>2, <1>4 DEF Lose, DeltaInv, TypeOK, Letters
<1> QED BY <1>3, <1>4, <1>5 DEF DeltaInv

LEMMA ResetInv == DeltaInv /\ (EncoderReset \/ DecoderReset \/ RenewSession) => DeltaInv'
<1>1. ASSUME DeltaInv, EncoderReset PROVE DeltaInv'
  BY <1>1 DEF DeltaInv, EncoderReset, TypeOK, FieldsOrdered, LastIsBaseline, FullIsReading,
              Chained, HeadFits, BaselinesAgree
<1>2. ASSUME DeltaInv, DecoderReset PROVE DeltaInv'
  BY <1>2 DEF DeltaInv, DecoderReset, TypeOK, FieldsOrdered, LastIsBaseline, FullIsReading,
              Chained, HeadFits, BaselinesAgree
<1>3. ASSUME DeltaInv, RenewSession PROVE DeltaInv'
  <2>1. TypeOK'
    BY <1>3, EmptySeq DEF DeltaInv, RenewSession, TypeOK
  <2>2. (TypeOK /\ wire = <<>> /\ baseline = NoReading /\ known = NoReading)' => DeltaInv'
    BY EmptyInv, PTL
  <2> QED BY <1>3, <2>1, <2>2 DEF RenewSession
<1> QED BY <1>1, <1>2, <1>3

LEMMA DeltaStutters == DeltaInv /\ UNCHANGED vars => DeltaInv'
BY DEF vars, DeltaInv, TypeOK, FieldsOrdered, LastIsBaseline, FullIsReading, Chained,
       HeadFits, BaselinesAgree

(* The inductive invariant holds in every reachable state.                  *)
THEOREM DeltaInvariance == DeltaSpec => []DeltaInv
<1>1. DeltaInv /\ [DeltaNext]_vars => DeltaInv'
  BY EncodeInv, DecodeInv, LoseInv, ResetInv, DeltaStutters DEF DeltaNext
<1> QED BY <1>1, DeltaStarts, PTL DEF DeltaSpec

(* Type correctness: what a decoder holds is always values of fields.       *)
THEOREM DeltaTypes == DeltaSpec => []TypeOK
<1>1. DeltaInv => TypeOK
  BY DEF DeltaInv
<1> QED BY <1>1, DeltaInvariance, PTL

(* With nothing on its way and nothing lost, encode() and decode() have     *)
(* kept equal baselines.                                                    *)
THEOREM DeltaAgreement == DeltaSpec => []BaselinesAgree
<1>1. DeltaInv => BaselinesAgree
  BY DEF DeltaInv
<1> QED BY <1>1, DeltaInvariance, PTL
-----------------------------------------------------------------------------
(* Refinement: the readings the frames on their way were made of, in order. *)
Queue == [i \in 1..Len(wire) |-> wire[i].reading]

LEMMA QueueType ==
  ASSUME NEW w \in Seq(Letters)
  PROVE  /\ [i \in 1..Len(w) |-> w[i].reading] \in Seq(Readings)
         /\ Len([i \in 1..Len(w) |-> w[i].reading]) = Len(w)
<1> DEFINE q == [i \in 1..Len(w) |-> w[i].reading]
<1>1. Len(w) \in Nat
  BY LenProperties
<1>2. \A i \in 1..Len(w) : w[i] \in Letters
  BY ElementOfSeq
<1>3. q \in [1..Len(w) -> Readings]
  BY <1>2 DEF Letters
<1> QED BY <1>1, <1>3

LEMMA QueueFacts ==
  ASSUME TypeOK
  PROVE  /\ Queue \in Seq(Readings)
         /\ wire = <<>> <=> Queue = <<>>
         /\ wire # <<>> => Head(Queue) = wire[1].reading
<1>1. wire \in Seq(Letters) /\ Len(wire) \in Nat
  BY DEF TypeOK, Letters
<1>2. Queue \in Seq(Readings) /\ Len(Queue) = Len(wire)
  BY <1>1, QueueType DEF Queue
<1>3. wire = <<>> <=> Queue = <<>>
  BY <1>1, <1>2
<1>4. wire # <<>> => Head(Queue) = wire[1].reading
  BY <1>1, <1>2 DEF Queue
<1> QED BY <1>2, <1>3, <1>4

LEMMA QueueAppend ==
  ASSUME TypeOK, NEW x \in Letters, wire' = Append(wire, x)
  PROVE  Queue' = Append(Queue, x.reading)
<1>1. wire \in Seq(Letters) /\ Len(wire) \in Nat
  BY DEF TypeOK, Letters
<1>2. Queue' \in Seq(Readings) /\ Len(Queue') = Len(wire) + 1
  BY <1>1, AppendFacts, QueueType DEF Queue
<1>3. Append(Queue, x.reading) \in Seq(Readings)
      /\ Len(Append(Queue, x.reading)) = Len(wire) + 1
  BY <1>1, QueueFacts DEF Queue, Letters
<1>4. \A i \in 1..(Len(wire) + 1) : Queue'[i] = Append(Queue, x.reading)[i]
  BY <1>1, QueueFacts, AppendFacts DEF Queue
<1> QED BY <1>1, <1>2, <1>3, <1>4, SeqEqual

LEMMA QueueTail ==
  ASSUME TypeOK, wire # <<>>, wire' = Tail(wire)
  PROVE  Queue' = Tail(Queue)
<1>1. wire \in Seq(Letters) /\ Len(wire) \in Nat \ {0}
  BY TailFacts DEF TypeOK, Letters
<1>2. Queue' \in Seq(Readings) /\ Len(Queue') = Len(wire) - 1
  BY <1>1, TailFacts, QueueType DEF Queue
<1>3. Tail(Queue) \in Seq(Readings) /\ Len(Tail(Queue)) = Len(wire) - 1
  BY <1>1, QueueFacts DEF Queue
<1>4. \A i \in 1..(Len(wire) - 1) : Queue'[i] = Tail(Queue)[i]
  BY <1>1, QueueFacts, TailFacts DEF Queue
<1> QED BY <1>1, <1>2, <1>3, <1>4, SeqEqual

LEMMA EncodeSubmits == DeltaInv /\ EncodeReading => Stream!Submit
<1>1. SUFFICES ASSUME DeltaInv, EncodeReading PROVE Stream!Submit
  OBVIOUS
<1>2. PICK r \in Readings : IF NeedsFull(r) THEN EncodeFull(r) ELSE EncodeDelta(r)
  BY <1>1 DEF EncodeReading
<1>3. PICK d \in Frames : wire' = Append(wire, [frame |-> d, reading |-> r])
  <2>1. Full(r) \in Frames
    BY ReadingsArePartial DEF Full, Frames
  <2>2. ~NeedsFull(r) => Delta(r) \in Frames
    BY <1>1, DeltaRebuilds DEF DeltaInv
  <2> QED BY <1>2, <2>1, <2>2 DEF EncodeFull, EncodeDelta
<1>4. [frame |-> d, reading |-> r] \in Letters
  BY DEF Letters
<1>5. Queue' = Append(Queue, r)
  BY <1>1, <1>3, <1>4, QueueAppend DEF DeltaInv
<1> QED BY <1>1, <1>5 DEF EncodeReading, Stream!Submit, Queue

LEMMA DecodeIsShown ==
  DeltaInv /\ DecodeFrame => Stream!Show \/ Stream!ShowNothing \/ Stream!ShowAnything
<1>1. SUFFICES ASSUME DeltaInv, DecodeFrame
               PROVE  Stream!Show \/ Stream!ShowNothing \/ Stream!ShowAnything
  OBVIOUS
<1>2. Queue # <<>> /\ Head(Queue) = wire[1].reading /\ Queue' = Tail(Queue)
  BY <1>1, QueueFacts, QueueTail DEF DecodeFrame, DeltaInv
<1>3. CASE known' = NoReading
  BY <1>1, <1>2, <1>3, DecodeShows DEF Stream!ShowNothing, Queue
<1>4. CASE known' # NoReading /\ shown' = wire[1].reading
  BY <1>1, <1>2, <1>4, DecodeShows DEF Stream!Show, Queue
<1>5. CASE known' # NoReading /\ shown' # wire[1].reading
  <2>1. known # NoReading /\ gap' = gap /\ gap' # FALSE
    BY <1>1, <1>5, DecodeShows
  <2>2. gap
    BY <1>1, <2>1 DEF DeltaInv, TypeOK
  <2> QED BY <1>2, <1>5, <2>1, <2>2 DEF Stream!ShowAnything, Queue
<1> QED BY <1>3, <1>4, <1>5

LEMMA LoseLoses == DeltaInv /\ Lose => Stream!Lose
BY QueueFacts, QueueTail DEF Lose, DeltaInv, Stream!Lose, Queue

LEMMA ResetForgets ==
  /\ EncoderReset => UNCHANGED <<Queue, shown, known # NoReading, gap>>
  /\ DecoderReset => Stream!ReceiverForgets
  /\ RenewSession => Stream!NewSession
<1>1. wire' = <<>> => Queue' = <<>>
  <2>1. Len(<<>>) = 0
    OBVIOUS
  <2>2. wire' = <<>> => Queue' = [i \in 1..0 |-> wire'[i].reading]
    BY <2>1 DEF Queue
  <2> QED BY <2>2
<1>2. EncoderReset => UNCHANGED <<Queue, shown, known # NoReading, gap>>
  BY DEF EncoderReset, Queue
<1>3. DecoderReset => Stream!ReceiverForgets
  BY DEF DecoderReset, Stream!ReceiverForgets
<1>4. RenewSession => Stream!NewSession
  BY <1>1 DEF RenewSession, Stream!NewSession, Queue
<1> QED BY <1>2, <1>3, <1>4

(* What decode() returns is what was encoded, in order, as long as nothing  *)
(* was lost, for any readings, any width of the bitmask and any resets.     *)
THEOREM DeltaImplements == DeltaSpec => ShowsReadings
<1>1. DeltaInit => Stream!Init
  <2>1. DeltaInit => Queue = <<>>
    BY DeltaStarts, QueueFacts DEF DeltaInit, DeltaInv
  <2> QED BY <2>1 DEF DeltaInit, Stream!Init, Queue
<1>2. DeltaInv /\ [DeltaNext]_vars => [Stream!Next]_<<Queue, shown, known # NoReading, gap>>
  <2>1. UNCHANGED vars => UNCHANGED <<Queue, shown, known # NoReading, gap>>
    BY DEF vars, Queue
  <2> QED BY <2>1, EncodeSubmits, DecodeIsShown, LoseLoses, ResetForgets
          DEF DeltaNext, Stream!Next
<1> QED BY <1>1, <1>2, DeltaInvariance, PTL DEF DeltaSpec, ShowsReadings, Stream!Spec, Queue
=============================================================================
