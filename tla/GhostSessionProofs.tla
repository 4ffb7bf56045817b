------------------------ MODULE GhostSessionProofs ------------------------
(***************************************************************************)
(* Proofs about GhostSession for every finite set of sequence numbers and  *)
(* every size of the window and of the receiver's memory.                  *)
(***************************************************************************)
EXTENDS GhostSession, Inductions, FiniteSetTheorems, TLAPS

-----------------------------------------------------------------------------
(* The entries that are looked at come one after the other.                 *)
LEMMA EntriesInOrder ==
  ASSUME NEW S, IsFiniteSet(S)
  PROVE  \E n \in Nat : SetToSeq(S) \in [1..n -> S]
<1>1. Cardinality(S) \in Nat /\ ExistsBijection(1..Cardinality(S), S)
  BY FS_CardinalityType
<1>2. \E f \in [1..Cardinality(S) -> S] : IsInjective(f)
  BY <1>1 DEF ExistsBijection, Bijection, Injection
<1>3. SetToSeq(S) \in [1..Cardinality(S) -> S]
  BY <1>2 DEF SetToSeq
<1> QED BY <1>1, <1>3

(* While the chance of "bad" is small, detect_loss() finds nothing.         *)
LEMMA NothingFound ==
  ASSUME NEW c, ~(500 + BadProbability(c) > 850), NEW n \in Nat, NEW seq, DOMAIN seq = 1..n
  PROVE  FoldLeft(Examined, [chain |-> c, lost |-> {}], seq) = [chain |-> c, lost |-> {}]
<1> DEFINE base == [chain |-> c, lost |-> {}]
           D == DOMAIN seq
           Step(iter, s) == IF s = {} THEN base ELSE Examined(iter[s \ {Max(s)}], seq[Max(s)])
           iter == CHOOSE f : f = [s \in SUBSET D |-> Step(f, s)]
<1>1. \A s : Examined(base, s) = base
  BY DEF Examined
<1>2. FoldLeft(Examined, base, seq) = iter[D]
  BY DEF FoldLeft, MapThenFoldSet
<1>3. iter = [s \in SUBSET D |-> Step(iter, s)]
  <2> DEFINE g == [s \in SUBSET D |-> base]
  <2>1. \A s \in SUBSET D : s \ {Max(s)} \in SUBSET D
    OBVIOUS
  <2>2. \A s \in SUBSET D : Step(g, s) = base
    BY <1>1, <2>1
  <2>3. g = [s \in SUBSET D |-> Step(g, s)]
    BY <2>2
  <2> HIDE DEF g, Step
  <2> QED BY <2>3
<1> HIDE DEF iter
<1> DEFINE Bad == {s \in SUBSET D : iter[s] # base}
<1>4. iter[{}] = base
  BY <1>3
<1>5. ASSUME Bad # {} PROVE FALSE
  <2>1. IsFiniteSet(D)
    BY FS_Interval
  <2>2. PICK s \in Bad : \A x \in s : s \ {x} \notin Bad
    BY <1>5, <2>1, SmallestSubset
  <2>3. s # {} /\ s \in SUBSET D
    BY <1>4
  <2>4. Max(s) \in s
    BY <2>3, LastExists
  <2>5. iter[s \ {Max(s)}] = base
    BY <2>2, <2>3, <2>4
  <2>6. iter[s] = Examined(base, seq[Max(s)])
    BY <1>3, <2>3, <2>5
  <2> QED BY <1>1, <2>6
<1>6. iter[D] = base
  BY <1>5
<1> QED BY <1>2, <1>6

-----------------------------------------------------------------------------
(* The channel has been good all along: what detect_loss() would have to    *)
(* see first, a chance of "bad" above 0.35, only detect_loss() can bring.   *)
Optimistic ==
  /\ chain.state = "good"
  /\ chain.good \in 0..50
  /\ chain.bad \in 0..200

(* While no two entries were sent at the same reading of the clock, it      *)
(* tells all those that wait apart.                                         *)
ToldApart ==
  ~tied => \A x, y \in Pending(window) : window[x] = window[y] => x = y

(* What is remembered was accepted, and is never too much.                  *)
MemoryIsBounded ==
  /\ received \subseteq accepted
  /\ Cardinality(received) <= MaxReceived

IInv ==
  /\ GhostTypeOK
  /\ clock >= 1
  /\ Optimistic
  /\ ToldApart
  /\ MirrorAgrees
  /\ SendsAccounted
  /\ MemoryIsBounded
  /\ RepeatsOnlyBehindWindow

-----------------------------------------------------------------------------
(* An observation of a good channel lowers the chance of a bad one.         *)
LEMMA StaysOptimistic ==
  ASSUME GhostTypeOK, Optimistic, chain' = Observed(chain, "good")
  PROVE  Optimistic' /\ chain' \in [state : {"good", "bad"}, good : 0..1000, bad : 0..1000]
<1>1. chain = [state |-> "good", good |-> chain.good, bad |-> chain.bad]
  BY DEF GhostTypeOK, Optimistic
<1>2. (chain.good * 9) \div 10 \in 0..50
  BY DEF Optimistic
<1>3. chain' = [state |-> "good", good |-> (chain.good * 9) \div 10, bad |-> chain.bad]
  BY <1>1 DEF Observed, Optimistic
<1> QED BY <1>2, <1>3 DEF Optimistic

(* detect_loss() finds nothing in an optimistic channel, and changes nothing. *)
LEMMA NothingDetected ==
  ASSUME GhostTypeOK, Optimistic, NEW old \in SUBSET Pending(window), DetectLoss(old)
  PROVE  UNCHANGED ghostVars
<1>1. IsFiniteSet(old)
  BY SeqsAssumption, FS_Subset DEF Pending
<1>2. PICK n \in Nat : SetToSeq(old) \in [1..n -> old]
  BY <1>1, EntriesInOrder
<1>3. ~(500 + BadProbability(chain) > 850)
  <2>1. chain["good"] = chain.good
    OBVIOUS
  <2> QED BY <2>1 DEF BadProbability, Optimistic
<1>4. FoldLeft(Examined, [chain |-> chain, lost |-> {}], SetToSeq(old))
        = [chain |-> chain, lost |-> {}]
  BY <1>2, <1>3, NothingFound
<1>5. chain' = chain /\ lost' = lost + Cardinality({}) /\ detected' = detected \cup {}
  BY <1>4 DEF DetectLoss
<1>6. Cardinality({}) = 0 /\ lost \in Nat
  BY FS_EmptySet DEF GhostTypeOK
<1> QED BY <1>5, <1>6 DEF DetectLoss, ghostVars, sender, receiver
-----------------------------------------------------------------------------
(* The entries that wait are finitely many.                                 *)
LEMMA PendingIsFinite ==
  ASSUME NEW w
  PROVE  IsFiniteSet(Pending(w)) /\ Cardinality(Pending(w)) \in Nat
BY SeqsAssumption, FS_Subset, FS_CardinalityType DEF Pending

(* A window that forgets entries is a window.                               *)
LEMMA WithoutType ==
  ASSUME NEW w \in [Seqs -> 0..MaxClock], NEW gone
  PROVE  Without(w, gone) \in [Seqs -> 0..MaxClock]
<1>1. 0 \in 0..MaxClock
  BY GhostBoundsAssumption
<1> QED BY <1>1 DEF Without, Absent

(* What a window evicts was in it, and enough of it for the rest to fit.    *)
LEMMA EvictionMakesRoom ==
  ASSUME NEW w \in [Seqs -> Nat], Cardinality(Pending(w)) <= MaxWindow + 1,
         NEW v \in Victims(w)
  PROVE  /\ v \subseteq Pending(w)
         /\ Cardinality(v) \in Nat
         /\ Pending(Without(w, v)) = Pending(w) \ v
         /\ Cardinality(Pending(w) \ v) = Cardinality(Pending(w)) - Cardinality(v)
         /\ Cardinality(Pending(w) \ v) <= MaxWindow
<1> DEFINE n == Cardinality(Pending(w))
<1>1. IsFiniteSet(Pending(w)) /\ n \in Nat
  BY PendingIsFinite
<1>2. v \subseteq Pending(w)
  BY DEF Victims, OldestOf
<1>3. IsFiniteSet(v) /\ Cardinality(v) \in Nat
  BY <1>1, <1>2, FS_Subset, FS_CardinalityType
<1>4. Cardinality(Pending(w) \ v) = n - Cardinality(v)
  <2>1. Pending(w) \cap v = v
    BY <1>2
  <2> QED BY <1>1, <2>1, FS_Difference
<1>5. Pending(Without(w, v)) = Pending(w) \ v
  BY DEF Pending, Without, Absent
<1>6. n - Cardinality(v) <= MaxWindow
  <2>1. CASE n > MaxWindow
    <3>1. Cardinality(v) = n \div 4
      BY <2>1 DEF Victims, OldestOf
    <3>2. n = MaxWindow + 1 /\ MaxWindow \in Nat /\ n >= 4
      BY <1>1, <2>1, WindowAssumption
    <3>3. n \div 4 >= 1
      BY <1>1, <3>2
    <3> QED BY <1>1, <1>3, <3>1, <3>2, <3>3
  <2>2. CASE n <= MaxWindow
    BY <1>1, <1>3, <2>2, WindowAssumption
  <2> QED BY <1>1, <2>1, <2>2, WindowAssumption
<1> QED BY <1>2, <1>3, <1>4, <1>5, <1>6

(* Two sorts by different times take the same oldest quarter.               *)
LEMMA OneEviction ==
  ASSUME NEW w \in [Seqs -> Nat],
         \A x, y \in Pending(w) : w[x] = w[y] => x = y,
         NEW v \in Victims(w), NEW u \in Victims(w)
  PROVE  v = u
<1>1. CASE Cardinality(Pending(w)) > MaxWindow
  <2> DEFINE n == Cardinality(Pending(w)) \div 4
  <2>1. /\ v \subseteq Pending(w) /\ Cardinality(v) = n
        /\ u \subseteq Pending(w) /\ Cardinality(u) = n
        /\ \A x \in v, y \in Pending(w) \ v : w[x] <= w[y]
        /\ \A x \in u, y \in Pending(w) \ u : w[x] <= w[y]
    BY <1>1 DEF Victims, OldestOf
  <2>2. IsFiniteSet(v) /\ IsFiniteSet(u)
    BY <2>1, PendingIsFinite, FS_Subset
  <2>3. ASSUME NEW x \in v \ u, NEW y \in u \ v PROVE FALSE
    <3>1. x \in Pending(w) /\ y \in Pending(w) /\ w[x] \in Nat /\ w[y] \in Nat
      BY <2>1 DEF Pending
    <3>2. w[x] <= w[y] /\ w[y] <= w[x]
      BY <2>1, <3>1
    <3>3. w[x] = w[y]
      BY <3>1, <3>2
    <3> QED BY <3>1, <3>3
  <2>4. v \subseteq u \/ u \subseteq v
    BY <2>3
  <2> QED BY <2>1, <2>2, <2>4, FS_Subset
<1>2. CASE ~(Cardinality(Pending(w)) > MaxWindow)
  BY <1>2 DEF Victims
<1> QED BY <1>1, <1>2

-----------------------------------------------------------------------------
LEMMA InitInv == GhostInit => IInv
<1> SUFFICES ASSUME GhostInit PROVE IInv
  OBVIOUS
<1>1. /\ window = [s \in Seqs |-> 0] /\ mirror = [s \in Seqs |-> 0]
      /\ clock = 1 /\ sent = 0 /\ acked = 0 /\ lost = 0 /\ resent = 0
      /\ received = {} /\ network = {} /\ accepted = {} /\ detected = {}
      /\ tied = FALSE
  BY DEF GhostInit, Absent
<1>2. Pending(window) = {}
  BY <1>1 DEF Pending, Absent
<1>3. Cardinality(Pending(window)) = 0 /\ Cardinality(received) = 0
  BY <1>1, <1>2, FS_EmptySet
<1>4. GhostTypeOK
  <2>1. /\ [s \in Seqs |-> 0] \in [Seqs -> 0..MaxClock]
        /\ 0 \in 0..MaxSends
    BY GhostBoundsAssumption
  <2>2. chain \in [state : {"good", "bad"}, good : 0..1000, bad : 0..1000]
    BY DEF GhostInit
  <2>3. /\ clock \in Nat /\ acked \in Nat /\ lost \in Nat /\ resent \in Nat
        /\ received \subseteq Seqs /\ network \subseteq Seqs
        /\ accepted \subseteq Seqs /\ detected \subseteq Seqs
        /\ tied \in BOOLEAN
    BY <1>1
  <2>4. window \in [Seqs -> 0..MaxClock] /\ mirror \in [Seqs -> 0..MaxClock]
        /\ sent \in 0..MaxSends
    BY <1>1, <2>1
  <2> QED BY <2>2, <2>3, <2>4 DEF GhostTypeOK
<1>5. Optimistic
  BY DEF GhostInit, Optimistic
<1>6. MirrorAgrees
  BY <1>1, <1>3, WindowAssumption DEF MirrorAgrees
<1>7. SendsAccounted
  BY <1>1, <1>3 DEF SendsAccounted
<1>8. clock >= 1 /\ ToldApart /\ MemoryIsBounded /\ RepeatsOnlyBehindWindow
  BY <1>1, <1>2, <1>3, ReceivedAssumption
     DEF ToldApart, MemoryIsBounded, RepeatsOnlyBehindWindow
<1> QED BY <1>4, <1>5, <1>6, <1>7, <1>8 DEF IInv

(* What the receiver has is its own.                                        *)
LEMMA ReceiverRests ==
  ASSUME IInv, UNCHANGED receiver
  PROVE  MemoryIsBounded' /\ RepeatsOnlyBehindWindow'
BY DEF IInv, receiver, MemoryIsBounded, RepeatsOnlyBehindWindow, Remembered

LEMMA SendInv == ASSUME IInv, NEW s \in Seqs, GhostSend(s) PROVE IInv'
<1> DEFINE w == [window EXCEPT ![s] = clock']
           all == [mirror EXCEPT ![s] = clock']
<1>1. PICK v \in Victims(w), m \in Added(mirror, s, clock') :
        /\ window' = Without(w, v)
        /\ mirror' = Without(m, v)
        /\ lost' = lost + Cardinality(v)
  BY DEF GhostSend
<1>2. PICK u \in Victims(all) : m = Without(all, u)
  BY DEF Added
<1>3. /\ clock' \in Nat /\ clock' >= 1 /\ clock' <= MaxClock /\ clock' \in 0..MaxClock
      /\ sent < MaxSends /\ sent' = sent + 1 /\ sent' \in 0..MaxSends
  BY GhostBoundsAssumption DEF GhostSend, IInv, GhostTypeOK
<1>4. /\ window \in [Seqs -> 0..MaxClock] /\ mirror \in [Seqs -> 0..MaxClock]
      /\ w \in [Seqs -> 0..MaxClock] /\ all \in [Seqs -> 0..MaxClock]
      /\ w \in [Seqs -> Nat]
  BY <1>3 DEF IInv, GhostTypeOK
<1>5. /\ w[s] = clock' /\ \A x \in Seqs \ {s} : w[x] = window[x]
      /\ all[s] = clock' /\ \A x \in Seqs \ {s} : all[x] = mirror[x]
  BY <1>4
<1>6. Pending(w) = Pending(window) \cup {s}
  BY <1>3, <1>5 DEF Pending, Absent
<1>7. Cardinality(Pending(w))
        = IF window[s] # Absent THEN Cardinality(Pending(window))
          ELSE Cardinality(Pending(window)) + 1
  <2>1. s \in Pending(window) <=> window[s] # Absent
    BY DEF Pending
  <2>2. IsFiniteSet(Pending(window))
    BY PendingIsFinite
  <2> HIDE DEF w
  <2> QED BY <1>6, <2>1, <2>2, FS_AddElement
<1>8. Cardinality(Pending(w)) <= MaxWindow + 1 /\ Cardinality(Pending(w)) \in Nat
  BY <1>7, PendingIsFinite, WindowAssumption DEF IInv, MirrorAgrees
<1>9. /\ v \subseteq Pending(w)
      /\ Cardinality(v) \in Nat
      /\ Pending(window') = Pending(w) \ v
      /\ Cardinality(Pending(window')) = Cardinality(Pending(w)) - Cardinality(v)
      /\ Cardinality(Pending(window')) <= MaxWindow
  BY <1>1, <1>4, <1>8, EvictionMakesRoom
<1>10. GhostTypeOK'
  <2>1. window' \in [Seqs -> 0..MaxClock] /\ mirror' \in [Seqs -> 0..MaxClock]
    BY <1>1, <1>2, <1>4, WithoutType
  <2>2. lost' \in Nat
    BY <1>1, <1>9 DEF IInv, GhostTypeOK
  <2>3. resent' \in Nat /\ network' \subseteq Seqs
    BY DEF GhostSend, IInv, GhostTypeOK
  <2>4. tied' \in BOOLEAN
    BY DEF GhostSend, IInv, GhostTypeOK
  <2>5. /\ chain' \in [state : {"good", "bad"}, good : 0..1000, bad : 0..1000]
        /\ acked' \in Nat /\ detected' \subseteq Seqs
        /\ received' \subseteq Seqs /\ accepted' \subseteq Seqs
    BY DEF GhostSend, IInv, GhostTypeOK, receiver
  <2> QED BY <1>3, <2>1, <2>2, <2>3, <2>4, <2>5 DEF GhostTypeOK
<1>11. Optimistic'
  BY DEF GhostSend, IInv, Optimistic
<1>12. ASSUME ~tied'
       PROVE  /\ ~tied
              /\ \A x, y \in Pending(w) : w[x] = w[y] => x = y
  <2>1. tied' = (tied \/ \E x \in Pending(window) \ {s} : window[x] = clock')
    BY DEF GhostSend
  <2>2. ~tied /\ \A x \in Pending(window) \ {s} : window[x] # clock'
    BY <1>12, <2>1
  <2> QED BY <1>5, <1>6, <2>2 DEF IInv, ToldApart, Pending
<1>13. ToldApart'
  <2>1. \A x \in Pending(window') : window'[x] = w[x] /\ x \in Pending(w)
    BY <1>1, <1>9 DEF Without, Pending
  <2> QED BY <1>12, <2>1 DEF ToldApart
<1>14. MirrorAgrees'
  <2>1. \A x \in Seqs : mirror'[x] \in {Absent, window'[x]}
    BY <1>1, <1>2, <1>5 DEF IInv, MirrorAgrees, Without
  <2>2. ASSUME ~tied' PROVE mirror' = window'
    <3>1. all = w
      BY <1>12, <2>2 DEF IInv, MirrorAgrees
    <3>2. u = v
      BY <1>4, <1>12, <2>2, <3>1, OneEviction
    <3>3. Without(Without(w, v), v) = Without(w, v)
      BY DEF Without
    <3> QED BY <1>1, <1>2, <3>1, <3>2, <3>3
  <2> QED BY <1>9, <2>1, <2>2 DEF MirrorAgrees
<1>15. SendsAccounted'
  <2>1. acked' = acked /\ acked \in Nat /\ lost \in Nat /\ resent \in Nat /\ sent \in Nat
    BY DEF GhostSend, IInv, GhostTypeOK
  <2>2. resent' = IF window[s] # Absent THEN resent + 1 ELSE resent
    BY DEF GhostSend
  <2>3. sent = acked + lost + resent + Cardinality(Pending(window))
    BY DEF IInv, SendsAccounted
  <2>4. Cardinality(Pending(window)) \in Nat
    BY PendingIsFinite
  <2>5. sent + 1 = acked + (lost + Cardinality(v)) + resent'
                     + (Cardinality(Pending(w)) - Cardinality(v))
    BY <1>7, <1>9, <2>1, <2>2, <2>3, <2>4
  <2> QED BY <1>1, <1>3, <1>9, <2>1, <2>5 DEF SendsAccounted
<1>16. MemoryIsBounded' /\ RepeatsOnlyBehindWindow'
  BY ReceiverRests DEF GhostSend
<1> QED BY <1>3, <1>10, <1>11, <1>13, <1>14, <1>15, <1>16 DEF IInv
LEMMA ImplicitAckInv == ASSUME IInv, NEW s \in Seqs, ImplicitAck(s) PROVE IInv'
<1>1. /\ window[s] # Absent
      /\ window' = [window EXCEPT ![s] = Absent]
      /\ mirror' = [mirror EXCEPT ![s] = Absent]
      /\ chain' = Observed(chain, "good")
      /\ acked' = acked + 1
  BY DEF ImplicitAck, Acknowledged
<1>2. window \in [Seqs -> 0..MaxClock] /\ mirror \in [Seqs -> 0..MaxClock]
  BY DEF IInv, GhostTypeOK
<1>3. Optimistic' /\ chain' \in [state : {"good", "bad"}, good : 0..1000, bad : 0..1000]
  BY <1>1, StaysOptimistic DEF IInv
<1>4. GhostTypeOK'
  <2>1. 0 \in 0..MaxClock
    BY GhostBoundsAssumption
  <2>2. window' \in [Seqs -> 0..MaxClock] /\ mirror' \in [Seqs -> 0..MaxClock]
    BY <1>1, <1>2, <2>1 DEF Absent
  <2>3. acked' \in Nat
    BY <1>1 DEF IInv, GhostTypeOK
  <2>4. UNCHANGED <<clock, sent, lost, network, resent, detected, tied, received, accepted>>
    BY DEF ImplicitAck, receiver
  <2> QED BY <1>3, <2>2, <2>3, <2>4 DEF IInv, GhostTypeOK
<1>5. Pending(window') = Pending(window) \ {s} /\ s \in Pending(window)
  BY <1>1, <1>2 DEF Pending, Absent
<1>6. Cardinality(Pending(window')) = Cardinality(Pending(window)) - 1
  BY <1>5, PendingIsFinite, FS_RemoveElement
<1>7. ToldApart'
  <2>1. \A x \in Pending(window') : x \in Pending(window) /\ window'[x] = window[x]
    BY <1>1, <1>2, <1>5 DEF Pending
  <2>2. tied' = tied
    BY DEF ImplicitAck
  <2> QED BY <2>1, <2>2 DEF IInv, ToldApart
<1>8. MirrorAgrees'
  <2>1. Cardinality(Pending(window')) <= MaxWindow
    BY <1>6, PendingIsFinite, WindowAssumption DEF IInv, MirrorAgrees
  <2>2. \A x \in Seqs : mirror'[x] \in {Absent, window'[x]}
    BY <1>1, <1>2 DEF IInv, MirrorAgrees
  <2>3. ~tied' => mirror' = window'
    BY <1>1 DEF IInv, MirrorAgrees, ImplicitAck
  <2> QED BY <2>1, <2>2, <2>3 DEF MirrorAgrees
<1>9. SendsAccounted'
  <2>1. sent' = sent /\ lost' = lost /\ resent' = resent
    BY DEF ImplicitAck
  <2>2. /\ sent \in Nat /\ lost \in Nat /\ resent \in Nat /\ acked \in Nat
        /\ sent = acked + lost + resent + Cardinality(Pending(window))
    BY GhostBoundsAssumption DEF IInv, GhostTypeOK, SendsAccounted
  <2> QED BY <1>1, <1>6, <2>1, <2>2, PendingIsFinite DEF SendsAccounted
<1>10. clock' >= 1 /\ MemoryIsBounded' /\ RepeatsOnlyBehindWindow'
  BY ReceiverRests DEF ImplicitAck, IInv
<1> QED BY <1>3, <1>4, <1>7, <1>8, <1>9, <1>10 DEF IInv

-----------------------------------------------------------------------------
(* Where a number stands in a set of them.                                  *)
Rank(U, s) == Cardinality({x \in U : x < s})

(* The higher number of two ranks higher.                                   *)
LEMMA RanksGrow ==
  ASSUME NEW U \in SUBSET Nat, IsFiniteSet(U), NEW s \in U, NEW t \in Nat, s < t
  PROVE  Rank(U, s) \in Nat /\ Rank(U, t) \in Nat /\ Rank(U, s) < Rank(U, t)
<1> DEFINE A == {x \in U : x < s}
           B == {x \in U : x < t}
<1>1. A \subseteq U /\ B \subseteq U /\ s \notin A /\ A \cup {s} \subseteq B
  <2>1. \A x \in U : x \in Nat /\ s \in Nat
    OBVIOUS
  <2>2. \A x \in A : x < t /\ x # s
    BY <2>1
  <2> QED BY <2>2
<1>2. IsFiniteSet(A) /\ IsFiniteSet(B) /\ Cardinality(A) \in Nat /\ Cardinality(B) \in Nat
  BY <1>1, FS_Subset, FS_CardinalityType
<1> HIDE DEF A, B
<1>3. Cardinality(A \cup {s}) = Cardinality(A) + 1
  BY <1>1, <1>2, FS_AddElement
<1>4. Cardinality(A \cup {s}) <= Cardinality(B)
  BY <1>1, <1>2, FS_Subset
<1>5. Cardinality(A) < Cardinality(B)
  BY <1>2, <1>3, <1>4
<1> QED BY <1>2, <1>5 DEF A, B, Rank

(* No more than k numbers rank below k.                                     *)
LEMMA FewRankLow ==
  ASSUME NEW U \in SUBSET Nat, IsFiniteSet(U), NEW k \in Nat
  PROVE  Cardinality({s \in U : Rank(U, s) < k}) <= k
<1> DEFINE Low == {s \in U : Rank(U, s) < k}
           f == [s \in Low |-> Rank(U, s)]
<1>1. \A s \in U : Rank(U, s) \in Nat
  BY FS_Subset, FS_CardinalityType DEF Rank
<1>2. f \in [Low -> 0..(k - 1)]
  <2>1. \A s \in Low : Rank(U, s) \in 0..(k - 1)
    BY <1>1
  <2> QED BY <2>1
<1>3. \A s, t \in Low : f[s] = f[t] => s = t
  <2> SUFFICES ASSUME NEW s \in Low, NEW t \in Low, s < t PROVE f[s] # f[t]
    OBVIOUS
  <2> QED BY RanksGrow
<1>4. f \in Injection(Low, 0..(k - 1))
  BY <1>2, <1>3 DEF Injection, IsInjective
<1> HIDE DEF Low, f
<1>5. IsFiniteSet(0..(k - 1)) /\ Cardinality(0..(k - 1)) = k
  BY FS_Interval
<1>6. Cardinality(Low) <= k
  BY <1>4, <1>5, FS_Injection
<1> QED BY <1>6 DEF Low

(* What on_receive() forgets lies below what it goes on to remember, which  *)
(* is at least half a window of numbers and not more than one.              *)
LEMMA RecentIsUpper ==
  ASSUME NEW U \in SUBSET Nat, IsFiniteSet(U), Cardinality(U) <= MaxReceived + 1
  PROVE  /\ Recent(U) \subseteq U
         /\ Cardinality(Recent(U)) <= MaxReceived
         /\ Recent(U) # U =>
              /\ Cardinality(Recent(U)) >= Remembered
              /\ \A s \in U \ Recent(U), r \in Recent(U) : r > s
              /\ \A s \in Nat : Cardinality({r \in U : r > s}) >= Remembered
                                  => \A r \in Recent(U) : r > s
<1> DEFINE n == Cardinality(U)
           k == n \div 2
<1>1. n \in Nat /\ MaxReceived \in Nat /\ MaxReceived >= 1
  BY FS_CardinalityType, ReceivedAssumption
<1>2. CASE n <= MaxReceived
  BY <1>2 DEF Recent
<1>3. CASE ~(n <= MaxReceived)
  <2>1. n = MaxReceived + 1 /\ n >= 2 /\ k \in Nat /\ k >= 1 /\ k <= n /\ Remembered = n - k
    BY <1>1, <1>3 DEF Remembered
  <2> DEFINE Low == {s \in U : Rank(U, s) < k}
             High == {s \in U : Rank(U, s) >= k}
  <2>2. Recent(U) = High
    BY <1>3 DEF Recent, Rank
  <2>3. \A s \in U : Rank(U, s) \in Nat
    BY FS_Subset, FS_CardinalityType DEF Rank
  <2>4. High = U \ Low /\ Low \subseteq U /\ High \subseteq U
    <3>1. \A s \in U : Rank(U, s) >= k <=> ~(Rank(U, s) < k)
      BY <2>1, <2>3
    <3> HIDE DEF k
    <3> QED BY <3>1
  <2>5. Cardinality(Low) <= k
    BY <2>1, FewRankLow
  <2> HIDE DEF n, k
  <2>6. /\ IsFiniteSet(Low) /\ IsFiniteSet(High)
        /\ Cardinality(Low) \in Nat /\ Cardinality(High) \in Nat
    BY <2>4, FS_Subset, FS_CardinalityType
  <2>7. Cardinality(High) = n - Cardinality(Low)
    <3> HIDE DEF Low, High
    <3>1. U \cap Low = Low
      BY <2>4
    <3>2. Cardinality(U \ Low) = Cardinality(U) - Cardinality(U \cap Low)
      BY FS_Difference
    <3> QED BY <2>4, <3>1, <3>2 DEF n
  <2>8. Cardinality(High) >= Remembered
    BY <1>1, <2>1, <2>5, <2>6, <2>7
  <2>9. Cardinality(High) <= MaxReceived
    <3>1. U # {}
      BY <1>1, <2>1, FS_EmptySet DEF n
    <3>2. PICK s \in U : \A x \in U : s <= x
      BY <3>1, LeastExists
    <3>3. {x \in U : x < s} = {}
      <4>1. \A x \in U : x \in Nat /\ s <= x
        BY <3>2
      <4>2. \A x \in U : ~(x < s)
        BY <4>1
      <4> QED BY <4>2
    <3>4. Rank(U, s) = 0
      BY <3>3, FS_EmptySet DEF Rank
    <3>5. s \in Low
      BY <2>1, <3>4
    <3>6. Cardinality(Low) # 0
      BY <2>6, <3>5, FS_EmptySet
    <3> QED BY <1>1, <2>1, <2>6, <2>7, <3>6
  <2>10. \A s \in Low, r \in High : r > s
    <3> SUFFICES ASSUME NEW s \in Low, NEW r \in High, ~(r > s) PROVE FALSE
      OBVIOUS
    <3>1. s \in U /\ r \in U /\ s \in Nat /\ r \in Nat
          /\ Rank(U, s) < k /\ Rank(U, r) >= k
      OBVIOUS
    <3>2. r = s \/ r < s
      BY <3>1
    <3>3. r < s => Rank(U, r) < Rank(U, s)
      BY <3>1, RanksGrow
    <3> QED BY <2>1, <2>3, <3>1, <3>2, <3>3
  <2>11. ASSUME NEW s \in Nat, Cardinality({r \in U : r > s}) >= Remembered,
                NEW r \in High, ~(r > s)
         PROVE  FALSE
    <3> DEFINE Above == {x \in U : x > s}
               Under == {x \in U : x < r}
    <3>1. r \in U /\ r \in Nat /\ Cardinality(Under) >= k
      BY DEF Rank
    <3>2. /\ Above \subseteq U /\ Under \subseteq U
          /\ Above \cap Under = {} /\ r \notin Above \cup Under
          /\ Above \cup Under \cup {r} \subseteq U
      <4>1. \A x \in U : x \in Nat
        OBVIOUS
      <4>2. \A x \in U : ~(x > s /\ x < r)
        BY <2>11, <3>1, <4>1
      <4>3. r \notin Above /\ r \notin Under
        BY <2>11, <3>1
      <4> QED BY <3>1, <4>2, <4>3
    <3>3. /\ IsFiniteSet(Above) /\ IsFiniteSet(Under)
          /\ Cardinality(Above) \in Nat /\ Cardinality(Under) \in Nat
      BY <3>2, FS_Subset, FS_CardinalityType
    <3>4. Cardinality(Above) >= Remembered
      BY <2>11
    <3> HIDE DEF Above, Under
    <3>5. /\ IsFiniteSet(Above \cup Under)
          /\ Cardinality(Above \cup Under) = Cardinality(Above) + Cardinality(Under)
      <4>1. IsFiniteSet(Above \cup Under)
            /\ Cardinality(Above \cup Under)
                 = Cardinality(Above) + Cardinality(Under) - Cardinality(Above \cap Under)
        BY <3>3, FS_Union
      <4>2. Cardinality(Above \cap Under) = 0
        BY <3>2, FS_EmptySet
      <4> QED BY <3>3, <4>1, <4>2
    <3>6. Cardinality(Above \cup Under \cup {r})
            = Cardinality(Above) + Cardinality(Under) + 1
      BY <3>2, <3>5, FS_AddElement
    <3>7. Cardinality(Above \cup Under \cup {r}) <= n
      BY <3>2, FS_Subset DEF n
    <3> QED BY <1>1, <2>1, <3>1, <3>3, <3>4, <3>6, <3>7
  <2> QED BY <2>2, <2>4, <2>8, <2>9, <2>10, <2>11
<1> QED BY <1>2, <1>3
LEMMA OnReceiveInv == ASSUME IInv, NEW s \in Seqs, OnReceive(s) PROVE IInv'
<1> DEFINE U == received \cup {s}
<1>1. /\ received' = Recent(U) /\ accepted' = accepted \cup {s} /\ s \notin received
      /\ UNCHANGED sender
  BY DEF OnReceive
<1>2. received \subseteq accepted /\ accepted \subseteq Seqs
      /\ Cardinality(received) <= MaxReceived
  BY DEF IInv, GhostTypeOK, MemoryIsBounded
<1>3. /\ IsFiniteSet(received) /\ Cardinality(received) \in Nat
      /\ U \in SUBSET Nat /\ received \in SUBSET Nat /\ accepted \in SUBSET Nat
      /\ IsFiniteSet(U) /\ Cardinality(U) <= MaxReceived + 1
  <2>1. IsFiniteSet(received)
    BY <1>2, SeqsAssumption, FS_Subset
  <2>2. IsFiniteSet(U) /\ Cardinality(U) = Cardinality(received) + 1
    BY <1>1, <2>1, FS_AddElement
  <2>3. Cardinality(received) \in Nat
    BY <2>1, FS_CardinalityType
  <2> QED BY <1>2, <2>1, <2>2, <2>3, SeqsAssumption, ReceivedAssumption
<1> HIDE DEF U
<1>4. /\ Recent(U) \subseteq U
      /\ Cardinality(Recent(U)) <= MaxReceived
      /\ Recent(U) # U =>
           /\ Cardinality(Recent(U)) >= Remembered
           /\ \A x \in U \ Recent(U), r \in Recent(U) : r > x
           /\ \A x \in Nat : Cardinality({r \in U : r > x}) >= Remembered
                               => \A r \in Recent(U) : r > x
  BY <1>3, RecentIsUpper
<1>5. U \subseteq accepted'
  BY <1>1, <1>2 DEF U
<1>6. MemoryIsBounded'
  BY <1>1, <1>4, <1>5 DEF MemoryIsBounded
<1>7. Remembered \in Nat
  BY ReceivedAssumption DEF Remembered
<1>8. ASSUME NEW x \in accepted, x \notin U
      PROVE  Cardinality({r \in U : r > x}) >= Remembered
  <2> DEFINE A == {r \in received : r > x}
             B == {r \in U : r > x}
  <2>1. x \in accepted \ received
    BY <1>8 DEF U
  <2>2. Cardinality(A) >= Remembered
    BY <2>1 DEF IInv, RepeatsOnlyBehindWindow
  <2>3. A \subseteq B /\ B \subseteq U
    BY DEF U
  <2>4. IsFiniteSet(B)
    BY <1>3, <2>3, FS_Subset
  <2> HIDE DEF A, B
  <2>5. Cardinality(A) <= Cardinality(B) /\ Cardinality(A) \in Nat /\ Cardinality(B) \in Nat
    BY <2>3, <2>4, FS_Subset, FS_CardinalityType
  <2>6. Cardinality(B) >= Remembered
    BY <1>7, <2>2, <2>5
  <2> QED BY <2>6 DEF B
<1>9. RepeatsOnlyBehindWindow'
  <2> SUFFICES ASSUME NEW x \in accepted' \ received'
               PROVE  Cardinality({r \in received' : r > x}) >= Remembered
    BY DEF RepeatsOnlyBehindWindow, Remembered
  <2>1. CASE Recent(U) = U
    <3>1. x \in accepted /\ x \notin U
      BY <1>1, <2>1 DEF U
    <3> QED BY <1>1, <1>8, <2>1, <3>1
  <2>2. CASE Recent(U) # U
    <3>1. \A r \in Recent(U) : r > x
      <4>1. CASE x \in U
        BY <1>1, <1>4, <2>2, <4>1
      <4>2. CASE x \notin U
        <5>1. x \in accepted
          BY <1>1, <4>2 DEF U
        <5> QED BY <1>3, <1>4, <1>8, <2>2, <4>2, <5>1
      <4> QED BY <4>1, <4>2
    <3>2. {r \in received' : r > x} = Recent(U)
      BY <1>1, <3>1
    <3> QED BY <1>4, <2>2, <3>2
  <2> QED BY <2>1, <2>2
<1>10. GhostTypeOK'
  <2>1. received' \subseteq Seqs /\ accepted' \subseteq Seqs
    BY <1>1, <1>2, <1>4 DEF U
  <2> QED BY <1>1, <2>1 DEF IInv, GhostTypeOK, sender
<1>11. clock' >= 1 /\ Optimistic' /\ ToldApart'
  BY <1>1 DEF IInv, sender, Optimistic, ToldApart
<1>12. MirrorAgrees' /\ SendsAccounted'
  BY <1>1 DEF IInv, sender, MirrorAgrees, SendsAccounted
<1> QED BY <1>6, <1>9, <1>10, <1>11, <1>12 DEF IInv

LEMMA RestInv == IInv /\ UNCHANGED ghostVars => IInv'
<1> SUFFICES ASSUME IInv, UNCHANGED ghostVars PROVE IInv'
  OBVIOUS
<1>1. UNCHANGED sender /\ UNCHANGED receiver
  BY DEF ghostVars
<1>2. GhostTypeOK'
  BY <1>1 DEF IInv, sender, receiver, GhostTypeOK
<1>3. clock' >= 1 /\ Optimistic' /\ ToldApart'
  BY <1>1 DEF IInv, sender, Optimistic, ToldApart
<1>4. MirrorAgrees' /\ SendsAccounted'
  BY <1>1 DEF IInv, sender, MirrorAgrees, SendsAccounted
<1> QED BY <1>1, <1>2, <1>3, <1>4, ReceiverRests DEF IInv

LEMMA StepInv == IInv /\ [GhostNext]_ghostVars => IInv'
<1> SUFFICES ASSUME IInv, [GhostNext]_ghostVars PROVE IInv'
  OBVIOUS
<1>1. ASSUME NEW s \in Seqs, GhostSend(s) PROVE IInv'
  BY <1>1, SendInv
<1>2. ASSUME NEW s \in Seqs, ImplicitAck(s) PROVE IInv'
  BY <1>2, ImplicitAckInv
<1>3. ASSUME NEW s \in Seqs, OnReceive(s) PROVE IInv'
  BY <1>3, OnReceiveInv
<1>4. ASSUME NEW old \in SUBSET Pending(window), DetectLoss(old) PROVE IInv'
  BY <1>4, NothingDetected, RestInv DEF IInv
<1>5. CASE UNCHANGED ghostVars
  BY <1>5, RestInv
<1> QED BY <1>1, <1>2, <1>3, <1>4, <1>5 DEF GhostNext

(* The inductive invariant holds throughout.                                *)
THEOREM Invariance == GhostSpec => []IInv
BY InitInv, StepInv, PTL DEF GhostSpec

(* Every variable of the two ends keeps its type: in particular the row of  *)
(* the Markov chain stays a probability.                                    *)
THEOREM TypeCorrect == GhostSpec => []GhostTypeOK
<1>1. IInv => GhostTypeOK
  BY DEF IInv
<1> QED BY <1>1, Invariance, PTL

(* The window of send() never outgrows its limit, and the window of the     *)
(* Rust core never keeps an entry that Python's has let go; while the clock *)
(* tells the entries apart, both evict the same although each evicts on its *)
(* own and the second eviction is repeated on the first's result.           *)
THEOREM TheMirrorAgrees == GhostSpec => []MirrorAgrees
<1>1. IInv => MirrorAgrees
  BY DEF IInv
<1> QED BY <1>1, Invariance, PTL

(* Every call of send() ends as acknowledged, evicted, replaced or pending, *)
(* and as one of them only.                                                 *)
THEOREM EverySendIsAccounted == GhostSpec => []SendsAccounted
<1>1. IInv => SendsAccounted
  BY DEF IInv
<1> QED BY <1>1, Invariance, PTL

(* on_receive() accepts a number again only when at least half a window of  *)
(* higher numbers is remembered, however the network repeats and reorders.  *)
THEOREM ReplaysStayBehindTheWindow == GhostSpec => []RepeatsOnlyBehindWindow
<1>1. IInv => RepeatsOnlyBehindWindow
  BY DEF IInv
<1> QED BY <1>1, Invariance, PTL

(* detect_loss() never finds anything, whatever waits and however long: the *)
(* chain starts from too small a chance of loss for it.                     *)
FoundNothing == detected = {}
THEOREM NothingIsDetected == GhostSpec => []FoundNothing
<1>1. GhostInit => FoundNothing
  BY DEF GhostInit, FoundNothing
<1>2. IInv /\ FoundNothing /\ [GhostNext]_ghostVars => FoundNothing'
  <2> SUFFICES ASSUME IInv, FoundNothing, [GhostNext]_ghostVars PROVE detected' = detected
    BY DEF FoundNothing
  <2>1. ASSUME NEW old \in SUBSET Pending(window), DetectLoss(old) PROVE detected' = detected
    BY <2>1, NothingDetected DEF IInv, ghostVars, sender
  <2>2. ASSUME NEW s \in Seqs, GhostSend(s) \/ ImplicitAck(s) \/ OnReceive(s)
        PROVE  detected' = detected
    <3>1. CASE GhostSend(s)
      BY <3>1 DEF GhostSend
    <3>2. CASE ImplicitAck(s)
      BY <3>2 DEF ImplicitAck
    <3>3. CASE OnReceive(s)
      BY <3>3 DEF OnReceive, sender
    <3> QED BY <2>2, <3>1, <3>2, <3>3
  <2>3. CASE UNCHANGED ghostVars
    BY <2>3 DEF ghostVars, sender
  <2> QED BY <2>1, <2>2, <2>3 DEF GhostNext
<1> QED BY <1>1, <1>2, Invariance, PTL DEF GhostSpec
=============================================================================
