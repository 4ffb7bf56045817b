--------------------------- MODULE TransferProofs ---------------------------
(***************************************************************************)
(* Proofs about Transfer: each of the four ways of a payload implements    *)
(* PayloadTransfer, for every set of payloads, any number of pieces, any   *)
(* widths and ids and any number of faults.                                *)
(***************************************************************************)
EXTENDS Transfer, Inductions, FiniteSetTheorems, SequenceTheorems, TLAPS

-----------------------------------------------------------------------------
(* The two ways in pieces.  They share the network and the buffers, and     *)
(* differ in what a frame says of the piece it carries.                     *)
Place(i) == IF path = "parallel" THEN i % Width ELSE i
Total(p) == IF path = "parallel" THEN Pieces[p] % Width ELSE Pieces[p]
Fitting(p) == path = "parallel" => Pieces[p] < Width

AllFrames == [id : Payloads \cup Nat, index : Nat, total : Nat, piece : Payloads \X Nat]
Carries(f, p, i) ==
  f = [id |-> f.id, index |-> Place(i), total |-> Total(p), piece |-> <<p, i>>]

(* Every frame is written once.                                             *)
Writing ==
  /\ todo \in [Payloads -> Seq(SUBSET AllFrames)] /\ wire \subseteq AllFrames
  /\ \A p \in Payloads : \A k \in 1..Len(todo[p]) : \A f \in todo[p][k] :
       /\ f.piece[1] = p /\ f \notin wire
       /\ \A l \in 1..Len(todo[p]) : f \in todo[p][l] => k = l
  /\ \A p \in Payloads \ sent : todo[p] = << >>

Filled(b) ==
  /\ b = [total |-> b.total, got |-> b.got, old |-> b.old]
  /\ b.total \in Nat /\ b.old \in BOOLEAN
  /\ b.got = [k \in DOMAIN b.got |-> b.got[k]]
  /\ \A k \in DOMAIN b.got : \E p \in sent : \E i \in Indices(p) :
       b.got[k] = <<p, i>> /\ k = Place(i)

Counters ==
  /\ sent \subseteq Payloads
  /\ arrived = [p \in Payloads |-> arrived[p]]
  /\ \A p \in Payloads : arrived[p] \in [Indices(p) -> Nat]
  /\ handed \in [Payloads -> Nat] /\ garbled \subseteq sent
  /\ faults \in 0..MaxFaults /\ astray \in BOOLEAN
  /\ \A p \in Payloads : Pieces[p] = 0 => handed[p] = 0

Receiving ==
  /\ buffers = [id \in DOMAIN buffers |-> buffers[id]]
  /\ \A id \in DOMAIN buffers : Filled(buffers[id]) /\ DOMAIN buffers[id].got # {}
  /\ \A f \in ToCome : \E p \in sent : \E i \in Indices(p) : Carries(f, p, i)

(* The ids under which pieces of a payload are about, where a piece is.     *)
IdsOf(p) ==
  {f.id : f \in {g \in ToCome : g.piece[1] = p}}
    \cup {id \in DOMAIN buffers : \E k \in DOMAIN buffers[id].got : buffers[id].got[k][1] = p}
Coming(p, i) == \E f \in ToCome : f.piece = <<p, i>>
Kept(p, i) ==
  \E id \in DOMAIN buffers : \E k \in DOMAIN buffers[id].got : buffers[id].got[k] = <<p, i>>

(* Unless the sender went astray: an id is that of one payload, and for     *)
(* every time that a payload was handed over each of its pieces came once,  *)
(* and once more if it is kept.                                             *)
Owned ==
  /\ \A p, q \in Payloads : \A x \in IdsOf(p), y \in IdsOf(q) : x = y <=> p = q
  /\ \A id \in DOMAIN buffers : \A k \in DOMAIN buffers[id].got :
       buffers[id].total = Total(buffers[id].got[k][1])
  /\ \A p \in Payloads : \A i \in Indices(p) :
       handed[p] + (IF Kept(p, i) THEN 1 ELSE 0) <= arrived[p][i]
  /\ \A p \in garbled : ~Fitting(p)

(* While nothing goes wrong, each piece is coming or kept and one is        *)
(* coming, or all are gone and the payload was handed over once.            *)
Smooth ==
  /\ \A id \in DOMAIN buffers : ~buffers[id].old
  /\ \A p \in Payloads \ sent : handed[p] = 0
  /\ \A p \in sent : Pieces[p] > 0 /\ Fitting(p) =>
       \/ /\ handed[p] = 0
          /\ \A i \in Indices(p) : Coming(p, i) <=> ~Kept(p, i)
          /\ \E i \in Indices(p) : Coming(p, i)
       \/ handed[p] = 1 /\ \A i \in Indices(p) : ~Coming(p, i) /\ ~Kept(p, i)

StreamInv ==
  /\ path \in Paths
  /\ Writing /\ Counters /\ Receiving
  /\ ~astray => Owned
  /\ ~astray /\ faults = 0 => Smooth

ParallelInv == path = "parallel" => counter = Cardinality(sent)
ChunksInv ==
  path # "parallel" =>
    /\ ~astray /\ calling \in Payloads \cup {NoStream}
    /\ \A p \in Payloads : \A x \in IdsOf(p) : x = p

(* The servers.  What was collected is drained or in the inbox, and nothing *)
(* comes after the end of a connection.                                     *)
Collected == \A p \in Frames : seen[p] = given[p] + Server!Count(inbox, p)
EofIsLast ==
  \A c \in Clients : \A i \in 1..Len(pipe[c]) : pipe[c][i] = Eof => i = Len(pipe[c])
ServerInv ==
  path = "server" => Server!TypeOK /\ Collected /\ EofIsLast /\ Server!NothingStuck

-----------------------------------------------------------------------------
(* The places and totals of a frame are naturals.                          *)
LEMMA Natural ==
  /\ \A p \in Payloads : Pieces[p] \in Nat /\ Total(p) \in Nat
  /\ \A p \in Payloads : Indices(p) = 0..(Pieces[p] - 1)
  /\ \A i \in Nat : Place(i) \in Nat
<1>1. ASSUME NEW p \in Payloads PROVE Indices(p) = 0..(Pieces[p] - 1)
  <2>1. Pieces[p] \in Nat
    BY StreamsAssumption
  <2>2. ASSUME NEW i \in 0..(Pieces[p] - 1) PROVE i \in Indices(p)
    <3>1. i + 1 \in 1..Pieces[p] /\ (i + 1) - 1 = i
      BY <2>1
    <3> QED BY <3>1 DEF Indices
  <2>3. ASSUME NEW n \in 1..Pieces[p] PROVE n - 1 \in 0..(Pieces[p] - 1)
    BY <2>1
  <2> QED BY <2>2, <2>3 DEF Indices
<1>2. \A p \in Payloads : Pieces[p] \in Nat /\ Total(p) \in Nat
  BY StreamsAssumption, WidthsAssumption DEF Total
<1> QED BY <1>1, <1>2, WidthsAssumption DEF Place

(* What the instances say of streams is what Streams says.                  *)
LEMMA SameCards ==
  /\ \A S : Parallel!Cardinality(S) = Cardinality(S)
  /\ \A S : Chunks!Cardinality(S) = Cardinality(S)
BY Zenon DEF Parallel!Cardinality, Chunks!Cardinality, Cardinality

(* The frames that are to come, and the ids in use, likewise.              *)
LEMMA SameFrames ==
  /\ Parallel!ToCome = ToCome /\ Chunks!ToCome = ToCome
  /\ \A id : Parallel!InUse(id) = InUse(id)
  /\ \A p : Parallel!Indices(p) = Indices(p) /\ Chunks!Indices(p) = Indices(p)
BY DEF Parallel!ToCome, Parallel!Unwritten, Parallel!Range, Parallel!InUse, Parallel!Indices,
       Chunks!ToCome, Chunks!Unwritten, Chunks!Range, Chunks!Indices,
       ToCome, Unwritten, Range, InUse, Indices

(* A frame is unwritten when it is in a write that remains.                 *)
LEMMA UnwrittenFrames ==
  ASSUME NEW t \in [Payloads -> Seq(SUBSET AllFrames)], NEW f
  PROVE  f \in UNION {UNION Range(t[p]) : p \in Payloads}
           <=> \E p \in Payloads : \E k \in 1..Len(t[p]) : f \in t[p][k]
<1>1. \A p \in Payloads : DOMAIN t[p] = 1..Len(t[p])
  BY LenProperties
<1> QED BY <1>1 DEF Range

(* The writes after some of the first were dropped.                         *)
LEMMA FewerWrites ==
  ASSUME Writing, NEW p \in Payloads, todo[p] # << >>
  PROVE  /\ Tail(todo[p]) \in Seq(SUBSET AllFrames) /\ Head(todo[p]) = todo[p][1]
         /\ 1 \in 1..Len(todo[p])
         /\ \A k \in 1..Len(Tail(todo[p])) :
              Tail(todo[p])[k] = todo[p][k + 1] /\ k + 1 \in 1..Len(todo[p])
         /\ \A k \in 1..Len(todo[p]) :
              k # 1 => k - 1 \in 1..Len(Tail(todo[p])) /\ Tail(todo[p])[k - 1] = todo[p][k]
<1>1. todo[p] \in Seq(SUBSET AllFrames)
  BY DEF Writing
<1>2. Tail(todo[p]) \in Seq(SUBSET AllFrames) /\ Head(todo[p]) = todo[p][1]
      /\ Len(Tail(todo[p])) = Len(todo[p]) - 1 /\ Len(todo[p]) \in Nat /\ Len(todo[p]) # 0
      /\ \A k \in 1..Len(Tail(todo[p])) : Tail(todo[p])[k] = todo[p][k + 1]
  BY <1>1, HeadTailProperties, LenProperties, EmptySeq
<1> HIDE DEF Writing
<1> QED BY <1>2

(* A write moves its frames to the network.                                 *)
LEMMA WritingGoesOn ==
  ASSUME Writing, NEW p \in Payloads, todo[p] # << >>, sent' = sent,
         wire' = wire \cup Head(todo[p]), todo' = [todo EXCEPT ![p] = Tail(@)]
  PROVE  Writing' /\ ToCome' = ToCome
<1>1. /\ todo \in [Payloads -> Seq(SUBSET AllFrames)] /\ wire \subseteq AllFrames
      /\ \A q \in Payloads : todo[q] \in Seq(SUBSET AllFrames)
  BY DEF Writing
<1>2. /\ todo'[p] = Tail(todo[p]) /\ \A q \in Payloads : q # p => todo'[q] = todo[q]
      /\ todo' \in [Payloads -> Seq(SUBSET AllFrames)]
  BY <1>1, FewerWrites
<1>3. Head(todo[p]) = todo[p][1] /\ 1 \in 1..Len(todo[p])
  BY FewerWrites
<1>4. Head(todo[p]) \subseteq AllFrames
  <2>1. todo[p][1] \in SUBSET AllFrames
    BY <1>1, <1>3, ElementOfSeq
  <2> QED BY <2>1, <1>3
<1>5. ASSUME NEW q \in Payloads, NEW k \in 1..Len(todo'[q])
      PROVE  \E j \in 1..Len(todo[q]) : /\ todo'[q][k] = todo[q][j]
                                         /\ j = IF q = p THEN k + 1 ELSE k
  BY <1>2, FewerWrites
<1>6. ASSUME NEW q \in Payloads, NEW k \in 1..Len(todo'[q]), NEW f \in todo'[q][k]
      PROVE  /\ f.piece[1] = q /\ f \notin wire'
             /\ \A l \in 1..Len(todo'[q]) : f \in todo'[q][l] => k = l
  <2>1. PICK j \in 1..Len(todo[q]) : todo'[q][k] = todo[q][j] /\ j = IF q = p THEN k + 1 ELSE k
    BY <1>5
  <2>2. /\ f.piece[1] = q /\ f \notin wire
        /\ \A l \in 1..Len(todo[q]) : f \in todo[q][l] => j = l
    BY <2>1, <1>6 DEF Writing
  <2>3. f \notin Head(todo[p])
    <3>1. CASE q = p
      BY <3>1, <2>1, <2>2, <1>3
    <3>2. CASE q # p
      <4>1. \A g \in todo[p][1] : g.piece[1] = p
        BY <1>3 DEF Writing
      <4> QED BY <4>1, <3>2, <2>2, <1>3
    <3> QED BY <3>1, <3>2
  <2>4. ASSUME NEW l \in 1..Len(todo'[q]), f \in todo'[q][l] PROVE k = l
    <3>1. PICK m \in 1..Len(todo[q]) : todo'[q][l] = todo[q][m] /\ m = IF q = p THEN l + 1 ELSE l
      BY <1>5
    <3>2. j = m
      BY <2>2, <2>4, <3>1
    <3> QED BY <2>1, <3>1, <3>2
  <2> QED BY <2>2, <2>3, <2>4
<1>7. \A q \in Payloads \ sent' : todo'[q] = << >>
  <2>1. p \in sent
    BY DEF Writing
  <2> QED BY <2>1, <1>2 DEF Writing
<1>8. Writing'
  BY <1>1, <1>2, <1>4, <1>6, <1>7 DEF Writing
<1>9. ASSUME NEW f PROVE f \in ToCome' <=> f \in ToCome
  <2>1. f \in Unwritten <=> \E q \in Payloads : \E k \in 1..Len(todo[q]) : f \in todo[q][k]
    BY <1>1, UnwrittenFrames DEF Unwritten
  <2>2. f \in Unwritten' <=> \E q \in Payloads : \E k \in 1..Len(todo'[q]) : f \in todo'[q][k]
    BY <1>2, UnwrittenFrames DEF Unwritten
  <2>3. ASSUME NEW q \in Payloads, NEW k \in 1..Len(todo'[q]), f \in todo'[q][k]
        PROVE  f \in Unwritten
    BY <2>1, <2>3, <1>5
  <2>4. ASSUME NEW q \in Payloads, NEW k \in 1..Len(todo[q]), f \in todo[q][k]
        PROVE  f \in Unwritten' \/ f \in wire'
    <3>1. CASE q # p
      BY <3>1, <2>2, <2>4, <1>2
    <3>2. CASE q = p /\ k = 1
      BY <3>2, <1>3, <2>4
    <3>3. CASE q = p /\ k # 1
      <4>1. k - 1 \in 1..Len(todo'[p]) /\ todo'[p][k - 1] = todo[p][k]
        BY <3>3, <1>2, FewerWrites
      <4> QED BY <4>1, <3>3, <2>2, <2>4
    <3> QED BY <3>1, <3>2, <3>3
  <2>5. f \in Head(todo[p]) => f \in Unwritten
    BY <1>3, <2>1
  <2> HIDE DEF Writing
  <2> QED BY <2>1, <2>2, <2>3, <2>4, <2>5 DEF ToCome
<1> QED BY <1>8, <1>9

(* Writes that are dropped leave no new frame.                              *)
LEMMA WritesAreDropped ==
  ASSUME Writing, NEW p \in Payloads, todo[p] # << >>, sent' = sent, wire' = wire,
         todo' \in {[todo EXCEPT ![p] = Tail(@)], [todo EXCEPT ![p] = << >>]}
  PROVE  Writing' /\ ToCome' \subseteq ToCome
<1>1. /\ todo \in [Payloads -> Seq(SUBSET AllFrames)]
      /\ \A q \in Payloads : todo[q] \in Seq(SUBSET AllFrames)
      /\ << >> \in Seq(SUBSET AllFrames) /\ Len(<< >>) = 0
  BY DEF Writing
<1>2. /\ todo' \in [Payloads -> Seq(SUBSET AllFrames)]
      /\ \A q \in Payloads : q # p => todo'[q] = todo[q]
      /\ todo'[p] \in {Tail(todo[p]), << >>}
  BY <1>1, FewerWrites
<1>3. \E n \in {0, 1} : \A q \in Payloads : \A k \in 1..Len(todo'[q]) :
        LET j == IF q = p THEN k + n ELSE k
        IN  j \in 1..Len(todo[q]) /\ todo'[q][k] = todo[q][j]
  <2>1. CASE todo'[p] = Tail(todo[p])
    <3>1. \A q \in Payloads : \A k \in 1..Len(todo'[q]) :
            LET j == IF q = p THEN k + 1 ELSE k
            IN  j \in 1..Len(todo[q]) /\ todo'[q][k] = todo[q][j]
      BY <2>1, <1>2, FewerWrites
    <3> QED BY <3>1
  <2>2. CASE todo'[p] = << >>
    <3>1. \A q \in Payloads : \A k \in 1..Len(todo'[q]) :
            LET j == IF q = p THEN k + 0 ELSE k
            IN  j \in 1..Len(todo[q]) /\ todo'[q][k] = todo[q][j]
      <4> TAKE q \in Payloads
      <4> TAKE k \in 1..Len(todo'[q])
      <4>1. q # p
        BY <2>2, <1>1
      <4> QED BY <4>1, <1>2
    <3> QED BY <3>1
  <2> QED BY <1>2, <2>1, <2>2
<1>4. PICK n \in {0, 1} : \A q \in Payloads : \A k \in 1..Len(todo'[q]) :
        LET j == IF q = p THEN k + n ELSE k
        IN  j \in 1..Len(todo[q]) /\ todo'[q][k] = todo[q][j]
  BY <1>3
<1>5. ASSUME NEW q \in Payloads, NEW k \in 1..Len(todo'[q]), NEW f \in todo'[q][k]
      PROVE  /\ f.piece[1] = q /\ f \notin wire'
             /\ \A l \in 1..Len(todo'[q]) : f \in todo'[q][l] => k = l
             /\ f \in ToCome
  <2> DEFINE j(i) == IF q = p THEN i + n ELSE i
  <2>1. \A i \in 1..Len(todo'[q]) : j(i) \in 1..Len(todo[q]) /\ todo'[q][i] = todo[q][j(i)]
    BY <1>4
  <2>2. \A i, l \in 1..Len(todo'[q]) : j(i) = j(l) => i = l
    OBVIOUS
  <2> HIDE DEF j
  <2> DEFINE m == j(k)
  <2>3. m \in 1..Len(todo[q]) /\ f \in todo[q][m]
    BY <2>1, <1>5
  <2> HIDE DEF m
  <2>4. /\ f.piece[1] = q /\ f \notin wire
        /\ \A l \in 1..Len(todo[q]) : f \in todo[q][l] => m = l
    BY <2>3 DEF Writing
  <2>5. /\ f.piece[1] = q /\ f \notin wire
        /\ \A l \in 1..Len(todo[q]) : f \in todo[q][l] => j(k) = l
    BY <2>4 DEF m
  <2>6. f \in Unwritten
    BY <2>3, <1>1, UnwrittenFrames DEF Unwritten
  <2>7. ASSUME NEW l \in 1..Len(todo'[q]), f \in todo'[q][l] PROVE k = l
    <3>1. j(l) \in 1..Len(todo[q]) /\ f \in todo[q][j(l)]
      BY <2>1, <2>7
    <3>2. j(k) = j(l)
      BY <3>1, <2>5
    <3> QED BY <3>2, <2>2
  <2> QED BY <2>5, <2>6, <2>7 DEF ToCome
<1>6. \A q \in Payloads \ sent' : todo'[q] = << >>
  <2>1. p \in sent
    BY DEF Writing
  <2> QED BY <2>1, <1>2 DEF Writing
<1>7. Writing'
  BY <1>2, <1>5, <1>6 DEF Writing
<1>8. ASSUME NEW f \in ToCome' PROVE f \in ToCome
  <2>1. CASE f \in wire'
    BY <2>1 DEF ToCome
  <2>2. CASE f \in Unwritten'
    <3>1. \E q \in Payloads : \E k \in 1..Len(todo'[q]) : f \in todo'[q][k]
      BY <2>2, <1>2, UnwrittenFrames DEF Unwritten
    <3> QED BY <3>1, <1>5
  <2> QED BY <1>8, <2>1, <2>2 DEF ToCome
<1> QED BY <1>7, <1>8

(* A frame that leaves the network is none to come.                         *)
LEMMA FrameLeaves ==
  ASSUME Writing, NEW f \in wire, wire' = wire \ {f}, UNCHANGED <<sent, todo>>
  PROVE  Writing' /\ ToCome' = ToCome \ {f}
<1>1. Writing'
  BY DEF Writing
<1>2. f \notin Unwritten
  <2>1. todo \in [Payloads -> Seq(SUBSET AllFrames)]
    BY DEF Writing
  <2>2. f \in Unwritten => \E p \in Payloads : \E k \in 1..Len(todo[p]) : f \in todo[p][k]
    BY <2>1, UnwrittenFrames DEF Unwritten
  <2> QED BY <2>2 DEF Writing
<1>3. Unwritten' = Unwritten
  BY DEF Unwritten
<1> QED BY <1>1, <1>2, <1>3 DEF ToCome

(* The path of a behaviour does not change, and with it what a frame says.  *)
LEMMA SamePlaces ==
  ASSUME path' = path
  PROVE  /\ \A i : Place(i)' = Place(i)
         /\ \A p : Total(p)' = Total(p) /\ (Fitting(p)' <=> Fitting(p))
         /\ \A f, p, i : Carries(f, p, i)' <=> Carries(f, p, i)
BY DEF Place, Total, Fitting, Carries

(* Where no stream changes, the invariant of the streams stays.            *)
LEMMA StreamsRest ==
  ASSUME StreamInv, UNCHANGED <<path, streamVars>>
  PROVE  StreamInv'
<1>1. /\ path' = path /\ sent' = sent /\ todo' = todo /\ wire' = wire /\ buffers' = buffers
      /\ arrived' = arrived /\ handed' = handed /\ garbled' = garbled /\ faults' = faults
      /\ astray' = astray
  BY DEF streamVars
<1>2. Writing'
  BY <1>1 DEF StreamInv, Writing
<1>3. Counters'
  BY <1>1 DEF StreamInv, Counters
<1>4. ToCome' = ToCome
  BY <1>1 DEF ToCome, Unwritten
<1>5. \A b : Filled(b)' <=> Filled(b)
  BY <1>1, SamePlaces DEF Filled
<1>6. Receiving'
  BY <1>1, <1>4, <1>5, SamePlaces DEF StreamInv, Receiving
<1>7. /\ \A p : IdsOf(p)' = IdsOf(p)
      /\ \A p, i : (Kept(p, i)' <=> Kept(p, i)) /\ (Coming(p, i)' <=> Coming(p, i))
  BY <1>1, <1>4 DEF IdsOf, Kept, Coming
<1>8. ~astray' => Owned'
  BY <1>1, <1>7, SamePlaces DEF StreamInv, Owned
<1>9. ~astray' /\ faults' = 0 => Smooth'
  BY <1>1, <1>7, SamePlaces DEF StreamInv, Smooth
<1> QED BY <1>1, <1>2, <1>3, <1>6, <1>8, <1>9 DEF StreamInv

(* Fewer frames to come and fewer streams open.                             *)
LEMMA LessIsLeft ==
  ASSUME StreamInv, UNCHANGED <<path, sent, arrived, handed, garbled, astray>>,
         ToCome' \subseteq ToCome, DOMAIN buffers' \subseteq DOMAIN buffers,
         buffers' = [id \in DOMAIN buffers' |-> buffers'[id]],
         \A id \in DOMAIN buffers' :
           \E o \in BOOLEAN : buffers'[id] = [buffers[id] EXCEPT !.old = o]
  PROVE  /\ Receiving' /\ (~astray' => Owned')
         /\ \A p : IdsOf(p)' \subseteq IdsOf(p)
<1>1. ASSUME NEW id \in DOMAIN buffers'
      PROVE  /\ Filled(buffers[id]) /\ Filled(buffers'[id]) /\ DOMAIN buffers'[id].got # {}
             /\ buffers'[id].got = buffers[id].got /\ buffers'[id].total = buffers[id].total
  <2>1. Filled(buffers[id]) /\ DOMAIN buffers[id].got # {}
    BY DEF StreamInv, Receiving
  <2>2. PICK o \in BOOLEAN : buffers'[id] = [buffers[id] EXCEPT !.old = o]
    OBVIOUS
  <2> DEFINE b == buffers[id]
             c == buffers'[id]
  <2>3. c = [total |-> b.total, got |-> b.got, old |-> o]
    BY <2>1, <2>2 DEF Filled
  <2>4. Filled(c) /\ c.got = b.got /\ c.total = b.total
    BY <2>1, <2>3 DEF Filled
  <2> QED BY <2>1, <2>4
<1>2. \A b : Filled(b)' <=> Filled(b)
  BY SamePlaces DEF Filled
<1>3. \A id \in DOMAIN buffers' : Filled(buffers[id])'
  BY <1>1, <1>2
<1>4. \A f \in ToCome' : \E p \in sent' : \E i \in Indices(p) : Carries(f, p, i)'
  BY SamePlaces DEF StreamInv, Receiving
<1>5. Receiving'
  BY <1>1, <1>3, <1>4 DEF Receiving
<1>6. /\ \A p : IdsOf(p)' \subseteq IdsOf(p)
      /\ \A p, i : Kept(p, i)' => Kept(p, i)
  BY <1>1 DEF IdsOf, Kept
<1>7. ASSUME ~astray' PROVE Owned'
  <2>1. Owned
    BY <1>7 DEF StreamInv
  <2>2. \A p, q \in Payloads : \A x \in IdsOf(p)', y \in IdsOf(q)' : x = y <=> p = q
    BY <2>1, <1>6 DEF Owned
  <2>3. \A id \in DOMAIN buffers' : \A k \in DOMAIN buffers'[id].got :
          (buffers[id].total = Total(buffers[id].got[k][1]))'
    BY <2>1, <1>1, SamePlaces DEF Owned
  <2>4. ASSUME NEW p \in Payloads, NEW i \in Indices(p)
        PROVE  handed'[p] + (IF Kept(p, i)' THEN 1 ELSE 0) <= arrived'[p][i]
    <3>1. handed[p] + (IF Kept(p, i) THEN 1 ELSE 0) <= arrived[p][i]
          /\ handed[p] \in Nat /\ arrived[p][i] \in Nat
      BY <2>1, <2>4 DEF Owned, StreamInv, Counters
    <3> QED BY <3>1, <1>6
  <2>5. \A p \in garbled' : ~Fitting(p)'
    BY <2>1, SamePlaces DEF Owned
  <2> QED BY <2>2, <2>3, <2>4, <2>5 DEF Owned
<1> QED BY <1>5, <1>6, <1>7

-----------------------------------------------------------------------------
(* The receiver.  A piece fits its place when the payload fits the frame.   *)
LEMMA FittingPlaces ==
  ASSUME NEW p \in Payloads, Fitting(p)
  PROVE  /\ Total(p) = Pieces[p] /\ \A i \in Indices(p) : Place(i) = i
         /\ IsFiniteSet(Indices(p)) /\ Cardinality(Indices(p)) = Pieces[p]
<1>1. Pieces[p] \in Nat /\ Indices(p) = 0..(Pieces[p] - 1)
  BY Natural
<1>2. IsFiniteSet(0..(Pieces[p] - 1)) /\ Cardinality(0..(Pieces[p] - 1)) = Pieces[p]
  BY <1>1, FS_Interval
<1>3. \A i \in 0..(Pieces[p] - 1) : Place(i) = i
  BY <1>1, WidthsAssumption DEF Place, Fitting
<1>4. Total(p) = Pieces[p]
  BY <1>1, WidthsAssumption DEF Total, Fitting
<1> QED BY <1>1, <1>2, <1>3, <1>4

(* What on_chunk and process_subframes have in hand after a frame came: the *)
(* buffer of its stream with its piece.                                     *)
LEMMA TheBuffer ==
  ASSUME StreamInv, NEW f \in ToCome, NEW p \in sent, NEW i \in Indices(p), Carries(f, p, i)
  PROVE  /\ Filled(WithPieceOf(f))
         /\ f.index \in DOMAIN WithPieceOf(f).got /\ WithPieceOf(f).got[f.index] = <<p, i>>
         /\ \A k \in DOMAIN WithPieceOf(f).got : k # f.index =>
              /\ f.id \in DOMAIN buffers /\ k \in DOMAIN buffers[f.id].got
              /\ WithPieceOf(f).got[k] = buffers[f.id].got[k]
         /\ f.id \in DOMAIN buffers =>
              \A k \in DOMAIN buffers[f.id].got :
                k \in DOMAIN WithPieceOf(f).got
                /\ (k # f.index => WithPieceOf(f).got[k] = buffers[f.id].got[k])
         /\ WithPieceOf(f).total = BufferOf(f).total
         /\ WithPieceOf(f).old = BufferOf(f).old
         /\ f.id \in IdsOf(p) /\ f.index = Place(i) /\ f.total = Total(p) /\ f.piece = <<p, i>>
<1>1. f.index = Place(i) /\ f.total = Total(p) /\ f.piece = <<p, i>>
  BY DEF Carries
<1>2. f.id \in IdsOf(p)
  BY <1>1 DEF IdsOf
<1>3. p \in Payloads /\ Place(i) \in Nat /\ Total(p) \in Nat
  <2>1. p \in Payloads
    BY DEF StreamInv, Counters
  <2>2. i \in Nat
    BY <2>1, Natural
  <2> QED BY <2>1, <2>2, Natural
<1> DEFINE o == BufferOf(f)
           b == WithPieceOf(f)
<1>4. Filled(o)
  <2>1. CASE f.id \in DOMAIN buffers
    BY <2>1 DEF StreamInv, Receiving, BufferOf
  <2>2. CASE f.id \notin DOMAIN buffers
    BY <2>2, <1>1, <1>3 DEF BufferOf, NewBuffer, Filled
  <2> QED BY <2>1, <2>2
<1>5. b = [total |-> o.total, got |-> Put(o.got, f.index, f.piece), old |-> o.old]
  BY <1>4 DEF WithPieceOf, Filled
<1>6. DOMAIN o.got = IF f.id \in DOMAIN buffers THEN DOMAIN buffers[f.id].got ELSE {}
  BY DEF BufferOf, NewBuffer
<1>7. f.id \in DOMAIN buffers => o = buffers[f.id]
  BY DEF BufferOf
<1> HIDE DEF o, b
<1>8. /\ b.total = o.total /\ b.old = o.old
      /\ DOMAIN b.got = DOMAIN o.got \cup {f.index} /\ b.got[f.index] = f.piece
      /\ \A k \in DOMAIN o.got : k # f.index => b.got[k] = o.got[k]
      /\ b.got = [k \in DOMAIN b.got |-> b.got[k]]
  BY <1>5 DEF Put
<1>9. Filled(b)
  <2>1. \A k \in DOMAIN b.got : \E q \in sent : \E j \in Indices(q) :
          b.got[k] = <<q, j>> /\ k = Place(j)
    <3> TAKE k \in DOMAIN b.got
    <3>1. CASE k = f.index
      BY <3>1, <1>1, <1>8
    <3>2. CASE k # f.index
      BY <3>2, <1>4, <1>8 DEF Filled
    <3> QED BY <3>1, <3>2
  <2> QED BY <2>1, <1>4, <1>5, <1>8 DEF Filled
<1> QED BY <1>1, <1>2, <1>6, <1>7, <1>8, <1>9 DEF o, b

(* While the sender did not go astray, the buffer holds pieces of this      *)
(* payload only, and no other one does.                                     *)
LEMMA OwnBuffer ==
  ASSUME StreamInv, ~astray, NEW f \in ToCome, NEW p \in sent, NEW i \in Indices(p),
         Carries(f, p, i)
  PROVE  /\ WithPieceOf(f).total = Total(p)
         /\ \A k \in DOMAIN WithPieceOf(f).got : \E j \in Indices(p) :
              WithPieceOf(f).got[k] = <<p, j>> /\ k = Place(j)
         /\ \A id \in DOMAIN buffers : \A k \in DOMAIN buffers[id].got :
              /\ id = f.id <=> buffers[id].got[k][1] = p
              /\ id = f.id => \E j \in Indices(p) :
                                buffers[id].got[k] = <<p, j>> /\ k = Place(j)
<1> DEFINE b == WithPieceOf(f)
<1>1. p \in Payloads /\ Owned
  BY DEF StreamInv, Counters
<1>2. f.id \in IdsOf(p) /\ f.total = Total(p)
  BY TheBuffer
<1>3. ASSUME NEW id \in DOMAIN buffers, NEW k \in DOMAIN buffers[id].got
      PROVE  /\ id = f.id <=> buffers[id].got[k][1] = p
             /\ id = f.id => \E j \in Indices(p) : buffers[id].got[k] = <<p, j>> /\ k = Place(j)
  <2>1. PICK q \in sent : \E j \in Indices(q) : buffers[id].got[k] = <<q, j>> /\ k = Place(j)
    BY <1>3 DEF StreamInv, Receiving, Filled
  <2>2. id \in IdsOf(q) /\ q \in Payloads /\ buffers[id].got[k][1] = q
    BY <2>1, <1>3 DEF IdsOf, StreamInv, Counters
  <2>3. id = f.id <=> q = p
    BY <2>2, <1>1, <1>2 DEF Owned
  <2> QED BY <2>1, <2>2, <2>3
<1>4. ASSUME NEW k \in DOMAIN b.got
      PROVE  \E j \in Indices(p) : b.got[k] = <<p, j>> /\ k = Place(j)
  <2>1. CASE k = f.index
    BY <2>1, TheBuffer
  <2>2. CASE k # f.index
    <3>1. f.id \in DOMAIN buffers /\ k \in DOMAIN buffers[f.id].got
          /\ b.got[k] = buffers[f.id].got[k]
      BY <2>2, TheBuffer
    <3> QED BY <3>1, <1>3
  <2> QED BY <2>1, <2>2
<1>5. b.total = Total(p)
  <2>1. CASE f.id \in DOMAIN buffers
    <3>1. PICK k \in DOMAIN buffers[f.id].got : TRUE
      BY <2>1 DEF StreamInv, Receiving
    <3>2. buffers[f.id].total = Total(p)
      BY <2>1, <3>1, <1>1, <1>3 DEF Owned
    <3> QED BY <2>1, <3>2, TheBuffer DEF BufferOf
  <2>2. CASE f.id \notin DOMAIN buffers
    BY <2>2, <1>2, TheBuffer DEF BufferOf, NewBuffer
  <2> QED BY <2>1, <2>2
<1> QED BY <1>3, <1>4, <1>5

(* Complete means whole, where the number of pieces fits the frame.         *)
LEMMA CompleteIsWhole ==
  ASSUME StreamInv, ~astray, NEW f \in ToCome, NEW p \in sent, NEW i \in Indices(p),
         Carries(f, p, i), Fitting(p)
  PROVE  /\ DOMAIN WithPieceOf(f).got \subseteq Indices(p)
         /\ \A k \in DOMAIN WithPieceOf(f).got : WithPieceOf(f).got[k] = <<p, k>>
         /\ Complete(WithPieceOf(f)) <=> DOMAIN WithPieceOf(f).got = Indices(p)
         /\ Complete(WithPieceOf(f)) => /\ Joinable(WithPieceOf(f))
                                        /\ Whole(p, WithPieceOf(f).got)
<1> DEFINE b == WithPieceOf(f)
<1>1. p \in Payloads
  BY DEF StreamInv, Counters
<1>2. /\ Total(p) = Pieces[p] /\ \A j \in Indices(p) : Place(j) = j
      /\ IsFiniteSet(Indices(p)) /\ Cardinality(Indices(p)) = Pieces[p]
  BY <1>1, FittingPlaces
<1>3. b.total = Pieces[p]
  BY <1>2, OwnBuffer
<1>4. DOMAIN b.got \subseteq Indices(p) /\ \A k \in DOMAIN b.got : b.got[k] = <<p, k>>
  <2>1. \A k \in DOMAIN b.got : \E j \in Indices(p) : b.got[k] = <<p, j>> /\ k = Place(j)
    BY OwnBuffer
  <2> QED BY <2>1, <1>2
<1> HIDE DEF b
<1>5. Complete(b) <=> DOMAIN b.got = Indices(p)
  <2>1. Cardinality(DOMAIN b.got) = Cardinality(Indices(p)) => DOMAIN b.got = Indices(p)
    BY <1>2, <1>4, FS_Subset
  <2> QED BY <2>1, <1>2, <1>3 DEF Complete
<1>6. Complete(b) => Joinable(b)
  BY <1>3, <1>5 DEF Joinable, Indices
<1>7. Complete(b) => Whole(p, b.got)
  BY <1>4, <1>5 DEF Whole
<1> QED BY <1>4, <1>5, <1>6, <1>7 DEF b

(* What is handed over is this payload or something garbled.                *)
LEMMA NoOtherIsWhole ==
  ASSUME StreamInv, ~astray, NEW f \in ToCome, NEW p \in sent, NEW i \in Indices(p),
         Carries(f, p, i), NEW q \in Payloads, Pieces[q] > 0, Whole(q, WithPieceOf(f).got)
  PROVE  q = p
<1>1. Indices(q) = 0..(Pieces[q] - 1) /\ Pieces[q] \in Nat
  BY Natural
<1>2. 0 \in Indices(q)
  BY <1>1
<1>3. WithPieceOf(f).got[0] = <<q, 0>> /\ 0 \in DOMAIN WithPieceOf(f).got
  BY <1>2 DEF Whole
<1>4. PICK j \in Indices(p) : WithPieceOf(f).got[0] = <<p, j>>
  BY <1>3, OwnBuffer
<1> QED BY <1>3, <1>4

(* The three things that can become of the stream of a frame that came.     *)
GivenUp(f) ==
  /\ f.id \in DOMAIN buffers /\ buffers[f.id].old
  /\ buffers' = Drop(buffers, f.id) /\ UNCHANGED <<handed, garbled>>
Waits(f) ==
  /\ ~(Complete(WithPieceOf(f)) /\ Joinable(WithPieceOf(f)))
  /\ Keep(f.id, WithPieceOf(f))
Joins(f) == Complete(WithPieceOf(f)) /\ Finish(f.id, WithPieceOf(f))

Comes(f) ==
  /\ Take(f)
  /\ GivenUp(f) \/ Waits(f) \/ Joins(f)
  /\ UNCHANGED <<path, sent, todo, astray>>
  /\ (wire' = wire \ {f} /\ faults' = faults) \/ (wire' = wire /\ Fault)

(* After a frame came, only the buffer of its stream differs.              *)
LEMMA BuffersAfter ==
  ASSUME NEW f, Comes(f)
  PROVE  /\ buffers' = [id \in DOMAIN buffers' |-> buffers'[id]]
         /\ DOMAIN buffers' \subseteq DOMAIN buffers \cup {f.id}
         /\ \A id \in DOMAIN buffers : id # f.id => id \in DOMAIN buffers'
         /\ \A id \in DOMAIN buffers' : id # f.id => buffers'[id] = buffers[id]
         /\ f.id \in DOMAIN buffers' <=> Waits(f)
         /\ Waits(f) => buffers'[f.id] = WithPieceOf(f)
<1>1. CASE Waits(f)
  <2>1. buffers' = Put(buffers, f.id, WithPieceOf(f))
    BY <1>1 DEF Waits, Keep
  <2> QED BY <1>1, <2>1 DEF Put
<1>2. CASE ~Waits(f)
  <2>1. buffers' = Drop(buffers, f.id)
    BY <1>2 DEF Comes, GivenUp, Joins, Finish
  <2> QED BY <1>2, <2>1 DEF Drop, Restrict
<1> QED BY <1>1, <1>2

(* A frame that came is on its way no more, unless it is repeated.         *)
LEMMA FramesAfter ==
  ASSUME StreamInv, NEW f \in wire, Comes(f)
  PROVE  /\ Writing' /\ ToCome' \subseteq ToCome
         /\ faults' = 0 => faults = 0 /\ ToCome' = ToCome \ {f}
         /\ faults' \in 0..MaxFaults
<1>1. Writing /\ faults \in 0..MaxFaults /\ MaxFaults \in Nat
  BY StreamsAssumption DEF StreamInv, Counters
<1>2. CASE wire' = wire \ {f} /\ faults' = faults
  BY <1>1, <1>2, FrameLeaves DEF Comes
<1>3. CASE wire' = wire /\ Fault
  <2>1. ToCome' = ToCome /\ Writing'
    BY <1>1, <1>3 DEF Comes, ToCome, Unwritten, Writing
  <2>2. faults' \in 1..MaxFaults
    BY <1>1, <1>3 DEF Fault
  <2> QED BY <2>1, <2>2
<1> QED BY <1>2, <1>3 DEF Comes

(* Its piece is counted, and no other is.                                  *)
LEMMA ArrivedAfter ==
  ASSUME StreamInv, NEW p \in Payloads, NEW i \in Indices(p), NEW f, f.piece = <<p, i>>,
         Take(f)
  PROVE  /\ arrived' = [q \in Payloads |-> arrived'[q]]
         /\ \A q \in Payloads : arrived'[q] \in [Indices(q) -> Nat]
         /\ arrived'[p][i] = arrived[p][i] + 1
         /\ \A q \in Payloads : \A j \in Indices(q) :
              /\ arrived[q][j] \in Nat /\ arrived[q][j] <= arrived'[q][j]
<1>1. /\ arrived = [q \in Payloads |-> arrived[q]]
      /\ \A q \in Payloads : arrived[q] \in [Indices(q) -> Nat]
  BY DEF StreamInv, Counters
<1>2. arrived' = [arrived EXCEPT ![p] = [arrived[p] EXCEPT ![i] = @ + 1]]
  BY <1>1 DEF Take
<1>3. arrived'[p] = [arrived[p] EXCEPT ![i] = @ + 1] /\ arrived[p] \in [Indices(p) -> Nat]
      /\ \A q \in Payloads : q # p => arrived'[q] = arrived[q]
  BY <1>1, <1>2
<1>4. arrived' = [q \in Payloads |-> arrived'[q]]
  BY <1>1, <1>2
<1> HIDE DEF Take
<1>5. arrived'[p] \in [Indices(p) -> Nat] /\ arrived'[p][i] = arrived[p][i] + 1
      /\ \A j \in Indices(p) : arrived[p][j] <= arrived'[p][j]
  BY <1>3
<1>6. \A q \in Payloads : \A j \in Indices(q) :
        arrived[q][j] \in Nat /\ arrived[q][j] <= arrived'[q][j]
  <2> TAKE q \in Payloads
  <2> TAKE j \in Indices(q)
  <2>1. arrived[q][j] \in Nat
    BY <1>1
  <2>2. CASE q = p
    BY <2>1, <2>2, <1>5
  <2>3. CASE q # p
    BY <2>1, <2>3, <1>3
  <2> QED BY <2>2, <2>3, <2>1
<1> QED BY <1>1, <1>3, <1>4, <1>5, <1>6

(* The counters keep their types.                                          *)
LEMMA CountersAfter ==
  ASSUME StreamInv, NEW f \in wire, Comes(f)
  PROVE  Counters'
<1>1. PICK p \in sent : \E i \in Indices(p) : Carries(f, p, i)
  BY DEF StreamInv, Receiving, ToCome
<1>2. PICK i \in Indices(p) : Carries(f, p, i)
  BY <1>1
<1>3. f \in ToCome /\ Counters
  BY DEF ToCome, StreamInv
<1>4. p \in Payloads /\ f.piece = <<p, i>> /\ Take(f)
  BY <1>2, <1>3 DEF Counters, Carries, Comes
<1>5. /\ arrived' = [q \in Payloads |-> arrived'[q]]
      /\ \A q \in Payloads : arrived'[q] \in [Indices(q) -> Nat]
  BY <1>4, ArrivedAfter
<1>6. /\ handed' \in [Payloads -> Nat] /\ garbled' \subseteq sent
      /\ \A q \in Payloads : Pieces[q] = 0 => handed'[q] = 0
  <2>1. CASE UNCHANGED <<handed, garbled>>
    BY <2>1, <1>3 DEF Counters
  <2>2. CASE Joins(f)
    <3> DEFINE got == WithPieceOf(f).got
               whole == {q \in Payloads : Pieces[q] > 0 /\ Whole(q, got)}
    <3>1. /\ handed' = [q \in Payloads |-> handed[q] + IF q \in whole THEN 1 ELSE 0]
          /\ garbled' = garbled \cup IF whole = {} THEN {piece[1] : piece \in Range(got)} ELSE {}
      BY <2>2 DEF Joins, Finish, HandOver
    <3>2. {piece[1] : piece \in Range(got)} \subseteq sent
      <4>1. Filled(WithPieceOf(f))
        BY <1>2, <1>3, TheBuffer
      <4>2. \A k \in DOMAIN got : got[k][1] \in sent
        BY <4>1 DEF Filled
      <4>3. \A piece \in Range(got) : piece[1] \in sent
        BY <4>2 DEF Range
      <4> QED BY <4>3
    <3>3. \A q \in Payloads : Pieces[q] = 0 => q \notin whole
      OBVIOUS
    <3> HIDE DEF got, whole
    <3>4. \A q \in Payloads : handed[q] \in Nat
      BY <1>3 DEF Counters
    <3>5. handed' \in [Payloads -> Nat]
      BY <3>1, <3>4
    <3>6. garbled' \subseteq sent
      BY <3>1, <3>2, <1>3 DEF Counters
    <3>7. \A q \in Payloads : Pieces[q] = 0 => handed'[q] = 0
      BY <3>1, <3>3, <1>3 DEF Counters
    <3> QED BY <3>5, <3>6, <3>7
  <2> QED BY <2>1, <2>2 DEF Comes, GivenUp, Waits, Keep
<1>7. faults' \in 0..MaxFaults
  BY FramesAfter
<1> QED BY <1>3, <1>5, <1>6, <1>7 DEF Counters, Comes

(* The buffers hold pieces of payloads that were sent, under no new id.    *)
LEMMA ReceivingAfter ==
  ASSUME StreamInv, NEW f \in wire, Comes(f)
  PROVE  /\ Receiving'
         /\ \A q : IdsOf(q)' \subseteq IdsOf(q)
<1>1. PICK p \in sent : \E i \in Indices(p) : Carries(f, p, i)
  BY DEF StreamInv, Receiving, ToCome
<1>2. PICK i \in Indices(p) : Carries(f, p, i)
  BY <1>1
<1>3. f \in ToCome /\ Receiving /\ path' = path /\ sent' = sent
  BY DEF ToCome, StreamInv, Comes
<1>4. ASSUME NEW id \in DOMAIN buffers'
      PROVE  /\ Filled(buffers'[id]) /\ DOMAIN buffers'[id].got # {}
             /\ \A k \in DOMAIN buffers'[id].got : id \in IdsOf(buffers'[id].got[k][1])
  <2>1. CASE id = f.id
    <3>1. buffers'[id] = WithPieceOf(f)
      BY <2>1, <1>4, BuffersAfter
    <3>2. Filled(WithPieceOf(f)) /\ f.index \in DOMAIN WithPieceOf(f).got
      BY <1>2, <1>3, TheBuffer
    <3>3. \A k \in DOMAIN WithPieceOf(f).got : f.id \in IdsOf(WithPieceOf(f).got[k][1])
      <4> TAKE k \in DOMAIN WithPieceOf(f).got
      <4>1. CASE k = f.index
        BY <4>1, <1>2, <1>3, TheBuffer
      <4>2. CASE k # f.index
        <5>1. /\ f.id \in DOMAIN buffers /\ k \in DOMAIN buffers[f.id].got
              /\ WithPieceOf(f).got[k] = buffers[f.id].got[k]
          BY <4>2, <1>2, <1>3, TheBuffer
        <5> QED BY <5>1 DEF IdsOf
      <4> QED BY <4>1, <4>2
    <3> QED BY <2>1, <3>1, <3>2, <3>3
  <2>2. CASE id # f.id
    <3>1. id \in DOMAIN buffers /\ buffers'[id] = buffers[id]
      BY <2>2, <1>4, BuffersAfter
    <3> QED BY <3>1, <1>3 DEF Receiving, IdsOf
  <2> QED BY <2>1, <2>2
<1>5. ToCome' \subseteq ToCome
  BY FramesAfter
<1>6. \A q : IdsOf(q)' \subseteq IdsOf(q)
  <2> TAKE q
  <2>1. ASSUME NEW x \in IdsOf(q)' PROVE x \in IdsOf(q)
    <3>1. CASE \E g \in ToCome' : g.piece[1] = q /\ x = g.id
      BY <3>1, <1>5 DEF IdsOf
    <3>2. CASE x \in DOMAIN buffers' /\ \E k \in DOMAIN buffers'[x].got : buffers'[x].got[k][1] = q
      BY <3>2, <1>4
    <3> QED BY <2>1, <3>1, <3>2 DEF IdsOf
  <2> QED BY <2>1
<1>7. Receiving'
  <2>1. \A b : Filled(b)' <=> Filled(b)
    BY <1>3, SamePlaces DEF Filled
  <2>2. \A id \in DOMAIN buffers' : (Filled(buffers[id]) /\ DOMAIN buffers[id].got # {})'
    BY <2>1, <1>4
  <2>3. \A g \in ToCome' : \E q \in sent' : \E j \in Indices(q) : Carries(g, q, j)'
    BY <1>3, <1>5, SamePlaces DEF Receiving
  <2> QED BY <2>2, <2>3, BuffersAfter DEF Receiving
<1> QED BY <1>6, <1>7

(* Where the pieces are afterwards.                                         *)
LEMMA KeptAfter ==
  ASSUME StreamInv, ~astray, NEW f \in wire, Comes(f), NEW p \in sent, NEW i \in Indices(p),
         Carries(f, p, i), NEW q \in Payloads, NEW j \in Indices(q)
  PROVE  /\ Kept(q, j)' => Kept(q, j) \/ (q = p /\ j = i)
         /\ q # p => (Kept(q, j)' <=> Kept(q, j))
         /\ q = p /\ ~Waits(f) => ~Kept(q, j)'
         /\ q = p /\ Waits(f) => (Kept(q, j)' <=> \E k \in DOMAIN WithPieceOf(f).got :
                                                    WithPieceOf(f).got[k] = <<p, j>>)
<1>1. f \in ToCome /\ Counters /\ p \in Payloads
  BY DEF ToCome, StreamInv, Counters
<1> DEFINE Has(id, r, l) == id \in DOMAIN buffers /\ \E k \in DOMAIN buffers[id].got :
                                                       buffers[id].got[k] = <<r, l>>
           HasNow(id, r, l) == id \in DOMAIN buffers' /\ \E k \in DOMAIN buffers'[id].got :
                                                          buffers'[id].got[k] = <<r, l>>
           InHand(r, l) == \E k \in DOMAIN WithPieceOf(f).got : WithPieceOf(f).got[k] = <<r, l>>
<1>2. /\ \A r, l : Kept(r, l) <=> \E id : Has(id, r, l)
      /\ \A r, l : Kept(r, l)' <=> \E id : HasNow(id, r, l)
  BY DEF Kept
<1>3. \A id : id # f.id => (HasNow(id, q, j) <=> Has(id, q, j))
  BY BuffersAfter
<1>4. \A l : HasNow(f.id, q, l) <=> Waits(f) /\ InHand(q, l)
  BY BuffersAfter
<1>5. \A id : Has(id, q, j) => (id = f.id <=> q = p)
  BY <1>1, OwnBuffer
<1>6. InHand(q, j) => q = p
  BY <1>1, OwnBuffer
<1>7. InHand(q, j) => Has(f.id, q, j) \/ (q = p /\ j = i)
  BY <1>1, TheBuffer
<1> HIDE DEF Has, HasNow, InHand
<1>8. Kept(q, j)' => Kept(q, j) \/ (q = p /\ j = i)
  BY <1>2, <1>3, <1>4, <1>7
<1>9. q # p => (Kept(q, j)' <=> Kept(q, j))
  BY <1>2, <1>3, <1>4, <1>5, <1>6
<1>10. q = p /\ ~Waits(f) => ~Kept(q, j)'
  BY <1>2, <1>3, <1>4, <1>5
<1>11. q = p /\ Waits(f) => (Kept(q, j)' <=> InHand(p, j))
  BY <1>2, <1>3, <1>4, <1>5
<1> QED BY <1>8, <1>9, <1>10, <1>11 DEF InHand

(* Where the number of pieces fits the frame, the buffer in hand has the    *)
(* piece that came and those that were kept.                                *)
LEMMA InHandAre ==
  ASSUME StreamInv, ~astray, NEW f \in ToCome, NEW p \in sent, NEW i \in Indices(p),
         Carries(f, p, i), Fitting(p), NEW j \in Indices(p)
  PROVE  /\ j \in DOMAIN WithPieceOf(f).got <=> Kept(p, j) \/ j = i
         /\ (\E k \in DOMAIN WithPieceOf(f).got : WithPieceOf(f).got[k] = <<p, j>>)
              <=> j \in DOMAIN WithPieceOf(f).got
<1> DEFINE b == WithPieceOf(f)
<1>1. p \in Payloads
  BY DEF StreamInv, Counters
<1>2. i = f.index /\ i \in DOMAIN b.got
  BY <1>1, TheBuffer, FittingPlaces
<1>3. \A k \in DOMAIN b.got : b.got[k] = <<p, k>>
  BY CompleteIsWhole
<1>4. j \in DOMAIN b.got /\ j # i => Kept(p, j)
  <2> SUFFICES ASSUME j \in DOMAIN b.got, j # i PROVE Kept(p, j)
    OBVIOUS
  <2>1. f.id \in DOMAIN buffers /\ j \in DOMAIN buffers[f.id].got
        /\ b.got[j] = buffers[f.id].got[j]
    BY <1>2, TheBuffer
  <2> QED BY <2>1, <1>3 DEF Kept
<1>5. Kept(p, j) => j \in DOMAIN b.got
  <2> SUFFICES ASSUME Kept(p, j) PROVE j \in DOMAIN b.got
    OBVIOUS
  <2>1. PICK id \in DOMAIN buffers : \E k \in DOMAIN buffers[id].got : buffers[id].got[k] = <<p, j>>
    BY DEF Kept
  <2>2. PICK k \in DOMAIN buffers[id].got : buffers[id].got[k] = <<p, j>>
    BY <2>1
  <2>3. id = f.id /\ \E l \in Indices(p) : buffers[id].got[k] = <<p, l>> /\ k = Place(l)
    BY <2>2, OwnBuffer
  <2>4. k = j
    BY <2>2, <2>3, <1>1, FittingPlaces
  <2> QED BY <2>2, <2>3, <2>4, TheBuffer
<1>6. (\E k \in DOMAIN b.got : b.got[k] = <<p, j>>) <=> j \in DOMAIN b.got
  BY <1>3
<1> QED BY <1>2, <1>4, <1>5, <1>6

(* What was handed over afterwards.                                         *)
LEMMA HandedAfter ==
  ASSUME StreamInv, ~astray, NEW f \in wire, Comes(f), NEW p \in sent, NEW i \in Indices(p),
         Carries(f, p, i), NEW q \in Payloads
  PROVE  /\ handed'[q] = IF Joins(f) /\ q = p /\ Pieces[q] > 0 /\ Whole(p, WithPieceOf(f).got)
                         THEN handed[q] + 1 ELSE handed[q]
         /\ q \in garbled' => q \in garbled \/ (Joins(f) /\ q = p /\ ~Whole(p, WithPieceOf(f).got))
<1>1. f \in ToCome /\ Counters /\ p \in Payloads
  BY DEF ToCome, StreamInv, Counters
<1>2. CASE ~Joins(f)
  BY <1>1, <1>2 DEF Comes, GivenUp, Waits, Keep, Counters
<1>3. CASE Joins(f)
  <2> DEFINE got == WithPieceOf(f).got
             whole == {r \in Payloads : Pieces[r] > 0 /\ Whole(r, got)}
  <2>1. /\ handed' = [r \in Payloads |-> handed[r] + IF r \in whole THEN 1 ELSE 0]
        /\ garbled' = garbled \cup IF whole = {} THEN {piece[1] : piece \in Range(got)} ELSE {}
    BY <1>3 DEF Joins, Finish, HandOver
  <2>2. \A r \in whole : r = p
    BY <1>1, NoOtherIsWhole
  <2>3. \A piece \in Range(got) : piece[1] = p
    BY <1>1, OwnBuffer DEF Range
  <2>4. q \in whole <=> q = p /\ Pieces[q] > 0 /\ Whole(p, got)
    BY <2>2
  <2>5. Pieces[p] > 0
    <3>1. Pieces[p] \in Nat /\ Indices(p) = 0..(Pieces[p] - 1)
      BY <1>1, Natural
    <3> QED BY <3>1
  <2>6. whole = {} => ~Whole(p, got)
    BY <1>1, <2>5
  <2> HIDE DEF got, whole
  <2>7. handed'[q] = IF q \in whole THEN handed[q] + 1 ELSE handed[q]
    <3>1. handed[q] \in Nat
      BY <1>1 DEF Counters
    <3> QED BY <2>1, <3>1
  <2>8. q \in garbled' => q \in garbled \/ (q = p /\ ~Whole(p, got))
    BY <2>1, <2>3, <2>6
  <2> QED BY <1>3, <2>4, <2>7, <2>8 DEF got
<1> QED BY <1>2, <1>3

(* No id is shared and no payload is handed over too often when a frame    *)
(* comes.                                                                  *)
LEMMA OwnedAfter ==
  ASSUME StreamInv, ~astray, NEW f \in wire, Comes(f)
  PROVE  Owned'
<1>1. PICK p \in sent : \E i \in Indices(p) : Carries(f, p, i)
  BY DEF StreamInv, Receiving, ToCome
<1>2. PICK i \in Indices(p) : Carries(f, p, i)
  BY <1>1
<1>3. f \in ToCome /\ Owned /\ Counters /\ p \in Payloads /\ path' = path /\ Take(f)
      /\ f.piece = <<p, i>>
  BY <1>2 DEF ToCome, StreamInv, Counters, Comes, Carries
<1>4. \A q, r \in Payloads : \A x \in IdsOf(q)', y \in IdsOf(r)' : x = y <=> q = r
  BY <1>3, ReceivingAfter DEF Owned
<1>5. ASSUME NEW id \in DOMAIN buffers', NEW k \in DOMAIN buffers'[id].got
      PROVE  buffers'[id].total = Total(buffers'[id].got[k][1])
  <2>1. CASE id = f.id
    <3>1. buffers'[id] = WithPieceOf(f)
      BY <2>1, <1>5, BuffersAfter
    <3>2. WithPieceOf(f).total = Total(p)
      BY <1>2, <1>3, OwnBuffer
    <3>3. WithPieceOf(f).got[k][1] = p
      BY <3>1, <1>2, <1>3, OwnBuffer
    <3> QED BY <3>1, <3>2, <3>3
  <2>2. CASE id # f.id
    <3>1. id \in DOMAIN buffers /\ buffers'[id] = buffers[id]
      BY <2>2, BuffersAfter
    <3> QED BY <3>1, <1>3 DEF Owned
  <2> QED BY <2>1, <2>2
<1>6. ASSUME NEW q \in Payloads, NEW j \in Indices(q)
      PROVE  handed'[q] + (IF Kept(q, j)' THEN 1 ELSE 0) <= arrived'[q][j]
  <2>1. /\ arrived[q][j] \in Nat /\ arrived'[q][j] \in Nat /\ arrived[q][j] <= arrived'[q][j]
        /\ arrived'[p][i] = arrived[p][i] + 1
    BY <1>2, <1>3, ArrivedAfter
  <2>2. /\ handed[q] \in Nat
        /\ handed[q] + (IF Kept(q, j) THEN 1 ELSE 0) <= arrived[q][j]
    BY <1>3 DEF Owned, Counters
  <2>3. CASE handed'[q] = handed[q]
    <3>1. Kept(q, j)' => Kept(q, j) \/ (q = p /\ j = i)
      BY <1>2, <1>3, KeptAfter
    <3>2. CASE ~Kept(q, j)' \/ Kept(q, j)
      BY <3>2, <2>1, <2>2, <2>3
    <3>3. CASE q = p /\ j = i
      BY <3>3, <2>1, <2>2, <2>3
    <3> QED BY <3>1, <3>2, <3>3
  <2>4. CASE handed'[q] # handed[q]
    <3>1. Joins(f) /\ q = p /\ Whole(p, WithPieceOf(f).got) /\ handed'[q] = handed[q] + 1
      BY <2>4, <1>2, <1>3, HandedAfter
    <3>2. ~Kept(q, j)'
      <4>1. ~Waits(f)
        <5>1. Joins(f) => buffers' = Drop(buffers, f.id)
          BY DEF Joins, Finish
        <5>2. Joins(f) => f.id \notin DOMAIN buffers'
          BY <5>1 DEF Drop, Restrict
        <5> QED BY <3>1, <5>2, BuffersAfter
      <4> QED BY <4>1, <3>1, <1>2, <1>3, KeptAfter
    <3>3. WithPieceOf(f).got[j] = <<p, j>> /\ j \in DOMAIN WithPieceOf(f).got
      BY <3>1 DEF Whole
    <3>4. j = i \/ Kept(p, j)
      <4>1. CASE j = f.index
        BY <4>1, <3>3, <1>2, <1>3, TheBuffer
      <4>2. CASE j # f.index
        <5>1. f.id \in DOMAIN buffers /\ j \in DOMAIN buffers[f.id].got
              /\ WithPieceOf(f).got[j] = buffers[f.id].got[j]
          BY <4>2, <3>3, <1>2, <1>3, TheBuffer
        <5> QED BY <5>1, <3>3 DEF Kept
      <4> QED BY <4>1, <4>2
    <3>5. CASE j = i
      BY <3>5, <3>1, <3>2, <2>1, <2>2
    <3>6. CASE Kept(p, j)
      BY <3>6, <3>1, <3>2, <2>1, <2>2
    <3> QED BY <3>4, <3>5, <3>6
  <2> QED BY <2>3, <2>4
<1>7. \A q \in garbled' : ~Fitting(q)
  <2> TAKE q \in garbled'
  <2>1. q \in Payloads
    BY CountersAfter DEF Counters
  <2>2. CASE q \in garbled
    BY <2>2, <1>3 DEF Owned
  <2>3. CASE q \notin garbled
    <3>1. Joins(f) /\ q = p /\ ~Whole(p, WithPieceOf(f).got)
      BY <2>1, <2>3, <1>2, <1>3, HandedAfter
    <3>2. Complete(WithPieceOf(f))
      BY <3>1 DEF Joins
    <3> QED BY <3>1, <3>2, <1>2, <1>3, CompleteIsWhole
  <2> QED BY <2>2, <2>3
<1>8. \A id \in DOMAIN buffers' : \A k \in DOMAIN buffers'[id].got :
        (buffers[id].total = Total(buffers[id].got[k][1]))'
  BY <1>5, <1>3, SamePlaces
<1>9. \A q \in garbled' : ~Fitting(q)'
  BY <1>7, <1>3, SamePlaces
<1> QED BY <1>4, <1>6, <1>8, <1>9 DEF Owned

(* A piece comes under one id, in one frame.                                *)
LEMMA ComingAfter ==
  ASSUME StreamInv, ~astray, NEW f \in wire, Comes(f), faults' = 0, NEW p \in sent,
         NEW i \in Indices(p), Carries(f, p, i), NEW q \in Payloads, NEW j \in Indices(q)
  PROVE  Coming(q, j)' <=> Coming(q, j) /\ ~(q = p /\ j = i)
<1>1. f \in ToCome /\ Owned /\ p \in Payloads /\ ToCome' = ToCome \ {f}
  BY FramesAfter DEF ToCome, StreamInv, Counters
<1>2. f.piece = <<p, i>> /\ f.id \in IdsOf(p)
  BY <1>1, TheBuffer
<1>3. ASSUME NEW g \in ToCome, g.piece = <<p, i>> PROVE g = f
  <2>1. PICK r \in sent : \E l \in Indices(r) : Carries(g, r, l)
    BY DEF StreamInv, Receiving
  <2>2. Carries(g, p, i)
    BY <2>1, <1>3 DEF Carries
  <2>3. g.id \in IdsOf(p)
    BY <1>3 DEF IdsOf
  <2>4. g.id = f.id
    BY <1>1, <1>2, <2>3 DEF Owned
  <2> QED BY <2>2, <2>4 DEF Carries
<1> QED BY <1>1, <1>2, <1>3 DEF Coming

(* A payload is neither lost nor doubled by a frame that comes for the     *)
(* first time.                                                             *)
LEMMA SmoothAfter ==
  ASSUME StreamInv, ~astray, NEW f \in wire, Comes(f), faults' = 0
  PROVE  Smooth'
<1>1. PICK p \in sent : \E i \in Indices(p) : Carries(f, p, i)
  BY DEF StreamInv, Receiving, ToCome
<1>2. PICK i \in Indices(p) : Carries(f, p, i)
  BY <1>1
<1>3. faults = 0 /\ ToCome' = ToCome \ {f}
  BY FramesAfter
<1>4. f \in ToCome /\ Smooth /\ Counters /\ p \in Payloads /\ path' = path /\ sent' = sent
      /\ f.piece = <<p, i>> /\ sent \subseteq Payloads
  BY <1>2, <1>3 DEF ToCome, StreamInv, Counters, Comes, Carries
<1> DEFINE b == WithPieceOf(f)
<1>5. ~GivenUp(f) /\ ~b.old
  <2>1. \A id \in DOMAIN buffers : ~buffers[id].old
    BY <1>4 DEF Smooth
  <2>2. b.old = BufferOf(f).old
    BY <1>2, <1>4, TheBuffer
  <2> HIDE DEF b
  <2> QED BY <2>1, <2>2 DEF GivenUp, BufferOf, NewBuffer
<1>6. \A id \in DOMAIN buffers' : ~buffers'[id].old
  BY <1>4, <1>5, BuffersAfter DEF Smooth
<1>7. \A q \in Payloads \ sent' : handed'[q] = 0
  BY <1>2, <1>4, HandedAfter DEF Smooth
<1>8. ASSUME NEW q \in sent', Pieces[q] > 0, Fitting(q)
      PROVE  \/ /\ handed'[q] = 0
                /\ \A j \in Indices(q) : Coming(q, j)' <=> ~Kept(q, j)'
                /\ \E j \in Indices(q) : Coming(q, j)'
             \/ handed'[q] = 1 /\ \A j \in Indices(q) : ~Coming(q, j)' /\ ~Kept(q, j)'
  <2>1. q \in Payloads
    BY <1>4
  <2>2. \/ /\ handed[q] = 0
           /\ \A j \in Indices(q) : Coming(q, j) <=> ~Kept(q, j)
           /\ \E j \in Indices(q) : Coming(q, j)
        \/ handed[q] = 1 /\ \A j \in Indices(q) : ~Coming(q, j) /\ ~Kept(q, j)
    BY <1>4, <1>8 DEF Smooth
  <2>3. \A j \in Indices(q) : Coming(q, j)' <=> Coming(q, j) /\ ~(q = p /\ j = i)
    BY <1>2, <2>1, ComingAfter
  <2>4. CASE q # p
    <3>1. handed'[q] = handed[q]
      BY <2>1, <2>4, <1>2, HandedAfter
    <3>2. \A j \in Indices(q) : Kept(q, j)' <=> Kept(q, j)
      BY <2>1, <2>4, <1>2, KeptAfter
    <3> QED BY <3>1, <3>2, <2>2, <2>3, <2>4
  <2>5. CASE q = p
    <3>1. Coming(p, i)
      BY <1>4 DEF Coming
    <3>2. /\ handed[p] = 0
          /\ \A j \in Indices(p) : Coming(p, j) <=> ~Kept(p, j)
      BY <2>2, <2>5, <3>1
    <3>3. \A j \in Indices(p) : j \in DOMAIN b.got <=> Kept(p, j) \/ j = i
      BY <1>2, <1>4, <1>8, <2>5, InHandAre
    <3>4. \A j \in Indices(p) : Coming(p, j)' <=> j \notin DOMAIN b.got
      BY <3>2, <3>3, <2>3, <2>5
    <3>5. /\ DOMAIN b.got \subseteq Indices(p)
          /\ Complete(b) <=> DOMAIN b.got = Indices(p)
          /\ Complete(b) => Joinable(b) /\ Whole(p, b.got)
      BY <1>2, <1>4, <1>8, <2>5, CompleteIsWhole
    <3> HIDE DEF b
    <3>6. CASE Waits(f)
      <4>1. ~Complete(b)
        BY <3>5, <3>6 DEF Waits, b
      <4>2. \E j \in Indices(p) : Coming(p, j)'
        BY <4>1, <3>4, <3>5
      <4>3. \A j \in Indices(p) : Kept(p, j)' <=> j \in DOMAIN b.got
        BY <3>6, <1>2, <1>4, <1>8, <2>5, KeptAfter, InHandAre DEF b
      <4>4. handed'[p] = 0
        BY <3>6, <3>2 DEF Waits, Keep
      <4> QED BY <4>2, <4>3, <4>4, <3>4, <2>5
    <3>7. CASE Joins(f) /\ ~Waits(f)
      <4>1. Complete(b) /\ Whole(p, b.got)
        BY <3>7, <3>5 DEF Joins, b
      <4>2. \A j \in Indices(p) : ~Coming(p, j)'
        BY <4>1, <3>4, <3>5
      <4>3. \A j \in Indices(p) : ~Kept(p, j)'
        BY <3>7, <1>2, <1>4, KeptAfter
      <4>4. handed'[p] = 1
        BY <3>7, <4>1, <3>2, <1>2, <1>4, <1>8, <2>5, HandedAfter DEF b
      <4> QED BY <4>2, <4>3, <4>4, <2>5
    <3> QED BY <3>6, <3>7, <1>5 DEF Comes
  <2> QED BY <2>4, <2>5
<1>9. \A q : Fitting(q)' <=> Fitting(q)
  BY <1>4, SamePlaces
<1> QED BY <1>6, <1>7, <1>8, <1>9 DEF Smooth

(* A frame comes.                                                           *)
LEMMA FrameComes ==
  ASSUME StreamInv, NEW f \in wire, Comes(f)
  PROVE  StreamInv' /\ \A q : IdsOf(q)' \subseteq IdsOf(q)
<1>1. Writing' /\ (faults' = 0 => faults = 0)
  BY FramesAfter
<1>2. path' = path /\ astray' = astray
  BY DEF Comes
<1>3. path' \in Paths
  BY <1>2 DEF StreamInv
<1> QED BY <1>1, <1>2, <1>3, CountersAfter, ReceivingAfter, OwnedAfter, SmoothAfter DEF StreamInv

-----------------------------------------------------------------------------
(* The sender.  A payload is sent in writes of frames with a new id.        *)
LEMMA PayloadIsSent ==
  ASSUME StreamInv, NEW p \in Payloads, p \notin sent,
         NEW id \in Payloads \cup Nat, NEW writes \in Seq(SUBSET AllFrames),
         sent' = sent \cup {p}, todo' = [todo EXCEPT ![p] = writes],
         UNCHANGED <<path, wire, buffers, arrived, handed, garbled, faults>>,
         astray' \in BOOLEAN, ~astray' => ~astray /\ ~InUse(id),
         \A k \in 1..Len(writes) : \A f \in writes[k] :
           /\ f.id = id /\ \E i \in Indices(p) : Carries(f, p, i)
           /\ \A l \in 1..Len(writes) : f \in writes[l] => k = l,
         \A i \in Indices(p) : \E k \in 1..Len(writes) : \E f \in writes[k] : f.piece = <<p, i>>
  PROVE  /\ StreamInv'
         /\ \A q : IdsOf(q)' \subseteq IF q = p THEN {id} ELSE IdsOf(q)
<1> DEFINE Frames1 == {f \in AllFrames : \E k \in 1..Len(writes) : f \in writes[k]}
<1>1. Writing /\ Counters /\ Receiving
  BY DEF StreamInv
<1>2. /\ todo \in [Payloads -> Seq(SUBSET AllFrames)] /\ wire \subseteq AllFrames
      /\ todo' \in [Payloads -> Seq(SUBSET AllFrames)]
      /\ \A q \in Payloads : q # p => todo'[q] = todo[q]
      /\ todo'[p] = writes /\ todo[p] = << >> /\ Len(<< >>) = 0
  BY <1>1 DEF Writing
<1>3. \A f \in ToCome : f.piece[1] # p
  BY <1>1 DEF Receiving, Carries
<1>4. \A k \in 1..Len(writes) : writes[k] \subseteq AllFrames
  BY ElementOfSeq
<1>5. ASSUME NEW f PROVE f \in ToCome' <=> f \in ToCome \/ f \in Frames1
  <2>1. f \in Unwritten <=> \E q \in Payloads : \E k \in 1..Len(todo[q]) : f \in todo[q][k]
    BY <1>2, UnwrittenFrames DEF Unwritten
  <2>2. f \in Unwritten' <=> \E q \in Payloads : \E k \in 1..Len(todo'[q]) : f \in todo'[q][k]
    BY <1>2, UnwrittenFrames DEF Unwritten
  <2>3. f \in Frames1 <=> \E k \in 1..Len(writes) : f \in writes[k]
    BY <1>4
  <2>4. f \in Unwritten => f \in Unwritten'
    <3> SUFFICES ASSUME f \in Unwritten PROVE f \in Unwritten'
      OBVIOUS
    <3>1. PICK q \in Payloads : \E k \in 1..Len(todo[q]) : f \in todo[q][k]
      BY <2>1
    <3>2. q # p
      BY <3>1, <1>2
    <3> QED BY <3>1, <3>2, <1>2, <2>2
  <2>5. f \in Unwritten' <=> f \in Unwritten \/ f \in Frames1
    <3>1. f \in Frames1 => f \in Unwritten'
      BY <2>2, <2>3, <1>2
    <3>2. f \in Unwritten' => f \in Unwritten \/ f \in Frames1
      BY <2>1, <2>2, <2>3, <1>2
    <3> QED BY <3>1, <3>2, <2>4
  <2> QED BY <2>5 DEF ToCome
<1>6. \A f \in Frames1 : f.id = id /\ f.piece[1] = p /\ \E i \in Indices(p) : Carries(f, p, i)
  BY DEF Carries
<1>7. \A i \in Indices(p) : \E f \in Frames1 : f.piece = <<p, i>>
  BY <1>4
<1>8. Writing'
  <2>1. ASSUME NEW q \in Payloads, NEW k \in 1..Len(todo'[q]), NEW f \in todo'[q][k]
        PROVE  /\ f.piece[1] = q /\ f \notin wire'
               /\ \A l \in 1..Len(todo'[q]) : f \in todo'[q][l] => k = l
    <3>1. CASE q = p
      <4>1. k \in 1..Len(writes) /\ f \in writes[k]
        BY <3>1, <2>1, <1>2
      <4>2. f \in Frames1
        BY <4>1, <1>4
      <4>3. f \notin wire
        BY <4>2, <1>3, <1>6 DEF ToCome
      <4> QED BY <4>1, <4>2, <4>3, <3>1, <1>2, <1>6
    <3>2. CASE q # p
      BY <3>2, <2>1, <1>1, <1>2 DEF Writing
    <3> QED BY <3>1, <3>2
  <2>2. \A q \in Payloads \ sent' : todo'[q] = << >>
    BY <1>1, <1>2 DEF Writing
  <2> QED BY <2>1, <2>2, <1>2 DEF Writing
<1> HIDE DEF Frames1
<1>9. Counters'
  <2>1. sent' \subseteq Payloads /\ garbled' \subseteq sent'
    BY <1>1 DEF Counters
  <2>2. /\ arrived' = [q \in Payloads |-> arrived'[q]]
        /\ \A q \in Payloads : arrived'[q] \in [Indices(q) -> Nat]
        /\ handed' \in [Payloads -> Nat]
        /\ faults' \in 0..MaxFaults
        /\ \A q \in Payloads : Pieces[q] = 0 => handed'[q] = 0
    BY <1>1 DEF Counters
  <2> QED BY <2>1, <2>2 DEF Counters
<1>10. path' = path /\ buffers' = buffers /\ sent' = sent \cup {p}
  OBVIOUS
<1>11. Receiving'
  <2>1. \A b : Filled(b) => Filled(b)'
    BY <1>10, SamePlaces DEF Filled
  <2>2. \A g \in ToCome' : \E q \in sent' : \E i \in Indices(q) : Carries(g, q, i)
    BY <1>5, <1>6, <1>10, <1>1 DEF Receiving
  <2>3. \A g \in ToCome' : \E q \in sent' : \E i \in Indices(q) : Carries(g, q, i)'
    BY <2>2, <1>10, SamePlaces
  <2>4. \A i \in DOMAIN buffers' : (Filled(buffers[i]) /\ DOMAIN buffers[i].got # {})'
    BY <2>1, <1>1, <1>10 DEF Receiving
  <2>5. buffers' = [i \in DOMAIN buffers' |-> buffers'[i]]
    BY <1>1, <1>10 DEF Receiving
  <2> QED BY <2>3, <2>4, <2>5 DEF Receiving
<1>12. \A b \in DOMAIN buffers : \A k \in DOMAIN buffers[b].got : buffers[b].got[k][1] \in sent
  <2> TAKE b \in DOMAIN buffers
  <2> TAKE k \in DOMAIN buffers[b].got
  <2>1. Filled(buffers[b])
    BY <1>1 DEF Receiving
  <2>2. \E q \in sent : \E i \in Indices(q) : buffers[b].got[k] = <<q, i>> /\ k = Place(i)
    BY <2>1 DEF Filled
  <2> QED BY <2>2
<1>13. \A q : IdsOf(q)' \subseteq IF q = p THEN {id} ELSE IdsOf(q)
  BY <1>5, <1>6, <1>10, <1>12, <1>3 DEF IdsOf
<1>14. \A q, i : (Kept(q, i)' <=> Kept(q, i)) /\ (Kept(q, i) => q # p)
  BY <1>10, <1>12 DEF Kept
<1>15. \A q, i : q # p => (Coming(q, i)' <=> Coming(q, i))
  BY <1>5, <1>6 DEF Coming
<1>16. \A i \in Indices(p) : Coming(p, i)'
  BY <1>5, <1>7 DEF Coming
<1>17. ASSUME ~astray' PROVE Owned'
  <2>1. Owned /\ ~InUse(id)
    BY <1>17 DEF StreamInv
  <2>2. ASSUME NEW q \in Payloads, id \in IdsOf(q) PROVE FALSE
    BY <2>1, <2>2 DEF IdsOf, InUse
  <2>3. ASSUME NEW q \in Payloads, NEW r \in Payloads, NEW x \in IdsOf(q)', NEW y \in IdsOf(r)'
        PROVE  x = y <=> q = r
    <3>1. x \in (IF q = p THEN {id} ELSE IdsOf(q)) /\ y \in (IF r = p THEN {id} ELSE IdsOf(r))
      BY <2>3, <1>13
    <3>2. CASE q = p /\ r = p
      BY <3>1, <3>2
    <3>3. CASE q = p /\ r # p
      BY <3>1, <3>3, <2>2
    <3>4. CASE q # p /\ r = p
      BY <3>1, <3>4, <2>2
    <3>5. CASE q # p /\ r # p
      BY <3>1, <3>5, <2>1 DEF Owned
    <3> QED BY <3>2, <3>3, <3>4, <3>5
  <2>4. \A i \in DOMAIN buffers' : \A k \in DOMAIN buffers'[i].got :
          (buffers[i].total = Total(buffers[i].got[k][1]))'
    BY <2>1, <1>10, SamePlaces DEF Owned
  <2>5. \A q \in Payloads : \A i \in Indices(q) :
          handed'[q] + (IF Kept(q, i)' THEN 1 ELSE 0) <= arrived'[q][i]
    BY <2>1, <1>14 DEF Owned
  <2>6. \A q \in garbled' : ~Fitting(q)'
    BY <2>1, <1>10, SamePlaces DEF Owned
  <2> QED BY <2>3, <2>4, <2>5, <2>6 DEF Owned
<1>18. ASSUME ~astray', faults' = 0 PROVE Smooth'
  <2>1. Smooth
    BY <1>18 DEF StreamInv
  <2>2. (\A i \in DOMAIN buffers' : ~buffers'[i].old) /\ \A q \in Payloads \ sent' : handed'[q] = 0
    BY <2>1 DEF Smooth
  <2>3. ASSUME NEW q \in sent', Pieces[q] > 0, Fitting(q)
        PROVE  \/ /\ handed'[q] = 0
                  /\ \A j \in Indices(q) : Coming(q, j)' <=> ~Kept(q, j)'
                  /\ \E j \in Indices(q) : Coming(q, j)'
               \/ handed'[q] = 1 /\ \A j \in Indices(q) : ~Coming(q, j)' /\ ~Kept(q, j)'
    <3>1. CASE q = p
      <4>1. handed'[p] = 0
        BY <2>1 DEF Smooth
      <4>2. 0 \in Indices(p)
        <5>1. Indices(p) = 0..(Pieces[p] - 1) /\ Pieces[p] \in Nat
          BY Natural
        <5> QED BY <5>1, <2>3, <3>1
      <4> QED BY <4>1, <4>2, <3>1, <1>14, <1>16
    <3>2. CASE q # p
      BY <3>2, <2>1, <2>3, <1>14, <1>15 DEF Smooth
    <3> QED BY <3>1, <3>2
  <2>4. \A q : Fitting(q)' <=> Fitting(q)
    BY <1>10, SamePlaces
  <2> QED BY <2>2, <2>3, <2>4 DEF Smooth
<1>19. path' \in Paths
  BY <1>10 DEF StreamInv
<1> QED BY <1>8, <1>9, <1>11, <1>13, <1>17, <1>18, <1>19 DEF StreamInv

-----------------------------------------------------------------------------
(* The steps of the two ways are steps of these kinds.                      *)
LEMMA SameReception ==
  /\ \A f : /\ Parallel!BufferOf(f) = BufferOf(f) /\ Chunks!BufferOf(f) = BufferOf(f)
            /\ Parallel!WithPieceOf(f) = WithPieceOf(f) /\ Chunks!WithPieceOf(f) = WithPieceOf(f)
            /\ (Parallel!Take(f) <=> Take(f)) /\ (Chunks!Take(f) <=> Take(f))
  /\ \A b : /\ (Parallel!Complete(b) <=> Complete(b)) /\ (Chunks!Complete(b) <=> Complete(b))
            /\ (Parallel!Joinable(b) <=> Joinable(b))
  /\ \A id, b : /\ (Parallel!Keep(id, b) <=> Keep(id, b)) /\ (Chunks!Keep(id, b) <=> Keep(id, b))
  /\ \A id : Parallel!Drop(buffers, id) = Drop(buffers, id)
  /\ (Parallel!Fault <=> Fault) /\ (Chunks!Fault <=> Fault)
<1>1. \A f : /\ Parallel!BufferOf(f) = BufferOf(f) /\ Chunks!BufferOf(f) = BufferOf(f)
  BY Zenon DEF Parallel!BufferOf, Parallel!NewBuffer, Chunks!BufferOf, Chunks!NewBuffer,
     BufferOf, NewBuffer
<1>2. \A f : /\ Parallel!WithPieceOf(f) = WithPieceOf(f) /\ Chunks!WithPieceOf(f) = WithPieceOf(f)
  BY Zenon DEF Parallel!WithPieceOf, Parallel!BufferOf, Parallel!NewBuffer, Parallel!Put,
     Chunks!WithPieceOf, Chunks!BufferOf, Chunks!NewBuffer, Chunks!Put,
     WithPieceOf, BufferOf, NewBuffer, Put
<1>3. \A f : (Parallel!Take(f) <=> Take(f)) /\ (Chunks!Take(f) <=> Take(f))
  BY Zenon DEF Parallel!Take, Chunks!Take, Take
<1>4. \A b : /\ (Parallel!Complete(b) <=> Complete(b)) /\ (Chunks!Complete(b) <=> Complete(b))
             /\ (Parallel!Joinable(b) <=> Joinable(b))
  BY Zenon DEF Parallel!Complete, Parallel!Cardinality, Chunks!Complete, Chunks!Cardinality,
     Parallel!Joinable, Complete, Cardinality, Joinable
<1>5. \A id, b : /\ (Parallel!Keep(id, b) <=> Keep(id, b)) /\ (Chunks!Keep(id, b) <=> Keep(id, b))
  BY Zenon DEF Parallel!Keep, Parallel!Put, Chunks!Keep, Chunks!Put, Keep, Put
<1>6. \A id : Parallel!Drop(buffers, id) = Drop(buffers, id)
  BY Zenon DEF Parallel!Drop, Parallel!Restrict, Drop, Restrict
<1>7. (Parallel!Fault <=> Fault) /\ (Chunks!Fault <=> Fault)
  BY Zenon DEF Parallel!Fault, Chunks!Fault, Fault
<1> QED BY <1>1, <1>2, <1>3, <1>4, <1>5, <1>6, <1>7

(* A stream ends in both the same way.                                     *)
LEMMA SameFinish ==
  \A id, b : (Parallel!Finish(id, b) <=> Finish(id, b)) /\ (Chunks!Finish(id, b) <=> Finish(id, b))
BY Zenon DEF Parallel!Finish, Parallel!Drop, Parallel!Restrict, Parallel!HandOver,
   Parallel!Whole, Parallel!Indices, Parallel!Range,
   Chunks!Finish, Chunks!Drop, Chunks!Restrict, Chunks!HandOver,
   Chunks!Whole, Chunks!Indices, Chunks!Range,
   Finish, Drop, Restrict, HandOver, Whole, Indices, Range

(* ParallelReceiver.on_chunk receives a frame as described.                *)
LEMMA OnChunkComes ==
  ASSUME StreamInv, path = "parallel", path' = path, NEW f,
         Parallel!Arrive(f) \/ Parallel!ArriveTwice(f)
  PROVE  Comes(f)
<1>1. Parallel!OnChunk(f) /\ Take(f)
  BY SameReception DEF Parallel!Arrive, Parallel!ArriveTwice
<1>2. UNCHANGED <<path, sent, todo, astray>>
  BY DEF Parallel!Arrive, Parallel!ArriveTwice
<1>3. (wire' = wire \ {f} /\ faults' = faults) \/ (wire' = wire /\ Fault)
  <2>1. CASE Parallel!Arrive(f)
    BY <2>1 DEF Parallel!Arrive
  <2>2. CASE Parallel!ArriveTwice(f)
    <3>1. Parallel!Fault /\ wire' = wire
      BY <2>2 DEF Parallel!ArriveTwice
    <3> QED BY <3>1, SameReception
  <2> QED BY <2>1, <2>2
<1>4. GivenUp(f) \/ Waits(f) \/ Joins(f)
  <2>1. CASE Parallel!Forget(f)
    <3>1. BufferOf(f).old /\ buffers' = Drop(buffers, f.id) /\ UNCHANGED <<handed, garbled>>
      BY <2>1, SameReception DEF Parallel!Forget
    <3>2. f.id \in DOMAIN buffers /\ buffers[f.id].old
      BY <3>1 DEF BufferOf, NewBuffer
    <3> QED BY <3>1, <3>2 DEF GivenUp
  <2>2. CASE ~Parallel!Forget(f)
    <3> DEFINE b == WithPieceOf(f)
    <3>1. \/ ~(Parallel!Complete(b) /\ Parallel!Joinable(b)) /\ Parallel!Keep(f.id, b)
          \/ Parallel!Complete(b) /\ Parallel!Joinable(b) /\ Parallel!Finish(f.id, b)
      BY <1>1, <2>2, SameReception DEF Parallel!OnChunk
    <3> HIDE DEF b
    <3>2. \/ ~(Complete(b) /\ Joinable(b)) /\ Keep(f.id, b)
          \/ Complete(b) /\ Joinable(b) /\ Finish(f.id, b)
      BY <3>1, SameReception, SameFinish
    <3> QED BY <3>2 DEF b, Waits, Joins
  <2> QED BY <2>1, <2>2
<1> QED BY <1>1, <1>2, <1>3, <1>4 DEF Comes

(* A stream grows old, or all the old ones are given up.                    *)
LEMMA StreamsAge ==
  ASSUME StreamInv, UNCHANGED <<path, sent, todo, wire, arrived, handed, garbled, astray>>,
         \/ faults' = faults + 1 /\ faults < MaxFaults
            /\ \E id \in DOMAIN buffers : buffers' = [buffers EXCEPT ![id].old = TRUE]
         \/ faults' = faults /\ (\E id \in DOMAIN buffers : buffers[id].old)
            /\ buffers' = RestrictValues(buffers, LAMBDA b : ~b.old)
  PROVE  StreamInv' /\ \A q : IdsOf(q)' \subseteq IdsOf(q)
<1>1. Writing /\ Counters /\ Receiving
  BY DEF StreamInv
<1>2. ToCome' = ToCome
  BY DEF ToCome, Unwritten
<1>3. Writing'
  BY <1>1 DEF Writing
<1>4. faults' \in 0..MaxFaults /\ faults \in 0..MaxFaults
  BY <1>1, StreamsAssumption DEF Counters
<1>5. Counters'
  BY <1>1, <1>4 DEF Counters
<1>6. /\ DOMAIN buffers' \subseteq DOMAIN buffers
      /\ buffers' = [id \in DOMAIN buffers' |-> buffers'[id]]
      /\ \A id \in DOMAIN buffers' :
           \E o \in BOOLEAN : buffers'[id] = [buffers[id] EXCEPT !.old = o]
  <2>1. \A id \in DOMAIN buffers : buffers[id] = [buffers[id] EXCEPT !.old = buffers[id].old]
                                   /\ buffers[id].old \in BOOLEAN
    <3> TAKE id \in DOMAIN buffers
    <3>1. Filled(buffers[id])
      BY <1>1 DEF Receiving
    <3> QED BY <3>1 DEF Filled
  <2>2. CASE \E id \in DOMAIN buffers : buffers' = [buffers EXCEPT ![id].old = TRUE]
    <3>1. PICK a \in DOMAIN buffers : buffers' = [buffers EXCEPT ![a].old = TRUE]
      BY <2>2
    <3>2. DOMAIN buffers' = DOMAIN buffers /\ buffers' = [id \in DOMAIN buffers' |-> buffers'[id]]
      BY <3>1, <1>1 DEF Receiving
    <3>3. \A id \in DOMAIN buffers' :
            buffers'[id] = IF id = a THEN [buffers[a] EXCEPT !.old = TRUE] ELSE buffers[id]
      BY <3>1, <3>2
    <3> QED BY <3>2, <3>3, <2>1
  <2>3. CASE buffers' = RestrictValues(buffers, LAMBDA b : ~b.old)
    <3>1. buffers' = [id \in {x \in DOMAIN buffers : ~buffers[x].old} |-> buffers[id]]
      BY <2>3 DEF RestrictValues, Restrict
    <3> QED BY <3>1, <2>1
  <2> QED BY <2>2, <2>3
<1>7. /\ Receiving' /\ (~astray' => Owned')
      /\ \A p : IdsOf(p)' \subseteq IdsOf(p)
  BY <1>2, <1>6, LessIsLeft
<1>8. ASSUME ~astray', faults' = 0 PROVE FALSE
  <2>1. faults = 0 /\ \E id \in DOMAIN buffers : buffers[id].old
    BY <1>4, <1>8
  <2> QED BY <2>1, <1>8 DEF StreamInv, Smooth
<1>9. path' \in Paths
  BY DEF StreamInv
<1> QED BY <1>3, <1>5, <1>7, <1>8, <1>9 DEF StreamInv

(* Frames are written, or lost: nothing else changes.                       *)
LEMMA FramesMove ==
  ASSUME StreamInv, UNCHANGED <<path, sent, buffers, arrived, handed, garbled, astray>>,
         Writing', ToCome' \subseteq ToCome,
         \/ ToCome' = ToCome /\ faults' = faults
         \/ faults' = faults + 1 /\ faults < MaxFaults
  PROVE  StreamInv' /\ \A q : IdsOf(q)' \subseteq IdsOf(q)
<1>1. Counters /\ Receiving /\ faults \in 0..MaxFaults /\ MaxFaults \in Nat
  BY StreamsAssumption DEF StreamInv, Counters
<1>2. Counters'
  <2>1. faults' \in 0..MaxFaults
    BY <1>1
  <2> QED BY <2>1, <1>1 DEF Counters
<1>3. \A id \in DOMAIN buffers' :
        \E o \in BOOLEAN : buffers'[id] = [buffers[id] EXCEPT !.old = o]
  <2> TAKE id \in DOMAIN buffers'
  <2>1. Filled(buffers[id])
    BY <1>1 DEF Receiving
  <2>2. buffers[id] = [buffers[id] EXCEPT !.old = buffers[id].old] /\ buffers[id].old \in BOOLEAN
    BY <2>1 DEF Filled
  <2> QED BY <2>2
<1>4. buffers' = [id \in DOMAIN buffers' |-> buffers'[id]] /\ DOMAIN buffers' \subseteq DOMAIN buffers
  BY <1>1 DEF Receiving
<1>5. /\ Receiving' /\ (~astray' => Owned')
      /\ \A p : IdsOf(p)' \subseteq IdsOf(p)
  BY <1>3, <1>4, LessIsLeft
<1>6. ASSUME ~astray', faults' = 0 PROVE Smooth'
  <2>1. faults = 0 /\ ToCome' = ToCome
    BY <1>1, <1>6
  <2>2. \A p, i : (Kept(p, i)' <=> Kept(p, i)) /\ (Coming(p, i)' <=> Coming(p, i))
    BY <2>1 DEF Kept, Coming
  <2>3. \A q : Fitting(q)' <=> Fitting(q)
    BY SamePlaces
  <2> QED BY <2>1, <2>2, <2>3, <1>6 DEF StreamInv, Smooth
<1>7. path' \in Paths
  BY DEF StreamInv
<1> QED BY <1>2, <1>5, <1>6, <1>7 DEF StreamInv

(* The pieces that the tasks of a payload write.                            *)
LEMMA TasksWriteAll ==
  ASSUME path = "parallel", NEW p \in Payloads, NEW id \in Nat
  PROVE  /\ Parallel!Tasks(id, p) \in Seq(SUBSET AllFrames)
         /\ \A k \in 1..Len(Parallel!Tasks(id, p)) : \A f \in Parallel!Tasks(id, p)[k] :
              /\ f.id = id /\ \E i \in Indices(p) : Carries(f, p, i)
              /\ \A l \in 1..Len(Parallel!Tasks(id, p)) :
                   f \in Parallel!Tasks(id, p)[l] => k = l
         /\ \A i \in Indices(p) : \E k \in 1..Len(Parallel!Tasks(id, p)) :
              \E f \in Parallel!Tasks(id, p)[k] : f.piece = <<p, i>>
<1> DEFINE t == Parallel!Tasks(id, p)
           m == IF NStreams <= Pieces[p] THEN NStreams ELSE Pieces[p]
           G(i) == [id |-> id, index |-> i % Width, total |-> Pieces[p] % Width, piece |-> <<p, i>>]
           R(k) == {G(i) : i \in {j \in Indices(p) : j % NStreams = k - 1}}
<1>1. /\ Pieces[p] \in Nat /\ Indices(p) = 0..(Pieces[p] - 1) /\ NStreams \in Nat \ {0}
      /\ Width \in Nat \ {0}
  BY Natural, WidthsAssumption
<1>2. m \in Nat /\ {n \in 1..NStreams : n <= Pieces[p]} = 1..m
  BY <1>1
<1>3. t = [k \in 1..m |-> R(k)]
  BY <1>2, SameFrames, Zenon DEF Parallel!Tasks, Parallel!RoundRobin, Parallel!Frame
<1>4. \A i \in Indices(p) : G(i) \in AllFrames /\ Carries(G(i), p, i)
  <2> TAKE i \in Indices(p)
  <2>1. i \in Nat /\ i % Width \in Nat /\ Pieces[p] % Width \in Nat
    BY <1>1
  <2> QED BY <2>1 DEF AllFrames, Carries, Place, Total
<1> HIDE DEF m
<1>5. t \in Seq(SUBSET AllFrames) /\ Len(t) = m
  <2>1. \A k \in 1..m : R(k) \in SUBSET AllFrames
    BY <1>4
  <2> HIDE DEF R, t
  <2>2. t \in [1..m -> SUBSET AllFrames]
    BY <2>1, <1>3
  <2> QED BY <2>2, <1>2, <1>3, SeqDef, LenProperties
<1>6. \A k \in 1..m : \A f \in R(k) :
        /\ f.id = id /\ \E i \in Indices(p) : Carries(f, p, i)
        /\ \A l \in 1..m : f \in R(l) => k = l
  <2> TAKE k \in 1..m
  <2> TAKE f \in R(k)
  <2>1. PICK i \in Indices(p) : i % NStreams = k - 1 /\ f = G(i)
    OBVIOUS
  <2>2. ASSUME NEW l \in 1..m, f \in R(l) PROVE k = l
    <3>1. PICK j \in Indices(p) : j % NStreams = l - 1 /\ f = G(j)
      BY <2>2
    <3>2. i = j
      BY <2>1, <3>1
    <3>3. k - 1 = l - 1 /\ k \in Int /\ l \in Int
      BY <2>1, <3>1, <3>2, <1>2
    <3> QED BY <3>3
  <2> QED BY <2>1, <2>2, <1>4
<1>7. \A i \in Indices(p) : \E k \in 1..m : \E f \in R(k) : f.piece = <<p, i>>
  <2> TAKE i \in Indices(p)
  <2>1. i \in Nat /\ i < Pieces[p]
    BY <1>1
  <2> DEFINE r == i % NStreams
  <2>2. r \in 0..(NStreams - 1) /\ r <= i
    <3>1. \A a \in Nat, b \in Nat \ {0} : a % b \in 0..(b - 1) /\ a % b <= a
      <4> TAKE a \in Nat, b \in Nat \ {0}
      <4>1. a % b \in 0..(b - 1)
        OBVIOUS
      <4>2. a < b => a % b = a
        OBVIOUS
      <4> QED BY <4>1, <4>2
    <3> QED BY <3>1, <2>1, <1>1
  <2>3. r + 1 \in 1..m
    BY <2>1, <2>2, <1>1 DEF m
  <2>4. G(i) \in R(r + 1)
    BY <2>2
  <2> HIDE DEF R, r
  <2> QED BY <2>3, <2>4
<1>8. \A k \in 1..m : t[k] = R(k)
  BY <1>3
<1> HIDE DEF t, R, G
<1>9. \A k \in 1..Len(t) : \A f \in t[k] :
        /\ f.id = id /\ \E i \in Indices(p) : Carries(f, p, i)
        /\ \A l \in 1..Len(t) : f \in t[l] => k = l
  BY <1>5, <1>6, <1>8
<1>10. \A i \in Indices(p) : \E k \in 1..Len(t) : \E f \in t[k] : f.piece = <<p, i>>
  BY <1>5, <1>7, <1>8
<1> QED BY <1>5, <1>9, <1>10 DEF t

(* The payloads that were sent are finitely many.                          *)
LEMMA SentAreFinite ==
  ASSUME StreamInv
  PROVE  /\ IsFiniteSet(sent) /\ Cardinality(sent) \in Nat
         /\ Cardinality(sent) <= Cardinality(Payloads)
         /\ \A p : p \notin sent => Cardinality(sent \cup {p}) = Cardinality(sent) + 1
BY PayloadsAssumption, FS_Subset, FS_CardinalityType, FS_AddElement DEF StreamInv, Counters

(* Every step of the parallel streams keeps the invariant.                 *)
LEMMA ParallelKeepsIt ==
  ASSUME StreamInv, ParallelInv, ParallelStep
  PROVE  StreamInv' /\ ParallelInv'
<1>1. path = "parallel" /\ path' = path /\ Parallel!Next
  BY DEF ParallelStep, OnParallel
<1>2. counter = Cardinality(sent) /\ counter \in Nat
  BY <1>1, SentAreFinite DEF ParallelInv
<1>3. ASSUME NEW p \in Payloads, Parallel!Send(p) PROVE StreamInv' /\ ParallelInv'
  <2> DEFINE id == (counter + 1) % IdSpace
  <2>1. id \in Nat
    BY <1>2, WidthsAssumption
  <2>2. /\ p \notin sent /\ sent' = sent \cup {p} /\ counter' = counter + 1
        /\ todo' = [todo EXCEPT ![p] = Parallel!Tasks(id, p)]
        /\ astray' = (astray \/ InUse(id))
        /\ UNCHANGED <<wire, buffers, arrived, handed, garbled, faults>>
    BY <1>3, SameFrames DEF Parallel!Send
  <2>3. ParallelInv'
    BY <1>2, <2>2, SentAreFinite DEF ParallelInv
  <2> HIDE DEF id
  <2>4. astray' \in BOOLEAN /\ (~astray' => ~astray /\ ~InUse(id))
    <3>1. astray \in BOOLEAN
      BY DEF StreamInv, Counters
    <3>2. InUse(id) \in BOOLEAN
      BY DEF InUse
    <3> QED BY <2>2, <3>1, <3>2, Zenon
  <2> DEFINE writes == Parallel!Tasks(id, p)
  <2>5. /\ writes \in Seq(SUBSET AllFrames)
        /\ \A k \in 1..Len(writes) : \A f \in writes[k] :
             /\ f.id = id /\ \E i \in Indices(p) : Carries(f, p, i)
             /\ \A l \in 1..Len(writes) : f \in writes[l] => k = l
        /\ \A i \in Indices(p) : \E k \in 1..Len(writes) : \E f \in writes[k] : f.piece = <<p, i>>
    BY <1>1, <2>1, TasksWriteAll
  <2>6. /\ p \notin sent /\ sent' = sent \cup {p} /\ todo' = [todo EXCEPT ![p] = writes]
        /\ UNCHANGED <<path, wire, buffers, arrived, handed, garbled, faults>>
    BY <1>1, <2>2
  <2> HIDE DEF writes
  <2>7. StreamInv'
    BY <2>1, <2>4, <2>5, <2>6, PayloadIsSent
  <2> QED BY <2>3, <2>7
<1>4. ASSUME NEW p \in Payloads, Parallel!Write(p) PROVE StreamInv' /\ ParallelInv'
  <2>1. /\ todo[p] # << >> /\ wire' = wire \cup Head(todo[p])
        /\ todo' = [todo EXCEPT ![p] = Tail(@)]
        /\ UNCHANGED <<sent, counter, buffers, arrived, handed, garbled, faults, astray>>
    BY <1>4 DEF Parallel!Write
  <2>2. Writing' /\ ToCome' = ToCome
    BY <2>1, WritingGoesOn DEF StreamInv
  <2>3. StreamInv'
    BY <1>1, <2>1, <2>2, FramesMove
  <2> QED BY <1>1, <2>1, <2>3 DEF ParallelInv
<1>5. ASSUME NEW f \in wire, Parallel!Arrive(f) \/ Parallel!ArriveTwice(f)
      PROVE  StreamInv' /\ ParallelInv'
  <2>1. Comes(f)
    BY <1>1, <1>5, OnChunkComes
  <2>2. sent' = sent /\ counter' = counter
    BY <1>5 DEF Parallel!Arrive, Parallel!ArriveTwice
  <2> QED BY <1>1, <2>1, <2>2, FrameComes DEF ParallelInv
<1>6. ASSUME Parallel!Mishap, UNCHANGED counter PROVE StreamInv' /\ ParallelInv'
  <2>1. ASSUME NEW f \in wire, Parallel!Lose(f) PROVE StreamInv' /\ sent' = sent
    <3>1. /\ faults' = faults + 1 /\ faults < MaxFaults /\ wire' = wire \ {f}
          /\ UNCHANGED <<ends, arrived>>
      BY <2>1 DEF Parallel!Lose, Parallel!Fault, Parallel!ends, ends
    <3>2. Writing' /\ ToCome' = ToCome \ {f}
      BY <3>1, FrameLeaves DEF StreamInv, ends
    <3> QED BY <1>1, <3>1, <3>2, FramesMove DEF ends
  <2>2. ASSUME NEW id \in DOMAIN buffers, Parallel!GrowOld(id) PROVE StreamInv' /\ sent' = sent
    BY <1>1, <2>2, StreamsAge DEF Parallel!GrowOld, Parallel!Fault
  <2>3. StreamInv' /\ sent' = sent
    BY <1>6, <2>1, <2>2 DEF Parallel!Mishap
  <2> QED BY <1>1, <1>6, <2>3 DEF ParallelInv
<1> QED BY <1>1, <1>3, <1>4, <1>5, <1>6 DEF Parallel!Next, Parallel!Works

(* A stream id of the chunks is the payload: it is new when the payload is. *)
LEMMA FreshIds ==
  ASSUME StreamInv, ChunksInv, path = "chunks", NEW p \in Payloads, p \notin sent
  PROVE  ~InUse(p)
<1>1. \A q \in Payloads : \A x \in IdsOf(q) : x = q
  BY DEF ChunksInv
<1>2. ASSUME p \in DOMAIN buffers PROVE FALSE
  <2>1. Filled(buffers[p]) /\ DOMAIN buffers[p].got # {}
    BY <1>2 DEF StreamInv, Receiving
  <2>2. PICK k \in DOMAIN buffers[p].got : TRUE
    BY <2>1
  <2>3. PICK q \in sent : \E i \in Indices(q) : buffers[p].got[k] = <<q, i>>
    BY <2>1, <2>2 DEF Filled
  <2>4. p \in IdsOf(q) /\ q \in Payloads
    BY <2>2, <2>3, <1>2 DEF IdsOf, StreamInv, Counters
  <2> QED BY <2>3, <2>4, <1>1
<1>3. ASSUME NEW f \in ToCome, f.id = p PROVE FALSE
  <2>1. PICK q \in sent : \E i \in Indices(q) : Carries(f, q, i)
    BY DEF StreamInv, Receiving
  <2>2. f.piece[1] = q
    BY <2>1 DEF Carries
  <2>3. p \in IdsOf(q) /\ q \in Payloads
    BY <2>2, <1>3 DEF IdsOf, StreamInv, Counters
  <2> QED BY <2>1, <2>3, <1>1
<1> QED BY <1>2, <1>3 DEF InUse

(* The batches of a payload, one frame each.                                *)
Batches(p) == [k \in 1..Pieces[p] |-> {Chunks!Frame(p, k - 1)}]

(* The batches of a payload carry each of its pieces once, under its own   *)
(* id.                                                                     *)
LEMMA BatchesWriteAll ==
  ASSUME path = "chunks", NEW p \in Payloads
  PROVE  /\ Batches(p) \in Seq(SUBSET AllFrames)
         /\ \A k \in 1..Len(Batches(p)) : \A f \in Batches(p)[k] :
              /\ f.id = p /\ \E i \in Indices(p) : Carries(f, p, i)
              /\ \A l \in 1..Len(Batches(p)) : f \in Batches(p)[l] => k = l
         /\ \A i \in Indices(p) : \E k \in 1..Len(Batches(p)) :
               \E f \in Batches(p)[k] : f.piece = <<p, i>>
<1> DEFINE G(i) == [id |-> p, index |-> i, total |-> Pieces[p], piece |-> <<p, i>>]
<1>1. Pieces[p] \in Nat /\ Indices(p) = 0..(Pieces[p] - 1)
  BY Natural
<1>2. Batches(p) = [k \in 1..Pieces[p] |-> {G(k - 1)}]
  BY Zenon DEF Chunks!Frame, Batches
<1>3. \A k \in 1..Pieces[p] : k - 1 \in Indices(p) /\ k - 1 \in Nat /\ k \in Int
  BY <1>1
<1>4. \A i \in Indices(p) : i + 1 \in 1..Pieces[p] /\ (i + 1) - 1 = i
  BY <1>1
<1>5. \A i \in Indices(p) : Carries(G(i), p, i) /\ (i \in Nat => G(i) \in AllFrames)
  BY <1>1 DEF AllFrames, Carries, Place, Total
<1>6. \A i, j : G(i) = G(j) => i = j
  <2> TAKE i, j
  <2>1. G(i).index = i /\ G(j).index = j
    OBVIOUS
  <2> QED BY <2>1
<1>7. \A i : G(i).piece = <<p, i>> /\ G(i).id = p
  OBVIOUS
<1> HIDE DEF G
<1>8. Batches(p) \in Seq(SUBSET AllFrames) /\ Len(Batches(p)) = Pieces[p]
  <2>1. \A k \in 1..Pieces[p] : {G(k - 1)} \in SUBSET AllFrames
    BY <1>3, <1>5
  <2>2. PICK n \in Nat : n = Pieces[p]
    BY <1>1
  <2>3. Batches(p) \in [1..n -> SUBSET AllFrames] /\ DOMAIN Batches(p) = 1..n
    BY <2>1, <2>2, <1>2
  <2>4. Batches(p) \in Seq(SUBSET AllFrames)
    BY <2>3, SeqDef
  <2>5. Len(Batches(p)) = n
    BY <2>3, <2>4, LenProperties
  <2> QED BY <2>2, <2>4, <2>5
<1>9. \A k \in 1..Pieces[p] : \A f \in Batches(p)[k] : f = G(k - 1)
  BY <1>2
<1>10. \A k, l \in 1..Pieces[p] : k - 1 = l - 1 => k = l
  BY <1>1
<1>11. \A k \in 1..Len(Batches(p)) : \A f \in Batches(p)[k] :
        /\ f.id = p /\ \E i \in Indices(p) : Carries(f, p, i)
        /\ \A l \in 1..Len(Batches(p)) : f \in Batches(p)[l] => k = l
  <2> TAKE k \in 1..Len(Batches(p))
  <2> TAKE f \in Batches(p)[k]
  <2>1. k \in 1..Pieces[p] /\ f = G(k - 1)
    BY <1>8, <1>9
  <2>2. f.id = p /\ \E i \in Indices(p) : Carries(f, p, i)
    BY <2>1, <1>3, <1>5, <1>7
  <2>3. ASSUME NEW l \in 1..Len(Batches(p)), f \in Batches(p)[l] PROVE k = l
    <3>1. l \in 1..Pieces[p]
      BY <1>8
    <3>2. f = G(l - 1)
      BY <3>1, <2>3, <1>9
    <3>3. k - 1 = l - 1
      BY <2>1, <3>2, <1>6
    <3> QED BY <3>1, <3>3, <2>1, <1>10
  <2> QED BY <2>2, <2>3
<1>12. \A i \in Indices(p) : \E k \in 1..Len(Batches(p)) :
          \E f \in Batches(p)[k] : f.piece = <<p, i>>
  <2> TAKE i \in Indices(p)
  <2>1. i + 1 \in 1..Pieces[p] /\ Batches(p)[i + 1] = {G(i)}
    BY <1>2, <1>4
  <2> QED BY <2>1, <1>7, <1>8
<1> QED BY <1>8, <1>11, <1>12

(* ChunkReassembler.process_subframes receives a frame as described.       *)
LEMMA OnFrameComes ==
  ASSUME StreamInv, ChunksInv, path = "chunks", path' = path, NEW f \in wire,
         Chunks!Process(f) \/ Chunks!ProcessTwice(f)
  PROVE  Comes(f) /\ calling' \in Payloads \cup {NoStream}
<1>1. Chunks!OnFrame(f) /\ Take(f)
  BY SameReception DEF Chunks!Process, Chunks!ProcessTwice
<1>2. UNCHANGED <<path, sent, todo, astray>>
  BY DEF Chunks!Process, Chunks!ProcessTwice
<1>3. (wire' = wire \ {f} /\ faults' = faults) \/ (wire' = wire /\ Fault)
  <2>1. CASE Chunks!Process(f)
    BY <2>1 DEF Chunks!Process
  <2>2. CASE Chunks!ProcessTwice(f)
    <3>1. Chunks!Fault /\ wire' = wire
      BY <2>2 DEF Chunks!ProcessTwice
    <3> QED BY <3>1, SameReception
  <2> QED BY <2>1, <2>2
<1>4. /\ Waits(f) \/ Joins(f)
      /\ calling' \in {calling, NoStream, f.id}
  <2> DEFINE b == WithPieceOf(f)
  <2>1. /\ \/ ~Chunks!Complete(b) /\ Chunks!Keep(f.id, b)
           \/ Chunks!Complete(b) /\ Chunks!Finish(f.id, b)
        /\ calling' \in {calling, NoStream, f.id}
    BY <1>1, SameReception DEF Chunks!OnFrame
  <2> HIDE DEF b
  <2>2. (~Complete(b) /\ Keep(f.id, b)) \/ (Complete(b) /\ Finish(f.id, b))
    BY <2>1, SameReception, SameFinish
  <2> QED BY <2>1, <2>2 DEF b, Waits, Joins
<1>5. f.id \in Payloads
  <2>1. PICK p \in sent : \E i \in Indices(p) : Carries(f, p, i)
    BY DEF StreamInv, Receiving, ToCome
  <2>2. f.id \in IdsOf(p) /\ p \in Payloads
    BY <2>1 DEF IdsOf, Carries, ToCome, StreamInv, Counters
  <2> QED BY <2>2 DEF ChunksInv
<1>6. calling \in Payloads \cup {NoStream}
  BY DEF ChunksInv
<1> QED BY <1>1, <1>2, <1>3, <1>4, <1>5, <1>6 DEF Comes

(* Every step of the chunks keeps the invariant.                           *)
LEMMA ChunksKeepIt ==
  ASSUME StreamInv, ChunksInv, ChunksStep
  PROVE  StreamInv' /\ ChunksInv'
<1>1. path = "chunks" /\ path' = path /\ Chunks!Next
  BY DEF ChunksStep, OnChunks
<1>2. ~astray /\ calling \in Payloads \cup {NoStream} /\ \A p \in Payloads : \A x \in IdsOf(p) : x = p
  BY <1>1 DEF ChunksInv
<1>3. ASSUME StreamInv', ~astray', calling' \in Payloads \cup {NoStream},
             \A q : IdsOf(q)' \subseteq IdsOf(q)
      PROVE  StreamInv' /\ ChunksInv'
  BY <1>2, <1>3 DEF ChunksInv
<1>4. ASSUME NEW p \in Payloads, Chunks!Send(p) PROVE StreamInv' /\ ChunksInv'
  <2>1. /\ p \notin sent /\ sent' = sent \cup {p} /\ todo' = [todo EXCEPT ![p] = Batches(p)]
        /\ UNCHANGED <<path, wire, buffers, arrived, handed, garbled, faults>>
        /\ astray' = astray /\ calling' = calling
    BY <1>1, <1>4 DEF Chunks!Send, Batches
  <2>2. /\ Batches(p) \in Seq(SUBSET AllFrames)
        /\ \A k \in 1..Len(Batches(p)) : \A f \in Batches(p)[k] :
             /\ f.id = p /\ \E i \in Indices(p) : Carries(f, p, i)
             /\ \A l \in 1..Len(Batches(p)) : f \in Batches(p)[l] => k = l
        /\ \A i \in Indices(p) : \E k \in 1..Len(Batches(p)) :
              \E f \in Batches(p)[k] : f.piece = <<p, i>>
    BY <1>1, BatchesWriteAll
  <2>3. p \in Payloads \cup Nat
    OBVIOUS
  <2>4. astray' \in BOOLEAN /\ (~astray' => ~astray /\ ~InUse(p)) /\ ~astray'
    BY <1>1, <1>2, <2>1, FreshIds DEF StreamInv, Counters
  <2>5. /\ StreamInv'
        /\ \A q : IdsOf(q)' \subseteq IF q = p THEN {p} ELSE IdsOf(q)
    BY <2>1, <2>2, <2>4, <2>3, PayloadIsSent
  <2>6. \A q \in Payloads : \A x \in IdsOf(q)' : x = q
    BY <2>5, <1>2
  <2> QED BY <2>1, <2>4, <2>5, <2>6, <1>2 DEF ChunksInv
<1>5. ASSUME NEW p \in Payloads, Chunks!Write(p) PROVE StreamInv' /\ ChunksInv'
  <2>1. /\ todo[p] # << >> /\ wire' = wire \cup Head(todo[p])
        /\ todo' = [todo EXCEPT ![p] = Tail(@)]
        /\ UNCHANGED <<sent, calling, buffers, arrived, handed, garbled, faults, astray>>
    BY <1>5 DEF Chunks!Write
  <2>2. Writing' /\ ToCome' = ToCome
    BY <2>1, WritingGoesOn DEF StreamInv
  <2>3. StreamInv' /\ \A q : IdsOf(q)' \subseteq IdsOf(q)
    BY <1>1, <2>1, <2>2, FramesMove
  <2> QED BY <2>1, <2>3, <1>2, <1>3
<1>6. ASSUME NEW p \in Payloads, Chunks!WriteFails(p) PROVE StreamInv' /\ ChunksInv'
  <2>1. /\ todo[p] # << >> /\ faults' = faults + 1 /\ faults < MaxFaults
        /\ todo' \in {[todo EXCEPT ![p] = Tail(@)], [todo EXCEPT ![p] = << >>]}
        /\ UNCHANGED <<sent, wire, calling, buffers, arrived, handed, garbled, astray>>
    BY <1>6 DEF Chunks!WriteFails, Chunks!Fault
  <2>2. Writing' /\ ToCome' \subseteq ToCome
    BY <2>1, WritesAreDropped DEF StreamInv
  <2>3. StreamInv' /\ \A q : IdsOf(q)' \subseteq IdsOf(q)
    BY <1>1, <2>1, <2>2, FramesMove
  <2> QED BY <2>1, <2>3, <1>2, <1>3
<1>7. ASSUME NEW f \in wire, Chunks!Process(f) \/ Chunks!ProcessTwice(f)
      PROVE  StreamInv' /\ ChunksInv'
  <2>1. Comes(f) /\ calling' \in Payloads \cup {NoStream}
    BY <1>1, <1>7, OnFrameComes
  <2>2. astray' = astray
    BY <2>1 DEF Comes
  <2> QED BY <2>1, <2>2, <1>2, <1>3, FrameComes
<1>8. ASSUME Chunks!CallbackEnds PROVE StreamInv' /\ ChunksInv'
  <2>1. UNCHANGED <<path, streamVars>> /\ calling' = NoStream
    BY <1>1, <1>8 DEF Chunks!CallbackEnds, Chunks!streamVars, streamVars
  <2>2. IdsOf(NoStream)' = IdsOf(NoStream) /\ \A q : IdsOf(q)' = IdsOf(q)
    BY <2>1 DEF streamVars, IdsOf, ToCome, Unwritten
  <2>3. astray' = astray
    BY <2>1 DEF streamVars
  <2> QED BY <2>1, <2>2, <2>3, <1>2, <1>3, StreamsRest
<1>9. ASSUME Chunks!CleanupStale PROVE StreamInv' /\ ChunksInv'
  <2>1. Chunks!RestrictValues(buffers, LAMBDA b : ~b.old) = RestrictValues(buffers, LAMBDA b : ~b.old)
    BY DEF Chunks!RestrictValues, Chunks!Restrict, RestrictValues, Restrict
  <2>2. /\ faults' = faults /\ (\E id \in DOMAIN buffers : buffers[id].old)
        /\ buffers' = RestrictValues(buffers, LAMBDA b : ~b.old)
        /\ UNCHANGED <<path, sent, todo, wire, arrived, handed, garbled, astray, calling>>
    BY <1>1, <1>9, <2>1 DEF Chunks!CleanupStale
  <2>3. StreamInv' /\ \A q : IdsOf(q)' \subseteq IdsOf(q)
    BY <2>2, StreamsAge
  <2> QED BY <2>2, <2>3, <1>2, <1>3
<1>10. ASSUME UNCHANGED <<streamVars, calling>> PROVE StreamInv' /\ ChunksInv'
  <2>1. UNCHANGED <<path, streamVars>> /\ calling' = calling
    BY <1>1, <1>10
  <2>2. \A q : IdsOf(q)' = IdsOf(q)
    BY <2>1 DEF streamVars, IdsOf, ToCome, Unwritten
  <2>3. astray' = astray
    BY <2>1 DEF streamVars
  <2> QED BY <2>1, <2>2, <2>3, <1>2, <1>3, StreamsRest
<1>11. ASSUME NEW p \in Payloads, Chunks!SendSingle(p) \/ Chunks!PassSingle(p)
       PROVE  UNCHANGED <<streamVars, calling>>
  BY <1>11 DEF Chunks!SendSingle, Chunks!PassSingle, Chunks!streamVars, streamVars
<1>12. ASSUME Chunks!Mishap, UNCHANGED calling PROVE StreamInv' /\ ChunksInv'
  <2>1. ASSUME NEW f \in wire, Chunks!Lose(f)
        PROVE  StreamInv' /\ astray' = astray /\ \A q : IdsOf(q)' \subseteq IdsOf(q)
    <3>1. /\ faults' = faults + 1 /\ faults < MaxFaults /\ wire' = wire \ {f}
          /\ UNCHANGED <<ends, arrived>>
      BY <2>1 DEF Chunks!Lose, Chunks!Fault, Chunks!ends, ends
    <3>2. Writing' /\ ToCome' = ToCome \ {f}
      BY <3>1, FrameLeaves DEF StreamInv, ends
    <3> QED BY <1>1, <3>1, <3>2, FramesMove DEF ends
  <2>2. ASSUME NEW id \in DOMAIN buffers, Chunks!GrowOld(id)
        PROVE  StreamInv' /\ astray' = astray /\ \A q : IdsOf(q)' \subseteq IdsOf(q)
    BY <1>1, <2>2, StreamsAge DEF Chunks!GrowOld, Chunks!Fault
  <2>3. StreamInv' /\ astray' = astray /\ \A q : IdsOf(q)' \subseteq IdsOf(q)
    BY <1>12, <2>1, <2>2 DEF Chunks!Mishap
  <2> QED BY <1>12, <2>3, <1>2, <1>3
<1> QED
  BY <1>1, <1>4, <1>5, <1>6, <1>7, <1>8, <1>9, <1>12, <1>10, <1>11 DEF Chunks!Next, Chunks!Works

-----------------------------------------------------------------------------
(* The servers.  How often something is in a sequence.                      *)
Num(s, x) == Cardinality({i \in DOMAIN s : s[i] = x})

(* What the instance counts and adds up is what is counted and added up    *)
(* here.                                                                   *)
LEMMA SameCount ==
  /\ \A s, x : Server!Count(s, x) = Num(s, x)
  /\ \A f : Server!SumFunction(f) = SumFunction(f)
<1>1. \A S : Server!Cardinality(S) = Cardinality(S)
  BY Zenon DEF Server!Cardinality, Cardinality
<1>2. \A s, x : Server!Count(s, x) = Num(s, x)
  BY <1>1 DEF Server!Count, Num
<1>3. \A f : Server!SumFunction(f) = SumFunction(f)
  BY Zenon
  DEF Server!SumFunction, Server!SumFunctionOnSet, Server!FoldFunctionOnSet, Server!MapThenFoldSet,
      SumFunction, SumFunctionOnSet, FoldFunctionOnSet, MapThenFoldSet
<1> QED BY <1>2, <1>3

(* The places of something in a sequence are finitely many.                *)
LEMMA PlacesAreFinite ==
  ASSUME NEW S, NEW s \in Seq(S), NEW x
  PROVE  /\ IsFiniteSet({i \in DOMAIN s : s[i] = x}) /\ Num(s, x) \in Nat
         /\ {i \in DOMAIN s : s[i] = x} \in SUBSET (1..Len(s)) /\ Len(s) \in Nat
<1>1. DOMAIN s = 1..Len(s) /\ Len(s) \in Nat
  BY LenProperties
<1>2. {i \in DOMAIN s : s[i] = x} \in SUBSET (1..Len(s))
  BY <1>1
<1>3. IsFiniteSet(1..Len(s))
  BY <1>1, FS_Interval
<1>4. IsFiniteSet({i \in DOMAIN s : s[i] = x})
  BY <1>2, <1>3, FS_Subset
<1> QED BY <1>1, <1>2, <1>4, FS_CardinalityType DEF Num

(* As many places remain when all are shifted.                             *)
LEMMA Shifted ==
  ASSUME NEW n \in Nat, NEW m \in Nat, NEW B \in SUBSET (1..n)
  PROVE  /\ IsFiniteSet({m + j : j \in B})
         /\ Cardinality({m + j : j \in B}) = Cardinality(B)
<1> DEFINE T == {m + j : j \in B}
           f == [j \in B |-> m + j]
<1>1. IsFiniteSet(B)
  <2>1. IsFiniteSet(1..n)
    BY FS_Interval
  <2> QED BY <2>1, FS_Subset
<1>2. f \in [B -> T] /\ \A t \in T : \E j \in B : f[j] = t
  OBVIOUS
<1>3. \A i, j \in B : f[i] = f[j] => i = j
  <2> TAKE i, j \in B
  <2>1. i \in Int /\ j \in Int
    OBVIOUS
  <2> QED BY <2>1
<1> HIDE DEF T, f
<1>4. ExistsBijection(B, T)
  BY <1>2, <1>3 DEF ExistsBijection, Bijection, Injection, Surjection, IsInjective
<1>5. IsFiniteSet(T) /\ Cardinality(T) = Cardinality(B)
  BY <1>1, <1>4, FS_Bijection
<1> QED BY <1>5 DEF T

(* What two sequences hold, their concatenation holds.                     *)
LEMMA NumOfConcat ==
  ASSUME NEW S, NEW s \in Seq(S), NEW t \in Seq(S), NEW x
  PROVE  Num(s \o t, x) = Num(s, x) + Num(t, x)
<1> DEFINE A == {i \in DOMAIN s : s[i] = x}
           B == {i \in DOMAIN t : t[i] = x}
           C == {Len(s) + j : j \in B}
           D == {i \in DOMAIN (s \o t) : (s \o t)[i] = x}
<1>1. /\ IsFiniteSet(A) /\ A \in SUBSET (1..Len(s)) /\ Len(s) \in Nat
      /\ B \in SUBSET (1..Len(t)) /\ Len(t) \in Nat
  BY PlacesAreFinite
<1>2. IsFiniteSet(C) /\ Cardinality(C) = Cardinality(B)
  BY <1>1, Shifted
<1>3. DOMAIN s = 1..Len(s) /\ DOMAIN t = 1..Len(t)
  BY LenProperties
<1>4. /\ DOMAIN (s \o t) = 1..(Len(s) + Len(t))
      /\ \A i \in 1..Len(s) + Len(t) :
           (s \o t)[i] = IF i <= Len(s) THEN s[i] ELSE t[i - Len(s)]
  BY ConcatProperties, LenProperties
<1>5. D = A \cup C
  <2>1. ASSUME NEW i \in D PROVE i \in A \cup C
    <3>1. i \in 1..(Len(s) + Len(t)) /\ i \in Int
      BY <2>1, <1>1, <1>4
    <3>2. CASE i <= Len(s)
      BY <3>1, <3>2, <2>1, <1>1, <1>3, <1>4
    <3>3. CASE ~(i <= Len(s))
      <4>1. i - Len(s) \in 1..Len(t) /\ i = Len(s) + (i - Len(s))
        BY <3>1, <3>3, <1>1
      <4>2. t[i - Len(s)] = x
        BY <3>1, <3>3, <2>1, <1>4
      <4> QED BY <4>1, <4>2, <1>3
    <3> QED BY <3>2, <3>3
  <2>2. A \subseteq D
    BY <1>1, <1>3, <1>4
  <2>3. ASSUME NEW j \in B PROVE Len(s) + j \in D
    <3>1. j \in 1..Len(t) /\ t[j] = x
      BY <1>3
    <3>2. /\ Len(s) + j \in 1..(Len(s) + Len(t)) /\ ~(Len(s) + j <= Len(s))
          /\ (Len(s) + j) - Len(s) = j
      BY <3>1, <1>1
    <3> QED BY <3>1, <3>2, <1>4
  <2> QED BY <2>1, <2>2, <2>3
<1>6. A \cap C = {}
  BY <1>1
<1> HIDE DEF A, B, C, D
<1>7. Cardinality(A \cap C) = 0 /\ Cardinality(A) \in Nat /\ Cardinality(C) \in Nat
  BY <1>1, <1>2, <1>6, FS_EmptySet, FS_CardinalityType
<1>8. Cardinality(D) = Cardinality(A) + Cardinality(C)
  <2>1. Cardinality(A \cup C) = Cardinality(A) + Cardinality(C) - Cardinality(A \cap C)
    BY <1>1, <1>2, FS_Union
  <2> QED BY <2>1, <1>5, <1>7
<1> QED BY <1>2, <1>8 DEF Num, A, B, C, D

(* The empty sequence and that of one element.                             *)
LEMMA NumOfFew ==
  /\ \A x : Num(<< >>, x) = 0
  /\ \A x, y : Num(<<y>>, x) = IF y = x THEN 1 ELSE 0
<1>1. ASSUME NEW x PROVE Num(<< >>, x) = 0
  <2>1. {i \in DOMAIN << >> : << >>[i] = x} = {}
    OBVIOUS
  <2> QED BY <2>1, FS_EmptySet DEF Num
<1>2. ASSUME NEW x, NEW y PROVE Num(<<y>>, x) = IF y = x THEN 1 ELSE 0
  <2>1. {i \in DOMAIN <<y>> : <<y>>[i] = x} = IF y = x THEN {1} ELSE {}
    OBVIOUS
  <2> QED BY <2>1, FS_EmptySet, FS_Singleton DEF Num
<1> QED BY <1>1, <1>2

(* A sequence of one thing repeated.                                       *)
LEMMA NumOfSame ==
  ASSUME NEW n \in Nat, NEW s, NEW y, DOMAIN s = 1..n, \A i \in 1..n : s[i] = y, NEW x
  PROVE  Num(s, x) = IF y = x THEN n ELSE 0
<1>1. {i \in DOMAIN s : s[i] = x} = IF y = x THEN 1..n ELSE {}
  OBVIOUS
<1>2. Cardinality(1..n) = n
  BY FS_Interval
<1> QED BY <1>1, <1>2, FS_EmptySet DEF Num

(* What is appended is one more, and what is taken from the front one      *)
(* less.                                                                   *)
LEMMA NumOfParts ==
  ASSUME NEW S, NEW s \in Seq(S)
  PROVE  /\ \A x : Num(s, x) \in Nat
         /\ \A x, y : y \in S => Num(Append(s, y), x) = Num(s, x) + IF y = x THEN 1 ELSE 0
         /\ s # << >> => \A x : Num(s, x) = (IF Head(s) = x THEN 1 ELSE 0) + Num(Tail(s), x)
         /\ \A x : x \notin Range(s) => Num(s, x) = 0
<1>1. \A x : Num(s, x) \in Nat
  BY PlacesAreFinite
<1>2. ASSUME NEW x, NEW y \in S PROVE Num(Append(s, y), x) = Num(s, x) + IF y = x THEN 1 ELSE 0
  <2>1. <<y>> \in Seq(S) /\ Append(s, y) = s \o <<y>>
    BY AppendIsConcat
  <2>2. Num(s \o <<y>>, x) = Num(s, x) + Num(<<y>>, x)
    BY <2>1, NumOfConcat
  <2>3. Num(<<y>>, x) = IF y = x THEN 1 ELSE 0
    BY NumOfFew
  <2> QED BY <2>1, <2>2, <2>3
<1>3. ASSUME s # << >>, NEW x
      PROVE  Num(s, x) = (IF Head(s) = x THEN 1 ELSE 0) + Num(Tail(s), x)
  <2>1. Head(s) \in S /\ Tail(s) \in Seq(S) /\ s = <<Head(s)>> \o Tail(s)
    BY <1>3, HeadTailProperties
  <2>2. <<Head(s)>> \in Seq(S)
    BY <2>1
  <2> DEFINE h == <<Head(s)>>
             t == Tail(s)
  <2>3. h \in Seq(S) /\ t \in Seq(S) /\ s = h \o t
    BY <2>1, <2>2
  <2>4. Num(h, x) = IF Head(s) = x THEN 1 ELSE 0
    BY NumOfFew
  <2> HIDE DEF h, t
  <2>5. Num(h \o t, x) = Num(h, x) + Num(t, x)
    BY <2>3, NumOfConcat
  <2> QED BY <2>3, <2>4, <2>5 DEF t
<1>4. ASSUME NEW x, x \notin Range(s) PROVE Num(s, x) = 0
  <2>1. {i \in DOMAIN s : s[i] = x} = {}
    BY <1>4 DEF Range
  <2> QED BY <2>1, FS_EmptySet DEF Num
<1> QED BY <1>1, <1>2, <1>3, <1>4

-----------------------------------------------------------------------------
InPipes(p) == SumFunction([c \in Clients |-> Num(pipe[c], p)])
Accounted == ~cut => \A p \in Frames : owed[p] = given[p] + Num(inbox, p) + InPipes(p)
Last(s) == \A i \in 1..Len(s) : s[i] = Eof => i = Len(s)
ServerFits ==
  /\ Server!TypeOK /\ Accounted
  /\ \A p \in Frames : seen[p] = given[p] + Num(inbox, p)
  /\ \A c \in Clients : Last(pipe[c])

(* The invariant of the server in the terms of this module.                *)
LEMMA ServerMeans == ServerInv <=> (path = "server" => ServerFits)
<1>1. Server!NothingStuck <=> Accounted
  BY SameCount DEF Server!NothingStuck, Accounted, InPipes
<1>2. Collected <=> \A p \in Frames : seen[p] = given[p] + Num(inbox, p)
  BY SameCount DEF Collected
<1>3. EofIsLast <=> \A c \in Clients : Last(pipe[c])
  BY DEF EofIsLast, Last
<1> QED BY <1>1, <1>2, <1>3, Zenon DEF ServerInv, ServerFits

(* The same of the next state.                                             *)
LEMMA ServerMeansNext == ServerInv' <=> (path' = "server" => ServerFits')
<1>1. Server!NothingStuck' <=> Accounted'
  BY SameCount DEF Server!NothingStuck, Accounted, InPipes
<1>2. Collected' <=> \A p \in Frames : seen'[p] = given'[p] + Num(inbox', p)
  BY SameCount DEF Collected
<1>3. EofIsLast' <=> \A c \in Clients : Last(pipe'[c])
  BY DEF EofIsLast, Last
<1> QED BY <1>1, <1>2, <1>3, Zenon DEF ServerInv, ServerFits

(* A prefix of a sequence is a sequence with the same beginning.           *)
LEMMA PrefixesAre ==
  ASSUME NEW S, NEW s \in Seq(S), NEW t, t \in Server!Prefixes(s) \/ t \in Adapter!Prefixes(s)
  PROVE  /\ t \in Seq(S) /\ Len(t) <= Len(s) /\ Len(t) \in Nat
         /\ \A i \in 1..Len(t) : t[i] = s[i] /\ i \in 1..Len(s)
         /\ Len(t) = Len(s) => t = s
<1>1. PICK l \in 0..Len(s) : t = SubSeq(s, 1, l)
  BY DEF Server!Prefixes, Adapter!Prefixes
<1>2. Len(s) \in Nat /\ \A i \in 1..l : i \in 1..Len(s) /\ s[i] \in S
  BY LenProperties, ElementOfSeq
<1>3. t \in Seq(S) /\ Len(t) = l /\ \A i \in 1..l : t[i] = s[i]
  BY <1>1, <1>2, SubSeqProperties
<1>4. Len(t) = Len(s) => t = s
  BY <1>2, <1>3, SeqEqual
<1> QED BY <1>2, <1>3, <1>4

(* The end of a connection is the last thing it carries.                   *)
LEMMA EofAtTheEnd ==
  ASSUME NEW S, NEW s \in Seq(S)
  PROVE  /\ Eof \notin Range(s) => Last(Append(s, Eof))
         /\ Last(s) /\ s # << >> => Last(Tail(s)) /\ (Head(s) = Eof => Len(s) = 1)
         /\ \A e : e \in Range(s) <=> \E i \in 1..Len(s) : s[i] = e
<1>1. Len(s) \in Nat /\ DOMAIN s = 1..Len(s)
  BY LenProperties
<1>2. \A e : e \in Range(s) <=> \E i \in 1..Len(s) : s[i] = e
  BY <1>1 DEF Range
<1>3. Eof \notin Range(s) => Last(Append(s, Eof))
  <2>1. Len(Append(s, Eof)) = Len(s) + 1 /\ \A i \in 1..Len(s) : Append(s, Eof)[i] = s[i]
    <3>1. s \in Seq(S \cup {Eof}) /\ Eof \in S \cup {Eof}
      BY SeqMonotonic
    <3> QED BY <3>1, AppendProperties
  <2> QED BY <2>1, <1>1, <1>2 DEF Last
<1>4. Last(s) /\ s # << >> => Last(Tail(s)) /\ (Head(s) = Eof => Len(s) = 1)
  <2> SUFFICES ASSUME Last(s), s # << >> PROVE Last(Tail(s)) /\ (Head(s) = Eof => Len(s) = 1)
    OBVIOUS
  <2>1. /\ Head(s) = s[1] /\ Len(Tail(s)) = Len(s) - 1 /\ Len(s) # 0
        /\ \A i \in 1..Len(Tail(s)) : Tail(s)[i] = s[i + 1]
    BY HeadTailProperties, EmptySeq
  <2>2. \A i \in 1..Len(s) : s[i] = Eof => i = Len(s)
    BY DEF Last
  <2>3. PICK n \in Nat : n = Len(s) /\ n # 0
    BY <2>1, <1>1
  <2>4. 1 \in 1..n /\ Len(Tail(s)) = n - 1
    BY <2>1, <2>3
  <2>5. Head(s) = Eof => Len(s) = 1
    BY <2>1, <2>2, <2>3, <2>4, Zenon
  <2>6. \A i \in 1..(n - 1) : i + 1 \in 1..n /\ (i + 1 = n => i = n - 1)
    OBVIOUS
  <2>7. \A i \in 1..Len(Tail(s)) : i + 1 \in 1..Len(s) /\ (i + 1 = Len(s) => i = Len(Tail(s)))
    BY <2>3, <2>4, <2>6, Zenon
  <2>8. Last(Tail(s))
    BY <2>1, <2>2, <2>7 DEF Last
  <2> QED BY <2>5, <2>8
<1> QED BY <1>2, <1>3, <1>4

(* One connection changes what it carries.                                  *)
LEMMA OnePipe ==
  ASSUME NEW S, pipe \in [Clients -> Seq(S)], NEW c \in Clients, NEW s \in Seq(S),
         pipe' = [pipe EXCEPT ![c] = s]
  PROVE  /\ \A p : InPipes(p)' = InPipes(p) + Num(s, p) - Num(pipe[c], p)
         /\ \A p : InPipes(p) \in Int /\ Num(s, p) \in Nat /\ Num(pipe[c], p) \in Nat
         /\ pipe' \in [Clients -> Seq(S)] /\ pipe'[c] = s
         /\ \A d \in Clients : d # c => pipe'[d] = pipe[d]
         /\ (\A d \in Clients : Last(pipe[d])) /\ Last(s) => \A d \in Clients : Last(pipe'[d])
<1>1. /\ pipe' \in [Clients -> Seq(S)] /\ pipe'[c] = s
      /\ \A d \in Clients : d # c => pipe'[d] = pipe[d]
  OBVIOUS
<1>2. \A p : Num(s, p) \in Nat /\ \A d \in Clients : Num(pipe[d], p) \in Nat /\ Num(pipe'[d], p) \in Nat
  <2>1. \A d \in Clients : pipe[d] \in Seq(S) /\ pipe'[d] \in Seq(S)
    BY <1>1
  <2> QED BY <2>1, NumOfParts
<1>3. ASSUME NEW p
      PROVE  InPipes(p)' = InPipes(p) + Num(s, p) - Num(pipe[c], p) /\ InPipes(p) \in Int
  <2>1. PICK f : f = [d \in Clients |-> Num(pipe[d], p)]
    OBVIOUS
  <2>2. PICK g : g = [d \in Clients |-> Num(pipe'[d], p)]
    OBVIOUS
  <2>3. f \in [Clients -> Int] /\ g \in [Clients -> Int]
    BY <1>2, <2>1, <2>2
  <2>4. (\A d \in Clients \ {c} : g[d] = f[d]) /\ g[c] = Num(s, p) /\ f[c] = Num(pipe[c], p)
    BY <1>1, <2>1, <2>2
  <2>5. SumFunction(g) = SumFunction(f) + g[c] - f[c] /\ SumFunction(f) \in Int
    <3>1. IsFiniteSet(Clients)
      BY ClientsAssumption
    <3> QED BY <2>3, <2>4, <3>1, SumChanges
  <2> QED BY <2>1, <2>2, <2>4, <2>5 DEF InPipes
<1>4. (\A d \in Clients : Last(pipe[d])) /\ Last(s) => \A d \in Clients : Last(pipe'[d])
  BY <1>1
<1> QED BY <1>1, <1>2, <1>3, <1>4

Carried == Frames \cup {Eof}
(* What the invariant of the server says of types.                         *)
LEMMA ServerTypes ==
  ASSUME ServerFits
  PROVE  /\ Server!TypeOK
         /\ pipe \in [Clients -> Seq(Carried)] /\ \A c \in Clients : pipe[c] \in Seq(Carried)
         /\ inbox \in Seq(Frames) /\ \A p \in Frames : Num(inbox, p) \in Nat
         /\ \A p \in Frames : owed[p] \in Nat /\ seen[p] \in Nat /\ given[p] \in Nat
         /\ \A p \in Frames : p # Eof /\ p \in Carried
         /\ Eof \in Carried /\ cut \in BOOLEAN
         /\ \A c \in Clients : Server!Ended(c) <=> Eof \in Range(pipe[c])
         /\ \A c \in Clients : Last(pipe[c])
<1>1. /\ pipe \in [Clients -> Seq(Carried)] /\ inbox \in Seq(Frames)
      /\ owed \in [Frames -> Nat] /\ seen \in [Frames -> Nat] /\ given \in [Frames -> Nat]
      /\ cut \in BOOLEAN
  BY DEF ServerFits, Server!TypeOK, Carried
<1>2. \A p \in Frames : Num(inbox, p) \in Nat
  BY <1>1, NumOfParts
<1>3. \A c \in Clients : Server!Ended(c) <=> Eof \in Range(pipe[c])
  BY DEF Server!Ended, Server!Range, Range
<1>4. \A p \in Frames : p # Eof /\ p \in Carried
  BY NullsAssumption DEF Carried
<1> QED BY <1>1, <1>2, <1>3, <1>4 DEF ServerFits, Carried

(* Clients connect, send and leave.                                         *)
LEMMA ServerClients ==
  ASSUME ServerFits, NEW c \in Clients,
         \/ Server!Connect(c) \/ Server!Accept(c) \/ Server!Close(c) \/ Server!Break(c)
         \/ \E p \in Frames : Server!SendFrame(c, p) \/ Server!SendInVain(c, p)
  PROVE  ServerFits'
<1>1. /\ Server!TypeOK
      /\ pipe \in [Clients -> Seq(Carried)] /\ \A d \in Clients : pipe[d] \in Seq(Carried)
      /\ inbox \in Seq(Frames) /\ \A p \in Frames : Num(inbox, p) \in Nat
      /\ \A p \in Frames : owed[p] \in Nat /\ seen[p] \in Nat /\ given[p] \in Nat
      /\ \A p \in Frames : p # Eof /\ p \in Carried
      /\ Eof \in Carried /\ cut \in BOOLEAN
      /\ \A d \in Clients : Server!Ended(d) <=> Eof \in Range(pipe[d])
      /\ \A d \in Clients : Last(pipe[d])
  BY ServerTypes
<1>2. ASSUME Server!Connect(c) \/ Server!Accept(c) PROVE ServerFits'
  <2>1. UNCHANGED <<pipe, server, inbox, owed, seen, given, cut>>
    BY <1>2 DEF Server!Connect, Server!Accept
  <2>2. Server!TypeOK'
    BY <1>1, <1>2, <2>1 DEF Server!TypeOK, Server!Connect, Server!Accept
  <2> QED BY <2>1, <2>2 DEF ServerFits, Accounted, InPipes
<1>3. ASSUME NEW p \in Frames, Server!SendFrame(c, p) PROVE ServerFits'
  <2>1. PICK n \in Profiles : /\ pipe' = [pipe EXCEPT ![c] = @ \o [i \in 1..n |-> p]]
                              /\ owed' = [owed EXCEPT ![p] = n]
    BY <1>3 DEF Server!SendFrame
  <2>2. /\ link[c] \in {"queued", "served"} /\ Eof \notin Range(pipe[c]) /\ owed[p] = 0
        /\ UNCHANGED <<link, server, inbox, seen, given, cut>> /\ n \in Nat
    BY <1>1, <1>3, ClientsAssumption DEF Server!SendFrame
  <2>3. PICK s : s = [i \in 1..n |-> p]
    OBVIOUS
  <2>4. s \in Seq(Carried) /\ Len(s) = n /\ DOMAIN s = 1..n /\ \A i \in 1..n : s[i] = p
    <3>1. s \in [1..n -> Carried] /\ DOMAIN s = 1..n
      BY <1>1, <2>3
    <3>2. s \in Seq(Carried)
      BY <3>1, <2>2, SeqDef
    <3> QED BY <3>1, <3>2, <2>2, <2>3, LenProperties
  <2>5. PICK t : t = pipe[c] \o s
    OBVIOUS
  <2>6. t \in Seq(Carried) /\ Len(t) = Len(pipe[c]) + n /\ Len(pipe[c]) \in Nat
        /\ \A i \in 1..Len(t) : t[i] = IF i <= Len(pipe[c]) THEN pipe[c][i] ELSE s[i - Len(pipe[c])]
    BY <1>1, <2>4, <2>5, ConcatProperties, LenProperties
  <2>7. \A q : Num(t, q) = Num(pipe[c], q) + IF p = q THEN n ELSE 0
    <3> TAKE q
    <3>1. pipe[c] \in Seq(Carried)
      BY <1>1
    <3>2. Num(t, q) = Num(pipe[c], q) + Num(s, q)
      BY <3>1, <2>4, <2>5, NumOfConcat
    <3>3. Num(s, q) = IF p = q THEN n ELSE 0
      <4>1. n \in Nat
        BY <2>2
      <4>2. DOMAIN s = 1..n /\ \A i \in 1..n : s[i] = p
        BY <2>4
      <4> QED BY <4>1, <4>2, NumOfSame, Zenon
    <3> QED BY <3>2, <3>3
  <2>8. pipe' = [pipe EXCEPT ![c] = t]
    BY <2>1, <2>3, <2>5
  <2>9. Last(t)
    <3>1. \A i \in 1..Len(t) : t[i] # Eof
      <4> TAKE i \in 1..Len(t)
      <4>1. CASE i <= Len(pipe[c])
        <5>1. i \in 1..Len(pipe[c])
          BY <4>1, <2>6
        <5> QED BY <4>1, <5>1, <1>1, <2>2, <2>6, EofAtTheEnd
      <4>2. CASE ~(i <= Len(pipe[c]))
        <5>1. i - Len(pipe[c]) \in 1..n
          BY <4>2, <2>6, <2>2
        <5> QED BY <4>2, <5>1, <2>4, <2>6, <1>1
      <4> QED BY <4>1, <4>2
    <3> QED BY <3>1 DEF Last
  <2>10. /\ \A q : InPipes(q)' = InPipes(q) + Num(t, q) - Num(pipe[c], q)
         /\ \A q : InPipes(q) \in Int /\ Num(pipe[c], q) \in Nat
         /\ pipe' \in [Clients -> Seq(Carried)]
         /\ \A d \in Clients : d # c => pipe'[d] = pipe[d]
         /\ \A d \in Clients : Last(pipe'[d])
    BY <1>1, <2>6, <2>8, <2>9, OnePipe
  <2>11. Server!TypeOK'
    BY <1>1, <2>1, <2>2, <2>10 DEF Server!TypeOK, Carried
  <2>12. Accounted'
    <3> SUFFICES ASSUME ~cut', NEW q \in Frames
                 PROVE  owed'[q] = given'[q] + Num(inbox', q) + InPipes(q)'
      BY DEF Accounted
    <3>1. owed[q] = given[q] + Num(inbox, q) + InPipes(q)
      BY <2>2 DEF ServerFits, Accounted
    <3>2. owed'[q] = IF p = q THEN n ELSE owed[q]
      BY <2>1, <1>1 DEF Server!TypeOK
    <3>3. InPipes(q)' = InPipes(q) + IF p = q THEN n ELSE 0
      BY <2>2, <2>7, <2>10
    <3>4. owed'[q] = given[q] + Num(inbox, q) + InPipes(q)'
      <4>1. /\ given[q] \in Nat /\ Num(inbox, q) \in Nat /\ InPipes(q) \in Int
            /\ (p = q => owed[q] = 0)
        BY <1>1, <2>2, <2>10
      <4>2. CASE p = q
        <5>1. given[q] + Num(inbox, q) + InPipes(q) = 0
          BY <3>1, <4>1, <4>2
        <5>2. owed'[q] = n /\ InPipes(q)' = InPipes(q) + n /\ n \in Nat
          BY <3>2, <3>3, <4>2, <2>2
        <5>3. given[q] + Num(inbox, q) + (InPipes(q) + n) = n
          BY <5>1, <5>2, <4>1
        <5> QED BY <5>2, <5>3
      <4>3. CASE p # q
        BY <3>1, <3>2, <3>3, <4>1, <4>3
      <4> QED BY <4>2, <4>3
    <3> QED BY <3>4, <2>2
  <2> QED BY <2>2, <2>10, <2>11, <2>12 DEF ServerFits
<1>4. ASSUME NEW p \in Frames, Server!SendInVain(c, p) PROVE ServerFits'
  <2>1. PICK n \in Profiles : owed' = [owed EXCEPT ![p] = n]
    BY <1>4 DEF Server!SendInVain
  <2>2. cut' = TRUE /\ UNCHANGED <<link, pipe, server, inbox, seen, given>> /\ n \in Nat
    BY <1>4, ClientsAssumption DEF Server!SendInVain
  <2>3. Server!TypeOK'
    BY <1>1, <2>1, <2>2 DEF Server!TypeOK
  <2> QED BY <2>2, <2>3 DEF ServerFits, Accounted
<1>5. ASSUME NEW s \in Seq(Carried), Eof \notin Range(s),
             pipe' = [pipe EXCEPT ![c] = Append(s, Eof)],
             ~cut' => ~cut /\ s = pipe[c],
             cut' \in BOOLEAN, link[c] \in {"queued", "served"},
             UNCHANGED <<link, server, inbox, owed, seen, given>>
      PROVE  ServerFits'
  <2>1. PICK t : t = Append(s, Eof)
    OBVIOUS
  <2>2. t \in Seq(Carried) /\ Last(t)
    BY <1>1, <1>5, <2>1, AppendProperties, EofAtTheEnd
  <2>3. \A p \in Frames : Num(t, p) = Num(s, p) + 0
    BY <1>1, <1>5, <2>1, NumOfParts
  <2>4. pipe' = [pipe EXCEPT ![c] = t]
    BY <1>5, <2>1
  <2>5. /\ \A q : InPipes(q)' = InPipes(q) + Num(t, q) - Num(pipe[c], q)
        /\ \A q : InPipes(q) \in Int /\ Num(pipe[c], q) \in Nat
        /\ pipe' \in [Clients -> Seq(Carried)]
        /\ \A d \in Clients : d # c => pipe'[d] = pipe[d]
        /\ \A d \in Clients : Last(pipe'[d])
    BY <1>1, <2>2, <2>4, OnePipe
  <2>6. Server!TypeOK'
    BY <1>1, <1>5, <2>5 DEF Server!TypeOK, Carried
  <2>7. Accounted'
    <3> SUFFICES ASSUME ~cut', NEW q \in Frames
                 PROVE  owed'[q] = given'[q] + Num(inbox', q) + InPipes(q)'
      BY DEF Accounted
    <3>1. owed[q] = given[q] + Num(inbox, q) + InPipes(q)
      BY <1>5 DEF ServerFits, Accounted
    <3>2. InPipes(q)' = InPipes(q)
      BY <1>5, <2>3, <2>5
    <3> QED BY <3>1, <3>2, <1>5
  <2> QED BY <1>5, <2>5, <2>6, <2>7 DEF ServerFits
<1>6. ASSUME Server!Close(c) PROVE ServerFits'
  <2>1. /\ link[c] \in {"queued", "served"} /\ Eof \notin Range(pipe[c])
        /\ pipe' = [pipe EXCEPT ![c] = Append(pipe[c], Eof)]
        /\ UNCHANGED <<link, server, inbox, owed, seen, given, cut>>
    BY <1>1, <1>6 DEF Server!Close
  <2> QED BY <1>1, <1>5, <2>1
<1>7. ASSUME Server!Break(c) PROVE ServerFits'
  <2>1. PICK s \in Server!Prefixes(pipe[c]) : pipe' = [pipe EXCEPT ![c] = Append(s, Eof)]
    BY <1>7 DEF Server!Break
  <2>2. /\ link[c] \in {"queued", "served"} /\ Eof \notin Range(pipe[c]) /\ cut' = TRUE
        /\ UNCHANGED <<link, server, inbox, owed, seen, given>>
    BY <1>1, <1>7 DEF Server!Break
  <2>3. s \in Seq(Carried) /\ \A i \in 1..Len(s) : s[i] = pipe[c][i] /\ i \in 1..Len(pipe[c])
    BY <1>1, PrefixesAre
  <2>4. Eof \notin Range(s)
    BY <1>1, <2>2, <2>3, EofAtTheEnd
  <2> QED BY <1>5, <2>1, <2>2, <2>3, <2>4
<1> QED BY <1>2, <1>3, <1>4, <1>6, <1>7

(* A handler reads, ends, or the collection is drained.                     *)
LEMMA ServerWorks ==
  ASSUME ServerFits,
         Server!Drain \/ \E c \in Clients : Server!ReadFrame(c) \/ Server!ReadEnd(c)
  PROVE  ServerFits'
<1>1. /\ Server!TypeOK
      /\ pipe \in [Clients -> Seq(Carried)] /\ \A d \in Clients : pipe[d] \in Seq(Carried)
      /\ inbox \in Seq(Frames) /\ \A p \in Frames : Num(inbox, p) \in Nat
      /\ \A p \in Frames : owed[p] \in Nat /\ seen[p] \in Nat /\ given[p] \in Nat
      /\ \A p \in Frames : p # Eof /\ p \in Carried
      /\ Eof \in Carried /\ cut \in BOOLEAN
      /\ \A d \in Clients : Server!Ended(d) <=> Eof \in Range(pipe[d])
      /\ \A d \in Clients : Last(pipe[d])
  BY ServerTypes
<1>2. ASSUME Server!Drain PROVE ServerFits'
  <2>1. /\ inbox' = << >> /\ UNCHANGED <<link, pipe, server, owed, seen, cut>>
        /\ given' = [p \in Frames |-> given[p] + Num(inbox, p)]
    BY <1>2, SameCount DEF Server!Drain
  <2>2. \A p \in Frames : Num(inbox', p) = 0 /\ given'[p] = given[p] + Num(inbox, p) /\ given'[p] \in Nat
    BY <1>1, <2>1, NumOfFew
  <2>3. Server!TypeOK'
    <3>1. given' \in [Frames -> Nat] /\ inbox' \in Seq(Frames)
      BY <2>1, <2>2
    <3> QED BY <3>1, <2>1, <1>1 DEF Server!TypeOK
  <2>4. \A p \in Frames : seen'[p] = given'[p] + Num(inbox', p)
    BY <1>1, <2>1, <2>2 DEF ServerFits
  <2>5. Accounted'
    <3> SUFFICES ASSUME ~cut', NEW q \in Frames
                 PROVE  owed'[q] = given'[q] + Num(inbox', q) + InPipes(q)'
      BY DEF Accounted
    <3>1. owed[q] = given[q] + Num(inbox, q) + InPipes(q) /\ InPipes(q)' = InPipes(q)
      BY <2>1 DEF ServerFits, Accounted, InPipes
    <3>2. Num(inbox', q) = 0 /\ given'[q] = given[q] + Num(inbox, q) /\ given'[q] \in Nat /\ owed' = owed
      BY <2>1, <2>2
    <3>3. given'[q] + Num(inbox', q) = given[q] + Num(inbox, q)
      BY <3>2
    <3> QED BY <3>1, <3>2, <3>3
  <2> QED BY <1>1, <2>1, <2>3, <2>4, <2>5 DEF ServerFits
<1>3. ASSUME NEW c \in Clients, link[c] = "served", pipe[c] # << >>
      PROVE  /\ Head(pipe[c]) \in Carried /\ Tail(pipe[c]) \in Seq(Carried)
             /\ \A p : Num(pipe[c], p) = (IF Head(pipe[c]) = p THEN 1 ELSE 0) + Num(Tail(pipe[c]), p)
             /\ Last(Tail(pipe[c])) /\ (Head(pipe[c]) = Eof => Len(pipe[c]) = 1)
  BY <1>1, <1>3, HeadTailProperties, NumOfParts, EofAtTheEnd
(* A handler goes on with s, or leaves unread what is in s.                 *)
<1>4. ASSUME NEW c \in Clients, link[c] = "served", NEW s \in Seq(Carried), NEW t \in Seq(Carried),
             Last(s), Last(t), t = s \/ t = << >>,
             pipe' = [pipe EXCEPT ![c] = t],
             link' = link \/ (link' = [link EXCEPT ![c] = Server!Over(c)] /\ t = << >>),
             cut' \in BOOLEAN, ~cut' => ~cut /\ \A p \in Frames : Num(t, p) = Num(s, p)
      PROVE  /\ link' \in [Clients -> {"none", "queued", "served", "closed", "dropped"}]
             /\ pipe' \in [Clients -> Seq(Carried)]
             /\ \A d \in Clients : link'[d] \notin {"queued", "served"} => pipe'[d] = << >>
             /\ \A d \in Clients : Last(pipe'[d])
             /\ ~cut' => \A p \in Frames : InPipes(p)' = InPipes(p) + Num(s, p) - Num(pipe[c], p)
             /\ \A p \in Frames : InPipes(p) \in Int /\ Num(s, p) \in Nat /\ Num(pipe[c], p) \in Nat
  <2>1. /\ \A q : InPipes(q)' = InPipes(q) + Num(t, q) - Num(pipe[c], q)
        /\ \A q : InPipes(q) \in Int /\ Num(pipe[c], q) \in Nat
        /\ pipe' \in [Clients -> Seq(Carried)] /\ pipe'[c] = t
        /\ \A d \in Clients : d # c => pipe'[d] = pipe[d]
        /\ \A d \in Clients : Last(pipe'[d])
    BY <1>1, <1>4, OnePipe
  <2>2. \A q : Num(s, q) \in Nat
    BY <1>4, NumOfParts
  <2>3. Server!Over(c) \in {"closed", "dropped"}
    BY DEF Server!Over
  <2>4. link \in [Clients -> {"none", "queued", "served", "closed", "dropped"}]
        /\ \A d \in Clients : link[d] \notin {"queued", "served"} => pipe[d] = << >>
    BY <1>1 DEF Server!TypeOK
  <2>5. /\ link' \in [Clients -> {"none", "queued", "served", "closed", "dropped"}]
        /\ \A d \in Clients : link'[d] \notin {"queued", "served"} => pipe'[d] = << >>
    <3>1. CASE link' = link
      <4>1. \A d \in Clients : link[d] \notin {"queued", "served"} => d # c
        BY <1>4
      <4> QED BY <4>1, <3>1, <2>1, <2>4
    <3>2. CASE link' = [link EXCEPT ![c] = Server!Over(c)] /\ t = << >>
      BY <3>2, <2>1, <2>3, <2>4
    <3> QED BY <1>4, <3>1, <3>2
  <2>6. ~cut' => \A p \in Frames : InPipes(p)' = InPipes(p) + Num(s, p) - Num(pipe[c], p)
    BY <1>4, <2>1
  <2> QED BY <2>1, <2>2, <2>5, <2>6
<1>5. ASSUME NEW unread \in Seq(Carried)
      PROVE  Range(unread) \ {Eof} = {} => \A p \in Frames : Num(unread, p) = 0
  <2> SUFFICES ASSUME Range(unread) \ {Eof} = {}, NEW p \in Frames PROVE Num(unread, p) = 0
    OBVIOUS
  <2>1. p \notin Range(unread)
    BY <1>1
  <2> QED BY <2>1, NumOfParts
<1>6. << >> \in Seq(Carried) /\ Last(<< >>) /\ \A p : Num(<< >>, p) = 0
  BY NumOfFew DEF Last
<1>7. ASSUME NEW c \in Clients, Server!ReadFrame(c) PROVE ServerFits'
  <2>1. link[c] = "served" /\ pipe[c] # << >> /\ Head(pipe[c]) # Eof
        /\ UNCHANGED <<server, owed, given>>
    BY <1>7 DEF Server!ReadFrame
  <2> DEFINE p == Head(pipe[c])
             s == Tail(pipe[c])
  <2>2. /\ p \in Frames /\ s \in Seq(Carried) /\ Last(s)
        /\ \A q : Num(pipe[c], q) = (IF p = q THEN 1 ELSE 0) + Num(s, q)
    BY <2>1, <1>3 DEF Carried
  <2>3. inbox' = Append(inbox, p) /\ seen' = [seen EXCEPT ![p] = @ + 1]
    BY <1>7 DEF Server!ReadFrame, Server!Collect
  <2>4. \E t \in {s, << >>} :
          /\ pipe' = [pipe EXCEPT ![c] = t]
          /\ link' = link \/ (link' = [link EXCEPT ![c] = Server!Over(c)] /\ t = << >>)
          /\ cut' \in BOOLEAN /\ (~cut' => ~cut /\ \A q \in Frames : Num(t, q) = Num(s, q))
    <3>1. CASE pipe' = [pipe EXCEPT ![c] = Tail(@)] /\ UNCHANGED <<link, cut>>
      BY <3>1, <1>1
    <3>2. CASE Server!Leave(c, Tail(pipe[c]))
      <4>1. Server!Range(s) = Range(s)
        BY DEF Server!Range, Range
      <4>2. /\ link' = [link EXCEPT ![c] = Server!Over(c)]
            /\ pipe' = [pipe EXCEPT ![c] = << >>]
            /\ cut' = (cut \/ Range(s) \ {Eof} # {})
        BY <3>2, <4>1 DEF Server!Leave
      <4>3. ~cut' => ~cut /\ \A q \in Frames : Num(<< >>, q) = Num(s, q)
        BY <4>2, <2>2, <1>5, <1>6
      <4>4. cut' \in BOOLEAN
        BY <4>2, <1>1
      <4> QED BY <4>2, <4>3, <4>4
    <3> QED BY <1>7, <3>1, <3>2 DEF Server!ReadFrame
  <2> HIDE DEF p, s
  <2>5. PICK t \in {s, << >>} :
          /\ pipe' = [pipe EXCEPT ![c] = t]
          /\ link' = link \/ (link' = [link EXCEPT ![c] = Server!Over(c)] /\ t = << >>)
          /\ cut' \in BOOLEAN /\ (~cut' => ~cut /\ \A q \in Frames : Num(t, q) = Num(s, q))
    BY <2>4
  <2>6. t \in Seq(Carried) /\ Last(t)
    BY <2>2, <2>5, <1>6
  <2>7. /\ link' \in [Clients -> {"none", "queued", "served", "closed", "dropped"}]
        /\ pipe' \in [Clients -> Seq(Carried)]
        /\ \A d \in Clients : link'[d] \notin {"queued", "served"} => pipe'[d] = << >>
        /\ \A d \in Clients : Last(pipe'[d])
        /\ ~cut' => \A q \in Frames : InPipes(q)' = InPipes(q) + Num(s, q) - Num(pipe[c], q)
        /\ \A q \in Frames : InPipes(q) \in Int /\ Num(s, q) \in Nat /\ Num(pipe[c], q) \in Nat
    BY <2>1, <2>2, <2>5, <2>6, <1>4
  <2>8. /\ inbox' \in Seq(Frames)
        /\ \A q \in Frames : Num(inbox', q) = Num(inbox, q) + IF p = q THEN 1 ELSE 0
    BY <1>1, <2>2, <2>3, NumOfParts, AppendProperties
  <2>9. /\ seen' \in [Frames -> Nat]
        /\ \A q \in Frames : seen'[q] = seen[q] + IF p = q THEN 1 ELSE 0
    BY <1>1, <2>2, <2>3 DEF Server!TypeOK
  <2>10. Server!TypeOK'
    BY <1>1, <2>1, <2>5, <2>7, <2>8, <2>9 DEF Server!TypeOK, Carried
  <2>11. \A q \in Frames : seen'[q] = given'[q] + Num(inbox', q)
    <3> TAKE q \in Frames
    <3>1. seen[q] = given[q] + Num(inbox, q) /\ given'[q] = given[q]
      BY <2>1 DEF ServerFits
    <3>2. given[q] \in Nat /\ Num(inbox, q) \in Nat
      BY <1>1
    <3>3. CASE p = q
      BY <3>1, <3>2, <3>3, <2>8, <2>9
    <3>4. CASE p # q
      BY <3>1, <3>2, <3>4, <2>8, <2>9
    <3> QED BY <3>3, <3>4
  <2>12. Accounted'
    <3> SUFFICES ASSUME ~cut', NEW q \in Frames
                 PROVE  owed'[q] = given'[q] + Num(inbox', q) + InPipes(q)'
      BY DEF Accounted
    <3>1. owed[q] = given[q] + Num(inbox, q) + InPipes(q)
      BY <2>5 DEF ServerFits, Accounted
    <3>2. InPipes(q)' = InPipes(q) - IF p = q THEN 1 ELSE 0
      BY <2>2, <2>7
    <3>3. owed'[q] = owed[q] /\ given'[q] = given[q]
      BY <2>1
    <3> QED BY <3>1, <3>2, <3>3, <2>7, <2>8, <1>1
  <2> QED BY <2>7, <2>10, <2>11, <2>12 DEF ServerFits
<1>8. ASSUME NEW c \in Clients, Server!ReadEnd(c) PROVE ServerFits'
  <2>1. link[c] = "served" /\ pipe[c] # << >> /\ Head(pipe[c]) = Eof
        /\ UNCHANGED <<server, inbox, owed, seen, given>>
    BY <1>8 DEF Server!ReadEnd
  <2>2. \A q \in Frames : Num(pipe[c], q) = 0
    <3>1. \A q \in Frames : q \notin Range(pipe[c])
      BY <1>1, <1>3, <2>1, EofAtTheEnd, HeadTailProperties
    <3> QED BY <3>1, <1>1, NumOfParts
  <2>3. /\ link' = [link EXCEPT ![c] = Server!Over(c)]
        /\ pipe' = [pipe EXCEPT ![c] = << >>]
        /\ cut' = cut
    <3>1. Server!Range(<< >>) = {}
      BY DEF Server!Range
    <3> QED BY <1>8, <3>1, <1>1 DEF Server!ReadEnd, Server!Leave
  <2>4. /\ link' \in [Clients -> {"none", "queued", "served", "closed", "dropped"}]
        /\ pipe' \in [Clients -> Seq(Carried)]
        /\ \A d \in Clients : link'[d] \notin {"queued", "served"} => pipe'[d] = << >>
        /\ \A d \in Clients : Last(pipe'[d])
        /\ ~cut' => \A q \in Frames : InPipes(q)' = InPipes(q) + Num(<< >>, q) - Num(pipe[c], q)
        /\ \A q \in Frames : InPipes(q) \in Int
    BY <1>1, <1>4, <1>6, <2>1, <2>3
  <2>5. Server!TypeOK'
    BY <1>1, <2>1, <2>3, <2>4 DEF Server!TypeOK, Carried
  <2>6. Accounted'
    <3> SUFFICES ASSUME ~cut', NEW q \in Frames
                 PROVE  owed'[q] = given'[q] + Num(inbox', q) + InPipes(q)'
      BY DEF Accounted
    <3>1. owed[q] = given[q] + Num(inbox, q) + InPipes(q)
      BY <2>3 DEF ServerFits, Accounted
    <3>2. InPipes(q)' = InPipes(q)
      BY <2>2, <2>4, <1>6
    <3> QED BY <3>1, <3>2, <2>1
  <2> QED BY <2>1, <2>4, <2>5, <2>6 DEF ServerFits
<1> QED BY <1>2, <1>7, <1>8

(* The server stops.                                                        *)
LEMMA ServerStops ==
  ASSUME ServerFits, Server!Stop \/ Server!Stopped
  PROVE  ServerFits'
<1>1. /\ Server!TypeOK
      /\ pipe \in [Clients -> Seq(Carried)] /\ \A d \in Clients : pipe[d] \in Seq(Carried)
      /\ \A p \in Frames : p # Eof /\ p \in Carried
      /\ Eof \in Carried /\ cut \in BOOLEAN
      /\ \A d \in Clients : Last(pipe[d])
  BY ServerTypes
<1>2. link \in [Clients -> {"none", "queued", "served", "closed", "dropped"}]
      /\ \A d \in Clients : link[d] \notin {"queued", "served"} => pipe[d] = << >>
  BY <1>1 DEF Server!TypeOK
<1>3. /\ << >> \in Seq(Carried) /\ Last(<< >>) /\ \A p : Num(<< >>, p) = 0
      /\ \A s : Server!Range(s) = Range(s)
  BY NumOfFew DEF Last, Server!Range, Range
<1>4. ASSUME pipe' = [c \in Clients |-> pipe'[c]], cut' \in BOOLEAN,
             link' \in [Clients -> {"none", "queued", "served", "closed", "dropped"}],
             server' \in {"stopping", "down"}, UNCHANGED <<inbox, owed, seen, given>>,
             \A c \in Clients : /\ pipe'[c] \in Seq(Carried) /\ Last(pipe'[c])
                                /\ link'[c] \notin {"queued", "served"} => pipe'[c] = << >>,
             ~cut' => ~cut /\ \A c \in Clients : \A p \in Frames :
                                Num(pipe'[c], p) = Num(pipe[c], p)
      PROVE  ServerFits'
  <2>1. pipe' \in [Clients -> Seq(Carried)]
    BY <1>4
  <2>2. Server!TypeOK'
    BY <1>1, <1>4, <2>1 DEF Server!TypeOK, Carried
  <2>3. Accounted'
    <3> SUFFICES ASSUME ~cut', NEW p \in Frames
                 PROVE  owed'[p] = given'[p] + Num(inbox', p) + InPipes(p)'
      BY DEF Accounted
    <3>1. owed[p] = given[p] + Num(inbox, p) + InPipes(p)
      BY <1>4 DEF ServerFits, Accounted
    <3>2. \A c \in Clients : Num(pipe'[c], p) = Num(pipe[c], p)
      BY <1>4
    <3>3. [c \in Clients |-> Num(pipe'[c], p)] = [c \in Clients |-> Num(pipe[c], p)]
      BY <3>2
    <3>4. InPipes(p)' = InPipes(p)
      BY <3>3 DEF InPipes
    <3> QED BY <3>1, <3>4, <1>4
  <2>4. \A p \in Frames : seen'[p] = given'[p] + Num(inbox', p)
    BY <1>4 DEF ServerFits
  <2> QED BY <1>4, <2>2, <2>3, <2>4 DEF ServerFits
<1>5. ASSUME Server!Stop PROVE ServerFits'
  <2>1. /\ server' = "stopping" /\ UNCHANGED <<inbox, owed, seen, given>>
        /\ link' = [c \in Clients |-> IF link[c] = "queued" THEN Server!Over(c) ELSE link[c]]
        /\ pipe' = [c \in Clients |-> IF link[c] = "queued" THEN << >> ELSE pipe[c]]
        /\ cut' = (cut \/ \E c \in Clients : link[c] = "queued" /\ Range(pipe[c]) \ {Eof} # {})
    BY <1>3, <1>5 DEF Server!Stop
  <2>2. \A c \in Clients : Server!Over(c) \in {"closed", "dropped"}
    BY DEF Server!Over
  <2>3. link' \in [Clients -> {"none", "queued", "served", "closed", "dropped"}]
    BY <1>2, <2>1, <2>2
  <2>4. \A c \in Clients : /\ pipe'[c] \in Seq(Carried) /\ Last(pipe'[c])
                           /\ link'[c] \notin {"queued", "served"} => pipe'[c] = << >>
    BY <1>1, <1>2, <1>3, <2>1
  <2>5. ASSUME ~cut', NEW c \in Clients, NEW p \in Frames
        PROVE  ~cut /\ Num(pipe'[c], p) = Num(pipe[c], p)
    <3>1. CASE link[c] = "queued"
      <4>1. Range(pipe[c]) \ {Eof} = {} /\ ~cut
        BY <3>1, <2>1, <2>5
      <4>2. p \notin Range(pipe[c])
        BY <4>1, <1>1
      <4>3. Num(pipe[c], p) = 0
        BY <4>2, <1>1, NumOfParts
      <4> QED BY <4>1, <4>3, <3>1, <2>1, <1>3
    <3>2. CASE link[c] # "queued"
      BY <3>2, <2>1, <2>5
    <3> QED BY <3>1, <3>2
  <2>6. cut' \in BOOLEAN /\ (~cut' => ~cut)
    BY <1>1, <2>1
  <2>7. pipe' = [c \in Clients |-> pipe'[c]]
    BY <2>1
  <2> QED BY <1>4, <2>1, <2>3, <2>4, <2>5, <2>6, <2>7
<1>6. ASSUME Server!Stopped PROVE ServerFits'
  <2>1. PICK rest :
          /\ \A c \in Clients : rest[c] \in Server!Prefixes(pipe[c])
          /\ pipe' = [c \in Clients |-> IF link[c] # "served" \/ Eof \in Range(rest[c]) THEN rest[c]
                                        ELSE Append(rest[c], Eof)]
          /\ cut' = (cut \/ \E c \in Clients : Len(rest[c]) < Len(pipe[c]))
    BY <1>3, <1>6 DEF Server!Stopped
  <2>2. server' = "down" /\ UNCHANGED <<link, inbox, owed, seen, given>>
    BY <1>6 DEF Server!Stopped
  <2>3. ASSUME NEW c \in Clients
        PROVE  /\ rest[c] \in Seq(Carried) /\ Len(rest[c]) <= Len(pipe[c])
               /\ Len(rest[c]) \in Nat /\ Len(pipe[c]) \in Nat
               /\ \A i \in 1..Len(rest[c]) : rest[c][i] = pipe[c][i] /\ i \in 1..Len(pipe[c])
               /\ Len(rest[c]) = Len(pipe[c]) => rest[c] = pipe[c]
    BY <1>1, <2>1, PrefixesAre, LenProperties
  <2>4. ASSUME NEW c \in Clients
        PROVE  /\ pipe'[c] \in Seq(Carried) /\ Last(pipe'[c])
               /\ link'[c] \notin {"queued", "served"} => pipe'[c] = << >>
               /\ \A p \in Frames : Num(pipe'[c], p) = Num(rest[c], p)
    <3>1. CASE link[c] # "served" \/ Eof \in Range(rest[c])
      <4>1. pipe'[c] = rest[c]
        BY <2>1, <3>1
      <4>2. Last(rest[c])
        BY <1>1, <2>3 DEF Last
      <4>3. link[c] \notin {"queued", "served"} => rest[c] = << >>
        <5>1. pipe[c] = << >> => Len(rest[c]) = Len(pipe[c])
          BY <2>3
        <5> QED BY <5>1, <1>2, <2>3
      <4> QED BY <4>1, <4>2, <4>3, <2>2, <2>3
    <3>2. CASE ~(link[c] # "served" \/ Eof \in Range(rest[c]))
      <4>1. pipe'[c] = Append(rest[c], Eof) /\ link[c] = "served"
        BY <2>1, <3>2
      <4>2. \A p \in Frames : Num(Append(rest[c], Eof), p) = Num(rest[c], p) + 0
                              /\ Num(rest[c], p) \in Nat
        BY <1>1, <2>3, NumOfParts
      <4>3. Append(rest[c], Eof) \in Seq(Carried) /\ Last(Append(rest[c], Eof))
        BY <1>1, <2>3, <3>2, AppendProperties, EofAtTheEnd
      <4> QED BY <4>1, <4>2, <4>3, <2>2
    <3> QED BY <3>1, <3>2
  <2>5. ASSUME ~cut', NEW c \in Clients, NEW p \in Frames
        PROVE  ~cut /\ Num(pipe'[c], p) = Num(pipe[c], p)
    <3>1. ~cut /\ ~(Len(rest[c]) < Len(pipe[c]))
      BY <2>1, <2>5
    <3>2. Len(rest[c]) = Len(pipe[c])
      BY <3>1, <2>3
    <3>3. rest[c] = pipe[c]
      BY <3>2, <2>3
    <3> QED BY <3>1, <3>3, <2>4
  <2>6. cut' \in BOOLEAN /\ (~cut' => ~cut)
    BY <1>1, <2>1
  <2>7. pipe' = [c \in Clients |-> pipe'[c]] /\ link' \in [Clients -> {"none", "queued", "served", "closed", "dropped"}]
    BY <2>1, <2>2, <1>2
  <2> QED BY <1>4, <2>2, <2>4, <2>5, <2>6, <2>7
<1> QED BY <1>5, <1>6

(* Every step of the server keeps the invariant.                           *)
LEMMA ServerKeepsIt ==
  ASSUME StreamInv, ServerInv, ServerStep
  PROVE  StreamInv' /\ ServerInv'
<1>1. path = "server" /\ path' = path /\ Server!Next /\ UNCHANGED streamVars
  BY DEF ServerStep, OnServer
<1>2. ServerFits
  BY <1>1, ServerMeans
<1>3. ServerFits'
  BY <1>1, <1>2, ServerClients, ServerWorks, ServerStops DEF Server!Next, Server!Works
<1> QED BY <1>1, <1>3, ServerMeansNext, StreamsRest

-----------------------------------------------------------------------------
(* The adapter.  A body is in a pipe until it was seen and in a buffer      *)
(* until it is handed over, unless it is lost.                              *)
Body(p) == Adapter!BodyOf(p)
Tokens == Adapter!Tokens
Held(f, x) == SumFunction([c \in Clients |-> Num(f[c], x)])
Flows ==
  \A p \in Frames :
    /\ Held(pipe, Body(p)) + seen[p] <= owed[p]
    /\ Held(buffer, Body(p)) + given[p] <= seen[p]
    /\ ~cut /\ ~shared => /\ Held(pipe, Body(p)) + seen[p] = owed[p]
                          /\ Held(buffer, Body(p)) + given[p] = seen[p]
Sorts ==
  /\ link \in [Clients -> {"none", "queued", "served", "closed"}]
  /\ pipe \in [Clients -> Seq(Tokens)] /\ buffer \in [Clients -> Seq(Tokens)]
  /\ server \in {"up", "closing", "down"}
  /\ owed \in [Frames -> 0..1] /\ seen \in [Frames -> Nat] /\ given \in [Frames -> Nat]
  /\ waiter \in [Clients -> Clients \cup {NoOne}]
  /\ reader \in Clients \cup {NoOne} /\ turn \in Clients \cup {NoOne}
  /\ at \in [Clients -> {"header", "body", "torn", "callback"}]
  /\ from \in [Clients -> Clients]
  /\ ready \subseteq Clients
  /\ cut \in BOOLEAN /\ shared \in BOOLEAN

(* A handler that runs, is woken or waits does no two of these, and is not  *)
(* in its callback.                                                         *)
Busy(h) == link[h] = "served" /\ at[h] # "callback"
OneThing ==
  \A h \in Clients :
    /\ turn = h => Busy(h) /\ h \notin ready
    /\ h \in ready => Busy(h)
    /\ \A r \in Clients : waiter[r] = h => Busy(h) /\ h \notin ready /\ turn # h /\ from[h] = r
    /\ link[h] \in {"none", "queued"} => at[h] = "header" /\ from[h] = h

(* Connections that come one after the other have the reader to themselves. *)
Alone ==
  \A c \in Clients : link[c] = "served" =>
    /\ reader = c /\ from[c] = c
    /\ \A d \in Clients : link[d] = "served" => c = d
Attended ==
  \A c \in Clients : link[c] = "served" =>
    turn = c \/ c \in ready \/ at[c] = "callback" \/ waiter[c] = c
Readable == \A c \in Clients : link[c] = "served" => reader \in Clients
Handlers ==
  /\ OneThing /\ Readable
  /\ ~shared => Alone
  /\ ~cut /\ ~shared => Attended
AdapterInv == path = "adapter" => Sorts /\ Flows /\ Handlers

(* What is noted of frames without a header, and of the clients.            *)
Marks == single \in [Payloads -> {"not", "sent", "done"}] /\ quit \subseteq Clients

IInv == StreamInv /\ ParallelInv /\ ChunksInv /\ ServerInv /\ AdapterInv /\ Marks

-----------------------------------------------------------------------------
(* The tokens are headers, bodies, the end and something torn, all         *)
(* different.                                                              *)
LEMMA TokensAre ==
  /\ \A t \in Tokens : \/ t \in {Eof, Torn}
                       \/ \E p \in Frames : t = Adapter!HeaderOf(p) \/ t = Body(p)
  /\ Eof \in Tokens /\ Torn \in Tokens /\ Eof # Torn
  /\ \A p \in Frames : Body(p) \in Tokens /\ Adapter!HeaderOf(p) \in Tokens
  /\ \A p \in Frames : Body(p) \notin {Eof, Torn} /\ Body(p)[2] = p
  /\ \A p, q \in Frames : (Body(p) = Body(q) => p = q) /\ Body(p) # Adapter!HeaderOf(q)
  /\ \A t \in Tokens : Adapter!Is(t, "body") => \E p \in Frames : t = Body(p)
  /\ \A p \in Frames : ~Adapter!Is(Body(p), "header")
  /\ \A s : Adapter!Range(s) = Range(s)
<1>1. \A p \in Frames : {Adapter!HeaderOf(p), Body(p)} \cap {Eof, Torn} = {}
  BY NullsAssumption DEF Body
<1>2. \A p : Body(p) = <<"body", p>> /\ Adapter!HeaderOf(p) = <<"header", p>>
  BY DEF Body, Adapter!BodyOf, Adapter!HeaderOf
<1>3. Tokens = {Adapter!HeaderOf(p) : p \in Frames} \cup {Body(p) : p \in Frames} \cup {Eof, Torn}
  BY DEF Tokens, Adapter!Tokens, Body
<1>4. \A t, kind : Adapter!Is(t, kind) <=> t # Eof /\ t # Torn /\ t[1] = kind
  BY DEF Adapter!Is
<1>5. \A s : Adapter!Range(s) = Range(s)
  BY DEF Adapter!Range, Range
<1>6. \A t \in Tokens : Adapter!Is(t, "body") => \E p \in Frames : t = Body(p)
  BY <1>2, <1>3, <1>4
<1>7. \A p, q \in Frames : (Body(p) = Body(q) => p = q) /\ Body(p) # Adapter!HeaderOf(q)
  BY <1>2
<1>8. \A p \in Frames : ~Adapter!Is(Body(p), "header") /\ Body(p)[2] = p
  BY <1>2, <1>4
<1> QED BY <1>1, <1>3, <1>5, <1>6, <1>7, <1>8, NullsAssumption

SameBut(u, v, c) == \A d \in Clients \ {c} : v[d] = u[d]

(* When one connection changes what it holds, the sum changes by as much.  *)
LEMMA HeldAtOne ==
  ASSUME NEW S, NEW u \in [Clients -> Seq(S)], NEW v \in [Clients -> Seq(S)],
         NEW c \in Clients, SameBut(u, v, c), NEW x
  PROVE  /\ Held(v, x) = Held(u, x) + Num(v[c], x) - Num(u[c], x)
         /\ Held(u, x) \in Nat /\ Held(v, x) \in Nat
         /\ \A d \in Clients : Num(u[d], x) \in Nat /\ Num(v[d], x) \in Nat
<1>1. IsFiniteSet(Clients)
  BY ClientsAssumption
<1>2. \A d \in Clients : Num(u[d], x) \in Nat /\ Num(v[d], x) \in Nat
  <2>1. \A d \in Clients : u[d] \in Seq(S) /\ v[d] \in Seq(S)
    OBVIOUS
  <2> QED BY <2>1, NumOfParts
<1>3. PICK h : h = [d \in Clients |-> Num(u[d], x)]
  OBVIOUS
<1>4. PICK k : k = [d \in Clients |-> Num(v[d], x)]
  OBVIOUS
<1>5. h \in [Clients -> Nat] /\ k \in [Clients -> Nat]
  BY <1>2, <1>3, <1>4
<1>6. h \in [Clients -> Int] /\ k \in [Clients -> Int]
  BY <1>5
<1>7. \A d \in Clients \ {c} : k[d] = h[d]
  BY <1>3, <1>4 DEF SameBut
<1>8. k[c] = Num(v[c], x) /\ h[c] = Num(u[c], x)
  BY <1>3, <1>4
<1>9. SumFunction(k) = SumFunction(h) + k[c] - h[c] /\ SumFunction(h) \in Int
  BY <1>1, <1>6, <1>7, SumChanges
<1>10. SumFunction(k) \in Nat /\ SumFunction(h) \in Nat
  BY <1>1, <1>5, SumIsNatural
<1> QED BY <1>2, <1>3, <1>4, <1>9, <1>10, <1>8 DEF Held

(* Without what one connection holds, the others hold the rest.             *)
Emptying(S, u, c, x) ==
  \E v \in [Clients -> Seq(S)] :
    /\ \A d \in Clients \ {c} : v[d] = u[d]
    /\ Held(u, x) = Held(v, x) + Num(u[c], x)
    /\ Held(u, x) \in Nat /\ Held(v, x) \in Nat
    /\ \A d \in Clients : Num(u[d], x) \in Nat

(* So it is when one connection is emptied.                                *)
LEMMA HeldWithout ==
  ASSUME NEW S, NEW u \in [Clients -> Seq(S)], NEW c \in Clients, NEW x
  PROVE  Emptying(S, u, c, x)
<1>1. PICK v : v = [u EXCEPT ![c] = << >>]
  OBVIOUS
<1>2. v \in [Clients -> Seq(S)] /\ SameBut(u, v, c)
  BY <1>1 DEF SameBut
<1>3. Num(v[c], x) = 0
  BY <1>1, NumOfFew
<1>4. /\ Held(v, x) = Held(u, x) + Num(v[c], x) - Num(u[c], x)
      /\ Held(u, x) \in Nat /\ Held(v, x) \in Nat
      /\ \A d \in Clients : Num(u[d], x) \in Nat
  BY <1>2, HeldAtOne
<1>5. Held(u, x) = Held(v, x) + Num(u[c], x)
  BY <1>3, <1>4
<1> QED BY <1>2, <1>4, <1>5 DEF SameBut, Emptying

(* No connection holds more than all do, nor do two of them.               *)
LEMMA HeldBounds ==
  ASSUME NEW S, NEW u \in [Clients -> Seq(S)], NEW c \in Clients, NEW x
  PROVE  /\ Held(u, x) \in Nat
         /\ \A d \in Clients : Num(u[d], x) \in Nat
         /\ Num(u[c], x) <= Held(u, x)
         /\ \A d \in Clients \ {c} : Num(u[c], x) + Num(u[d], x) <= Held(u, x)
<1>1. \A w \in [Clients -> Seq(S)] : \A d \in Clients : Emptying(S, w, d, x)
  BY HeldWithout
<1>2. PICK a \in [Clients -> Seq(S)] :
        /\ \A e \in Clients \ {c} : a[e] = u[e]
        /\ Held(u, x) = Held(a, x) + Num(u[c], x)
        /\ Held(u, x) \in Nat /\ Held(a, x) \in Nat
        /\ \A e \in Clients : Num(u[e], x) \in Nat
  BY <1>1 DEF Emptying
<1>3. ASSUME NEW d \in Clients \ {c} PROVE Num(u[c], x) + Num(u[d], x) <= Held(u, x)
  <2>1. PICK b \in [Clients -> Seq(S)] :
          Held(a, x) = Held(b, x) + Num(a[d], x) /\ Held(b, x) \in Nat
    BY <1>1 DEF Emptying
  <2>2. PICK n, m : n = Num(u[c], x) /\ m = Num(u[d], x) /\ n \in Nat /\ m \in Nat
    BY <1>2
  <2>3. Held(u, x) = Held(a, x) + n
    BY <1>2, <2>2
  <2>4. PICK r \in Nat : Held(a, x) = r + m
    BY <1>2, <2>1, <2>2
  <2>5. n + m <= Held(u, x)
    <3>1. Held(u, x) = (r + m) + n
      BY <2>3, <2>4
    <3> QED BY <2>2, <3>1
  <2> QED BY <2>2, <2>5
<1>4. Num(u[c], x) <= Held(u, x)
  BY <1>2
<1> QED BY <1>2, <1>3, <1>4

(* The same of everything that is held.                                    *)
LEMMA HeldChanges ==
  ASSUME NEW S, NEW u \in [Clients -> Seq(S)], NEW v \in [Clients -> Seq(S)],
         NEW c \in Clients, SameBut(u, v, c)
  PROVE  \A x : /\ Held(v, x) = Held(u, x) + Num(v[c], x) - Num(u[c], x)
                /\ Held(u, x) \in Nat /\ Held(v, x) \in Nat
                /\ Num(u[c], x) \in Nat /\ Num(v[c], x) \in Nat
                /\ Num(u[c], x) <= Held(u, x)
BY HeldAtOne, HeldBounds

(* The update of a function at one connection.                             *)
LEMMA OneChanges ==
  ASSUME NEW S, NEW u \in [Clients -> Seq(S)], NEW c \in Clients, NEW s \in Seq(S)
  PROVE  /\ [u EXCEPT ![c] = s] \in [Clients -> Seq(S)]
         /\ SameBut(u, [u EXCEPT ![c] = s], c) /\ [u EXCEPT ![c] = s][c] = s
         /\ \A d \in Clients : d # c => [u EXCEPT ![c] = s][d] = u[d]
BY DEF SameBut

(* What the invariant of the adapter says of types.                        *)
LEMMA AdapterFacts ==
  ASSUME Sorts
  PROVE  /\ \A c \in Clients : pipe[c] \in Seq(Tokens) /\ buffer[c] \in Seq(Tokens)
         /\ \A p \in Frames : owed[p] \in 0..1 /\ seen[p] \in Nat /\ given[p] \in Nat
         /\ \A x : Held(pipe, x) \in Nat /\ Held(buffer, x) \in Nat
         /\ \A c \in Clients : \A x : Num(pipe[c], x) \in Nat /\ Num(buffer[c], x) \in Nat
<1>1. pipe \in [Clients -> Seq(Tokens)] /\ buffer \in [Clients -> Seq(Tokens)]
  BY DEF Sorts
<1>2. \A c \in Clients : \A x : Num(pipe[c], x) \in Nat /\ Num(buffer[c], x) \in Nat
  BY <1>1, NumOfParts
<1>3. ASSUME NEW x PROVE Held(pipe, x) \in Nat /\ Held(buffer, x) \in Nat
  <2>1. CASE Clients = {}
    <3>1. IsFiniteSet(Clients)
      BY ClientsAssumption
    <3>2. \A f : Held(f, x) = 0
      <4> TAKE f
      <4>1. PICK h : h = [c \in Clients |-> Num(f[c], x)]
        OBVIOUS
      <4>2. DOMAIN h = Clients /\ \A c \in Clients : h[c] = 0
        BY <4>1, <2>1
      <4>3. SumFunction(h) = 0
        BY <3>1, <4>2, SumOfNothing
      <4> QED BY <4>1, <4>3 DEF Held
    <3> QED BY <3>2
  <2>2. CASE Clients # {}
    <3>1. PICK c \in Clients : TRUE
      BY <2>2
    <3> QED BY <1>1, <3>1, HeldBounds
  <2> QED BY <2>1, <2>2
<1> QED BY <1>1, <1>2, <1>3 DEF Sorts

(* The handlers do not notice what clients do, but a new connection.        *)
LEMMA HandlersRest ==
  ASSUME Handlers, UNCHANGED <<at, from, turn, shared, waiter, ready, reader>>, ~cut' => ~cut,
         \A h \in Clients : /\ link'[h] = "served" <=> link[h] = "served"
                            /\ link'[h] \in {"none", "queued"} => link[h] \in {"none", "queued"}
  PROVE  Handlers'
<1>1. \A h \in Clients : Busy(h)' <=> Busy(h)
  BY DEF Busy
<1>2. OneThing'
  BY <1>1 DEF Handlers, OneThing
<1>3. ~shared => Alone'
  BY DEF Handlers, Alone
<1>4. ~cut' /\ ~shared' => Attended'
  BY DEF Handlers, Attended
<1>5. Readable'
  BY DEF Handlers, Readable
<1> QED BY <1>2, <1>3, <1>4, <1>5 DEF Handlers

(* What is lost is noted.                                                   *)
LEMMA FlowsEbb ==
  ASSUME Sorts, Flows, UNCHANGED <<owed, seen, given, shared>>, ~cut' => ~cut,
         \A p \in Frames : /\ Held(pipe', Body(p)) \in Nat /\ Held(buffer', Body(p)) \in Nat
                           /\ Held(pipe', Body(p)) <= Held(pipe, Body(p))
                           /\ Held(buffer', Body(p)) <= Held(buffer, Body(p))
                           /\ ~cut' /\ ~shared' => /\ Held(pipe', Body(p)) = Held(pipe, Body(p))
                                                   /\ Held(buffer', Body(p)) = Held(buffer, Body(p))
  PROVE  Flows'
<1> SUFFICES ASSUME NEW p \in Frames
             PROVE  /\ Held(pipe', Body(p)) + seen'[p] <= owed'[p]
                    /\ Held(buffer', Body(p)) + given'[p] <= seen'[p]
                    /\ ~cut' /\ ~shared' => /\ Held(pipe', Body(p)) + seen'[p] = owed'[p]
                                            /\ Held(buffer', Body(p)) + given'[p] = seen'[p]
  BY DEF Flows, Body, Adapter!BodyOf
<1>1. /\ owed[p] \in Nat /\ seen[p] \in Nat /\ given[p] \in Nat
      /\ Held(pipe, Body(p)) \in Nat /\ Held(buffer, Body(p)) \in Nat
  BY AdapterFacts
<1>2. /\ Held(pipe, Body(p)) + seen[p] <= owed[p]
      /\ Held(buffer, Body(p)) + given[p] <= seen[p]
      /\ ~cut /\ ~shared => /\ Held(pipe, Body(p)) + seen[p] = owed[p]
                            /\ Held(buffer, Body(p)) + given[p] = seen[p]
  BY DEF Flows
<1> QED BY <1>1, <1>2

(* A client connects.                                                      *)
LEMMA AdapterConnects ==
  ASSUME Sorts, Flows, Handlers, NEW c \in Clients, Adapter!Connect(c)
  PROVE  Sorts' /\ Flows' /\ Handlers'
<1>1. /\ link[c] = "none" /\ link' = [link EXCEPT ![c] = "queued"]
      /\ UNCHANGED <<pipe, buffer, server, owed, seen, given, cut, waiter, ready, reader>>
      /\ UNCHANGED <<at, from, turn, shared>>
  BY DEF Adapter!Connect, Adapter!readers, Adapter!handlers
<1>2. Sorts'
  BY <1>1 DEF Sorts
<1>3. link \in [Clients -> {"none", "queued", "served", "closed"}]
  BY DEF Sorts
<1>4. \A h \in Clients : /\ link'[h] = "served" <=> link[h] = "served"
                         /\ link'[h] \in {"none", "queued"} => link[h] \in {"none", "queued"}
  BY <1>1, <1>3
<1>5. Handlers'
  BY <1>1, <1>4, HandlersRest
<1>6. Flows'
  BY <1>1 DEF Flows, Body, Adapter!BodyOf
<1> QED BY <1>2, <1>5, <1>6

(* The sum after an update at one connection.                              *)
LEMMA HeldExcept ==
  ASSUME NEW S, NEW u \in [Clients -> Seq(S)], NEW c \in Clients, NEW s \in Seq(S), NEW x
  PROVE  /\ Held([u EXCEPT ![c] = s], x) = Held(u, x) + Num(s, x) - Num(u[c], x)
         /\ Held([u EXCEPT ![c] = s], x) \in Nat /\ Held(u, x) \in Nat
         /\ Num(s, x) \in Nat /\ Num(u[c], x) \in Nat /\ Num(u[c], x) <= Held(u, x)
<1>1. PICK v : v = [u EXCEPT ![c] = s]
  OBVIOUS
<1>2. v \in [Clients -> Seq(S)] /\ SameBut(u, v, c)
  BY <1>1, OneChanges
<1>3. v[c] = s
  BY <1>1
<1>4. /\ Held(v, x) = Held(u, x) + Num(v[c], x) - Num(u[c], x)
      /\ Held(u, x) \in Nat /\ Held(v, x) \in Nat
      /\ Num(u[c], x) \in Nat /\ Num(v[c], x) \in Nat
      /\ Num(u[c], x) <= Held(u, x)
  BY <1>2, HeldChanges
<1> QED BY <1>1, <1>3, <1>4

(* A prefix holds no more than the whole.                                  *)
LEMMA NumOfPrefix ==
  ASSUME NEW S, NEW s \in Seq(S), NEW t \in Adapter!Prefixes(s), NEW x
  PROVE  t \in Seq(S) /\ Num(t, x) <= Num(s, x) /\ Num(t, x) \in Nat /\ Num(s, x) \in Nat
<1>1. t \in Seq(S) /\ \A i \in 1..Len(t) : t[i] = s[i] /\ i \in 1..Len(s)
  BY PrefixesAre
<1>2. DOMAIN t = 1..Len(t) /\ DOMAIN s = 1..Len(s)
  BY <1>1, LenProperties
<1>3. {i \in DOMAIN t : t[i] = x} \in SUBSET {i \in DOMAIN s : s[i] = x}
  BY <1>1, <1>2
<1>4. IsFiniteSet({i \in DOMAIN s : s[i] = x}) /\ Num(t, x) \in Nat /\ Num(s, x) \in Nat
  BY <1>1, PlacesAreFinite
<1>5. Num(t, x) <= Num(s, x)
  BY <1>3, <1>4, FS_Subset DEF Num
<1> QED BY <1>1, <1>4, <1>5

(* A client disconnects, or its connection breaks.                         *)
LEMMA AdapterLeaves ==
  ASSUME Sorts, Flows, Handlers, NEW c \in Clients, Adapter!Disconnect(c) \/ Adapter!Break(c)
  PROVE  Sorts' /\ Flows' /\ Handlers'
<1>1. /\ UNCHANGED <<link, buffer, server, owed, seen, given, waiter, ready, reader>>
      /\ UNCHANGED <<at, from, turn, shared>>
  BY DEF Adapter!Disconnect, Adapter!Break, Adapter!readers, Adapter!handlers
<1>2. pipe[c] \in Seq(Tokens)
  BY AdapterFacts
<1>3. \E s \in Seq(Tokens) : /\ pipe' = [pipe EXCEPT ![c] = Append(s, Eof)]
                             /\ \A x : Num(s, x) <= Num(pipe[c], x)
                             /\ (cut' = cut /\ s = pipe[c]) \/ cut' = TRUE
  <2>1. CASE Adapter!Disconnect(c)
    <3>1. pipe' = [pipe EXCEPT ![c] = Append(pipe[c], Eof)] /\ cut' = cut
      BY <2>1 DEF Adapter!Disconnect
    <3>2. \A x : Num(pipe[c], x) <= Num(pipe[c], x)
      <4>1. \A x : Num(pipe[c], x) \in Nat
        BY AdapterFacts
      <4> QED BY <4>1
    <3> QED BY <1>2, <3>1, <3>2
  <2>2. CASE Adapter!Break(c)
    <3>1. PICK s \in Adapter!Prefixes(pipe[c]) : pipe' = [pipe EXCEPT ![c] = Append(s, Eof)]
      BY <2>2 DEF Adapter!Break
    <3>2. s \in Seq(Tokens) /\ \A x : Num(s, x) <= Num(pipe[c], x)
      BY <1>2, NumOfPrefix
    <3>3. cut' = TRUE
      BY <2>2 DEF Adapter!Break
    <3> QED BY <3>1, <3>2, <3>3
  <2> QED BY <2>1, <2>2
<1>4. PICK s \in Seq(Tokens) : /\ pipe' = [pipe EXCEPT ![c] = Append(s, Eof)]
                               /\ \A x : Num(s, x) <= Num(pipe[c], x)
                               /\ (cut' = cut /\ s = pipe[c]) \/ cut' = TRUE
  BY <1>3
<1>5. Append(s, Eof) \in Seq(Tokens)
  BY TokensAre, AppendProperties
<1>6. pipe \in [Clients -> Seq(Tokens)] /\ cut \in BOOLEAN
  BY DEF Sorts
<1>7. Sorts'
  <2>1. pipe' \in [Clients -> Seq(Tokens)]
    BY <1>4, <1>5, <1>6
  <2>2. cut' \in BOOLEAN
    BY <1>4, <1>6
  <2> QED BY <1>1, <2>1, <2>2 DEF Sorts
<1>8. ~cut' => ~cut
  BY <1>4
<1>9. Handlers'
  BY <1>1, <1>8, HandlersRest
<1>10. ASSUME NEW p \in Frames
       PROVE  /\ Held(pipe', Body(p)) \in Nat
              /\ Held(pipe', Body(p)) <= Held(pipe, Body(p))
              /\ ~cut' => Held(pipe', Body(p)) = Held(pipe, Body(p))
  <2>1. Num(Append(s, Eof), Body(p)) = Num(s, Body(p)) + 0
    <3>1. Eof # Body(p) /\ Eof \in Tokens
      BY TokensAre
    <3> QED BY <3>1, NumOfParts
  <2>2. /\ Held(pipe', Body(p)) = Held(pipe, Body(p)) + Num(Append(s, Eof), Body(p)) - Num(pipe[c], Body(p))
        /\ Held(pipe', Body(p)) \in Nat /\ Held(pipe, Body(p)) \in Nat
        /\ Num(pipe[c], Body(p)) \in Nat
    BY <1>4, <1>5, <1>6, HeldExcept
  <2>3. Num(s, Body(p)) \in Nat
    BY NumOfParts
  <2>4. Num(s, Body(p)) <= Num(pipe[c], Body(p)) /\ (~cut' => s = pipe[c])
    BY <1>4
  <2> QED BY <2>1, <2>2, <2>3, <2>4
<1>11. \A p \in Frames : Held(buffer', Body(p)) = Held(buffer, Body(p)) /\ Held(buffer, Body(p)) \in Nat
  BY <1>1, AdapterFacts
<1>12. Flows'
  BY <1>1, <1>8, <1>10, <1>11, FlowsEbb
<1> QED BY <1>7, <1>9, <1>12

(* A client writes to a connection that the server closed.                 *)
LEMMA AdapterSendsInVain ==
  ASSUME Sorts, Flows, Handlers, NEW c \in Clients, NEW p \in Frames, Adapter!SendInVain(c, p)
  PROVE  Sorts' /\ Flows' /\ Handlers'
<1>1. /\ UNCHANGED <<link, pipe, buffer, server, seen, given, waiter, ready, reader>>
      /\ UNCHANGED <<at, from, turn, shared>>
      /\ owed[p] = 0 /\ owed' = [owed EXCEPT ![p] = 1] /\ cut' = TRUE
  BY DEF Adapter!SendInVain, Adapter!readers, Adapter!handlers
<1>2. owed \in [Frames -> 0..1] /\ owed' \in [Frames -> 0..1]
  BY <1>1 DEF Sorts
<1>3. Sorts'
  BY <1>1, <1>2 DEF Sorts
<1>4. Handlers'
  BY <1>1, HandlersRest
<1>5. \A q \in Frames :
        /\ Held(pipe', Body(q)) = Held(pipe, Body(q)) /\ Held(pipe, Body(q)) \in Nat
        /\ Held(buffer', Body(q)) = Held(buffer, Body(q))
        /\ owed[q] <= owed'[q] /\ owed[q] \in Nat /\ owed'[q] \in Nat
        /\ seen'[q] = seen[q] /\ given'[q] = given[q] /\ seen[q] \in Nat
  <2>1. \A q \in Frames : owed[q] \in 0..1 /\ owed'[q] = IF q = p THEN 1 ELSE owed[q]
    BY <1>1, <1>2
  <2> QED BY <1>1, <2>1, AdapterFacts
<1>6. ASSUME NEW q \in Frames
      PROVE  /\ Held(pipe', Body(q)) + seen'[q] <= owed'[q]
             /\ Held(buffer', Body(q)) + given'[q] <= seen'[q]
  BY <1>5 DEF Flows
<1>7. Flows'
  BY <1>1, <1>6 DEF Flows, Body, Adapter!BodyOf
<1> QED BY <1>3, <1>4, <1>7

(* A client sends a frame.                                                 *)
LEMMA AdapterSends ==
  ASSUME Sorts, Flows, Handlers, NEW c \in Clients, NEW p \in Frames, Adapter!SendFrame(c, p)
  PROVE  Sorts' /\ Flows' /\ Handlers'
<1>1. /\ UNCHANGED <<link, buffer, server, seen, given, cut, waiter, ready, reader>>
      /\ UNCHANGED <<at, from, turn, shared>> /\ owed[p] = 0 /\ owed' = [owed EXCEPT ![p] = 1]
      /\ pipe' = [pipe EXCEPT ![c] = pipe[c] \o <<Adapter!HeaderOf(p), Body(p)>>]
  BY DEF Adapter!SendFrame, Adapter!readers, Adapter!handlers, Body
<1>2. PICK s : s = <<Adapter!HeaderOf(p), Body(p)>>
  OBVIOUS
<1>3. pipe[c] \in Seq(Tokens) /\ s \in Seq(Tokens)
  BY <1>2, AdapterFacts, TokensAre
<1>4. \A q \in Frames : Num(s, Body(q)) = IF p = q THEN 1 ELSE 0
  <2> TAKE q \in Frames
  <2>1. Adapter!HeaderOf(p) # Body(q) /\ (Body(p) = Body(q) <=> p = q)
    BY TokensAre
  <2>2. {i \in DOMAIN s : s[i] = Body(q)} = IF p = q THEN {2} ELSE {}
    BY <1>2, <2>1
  <2> QED BY <2>2, FS_EmptySet, FS_Singleton DEF Num
<1>5. pipe[c] \o s \in Seq(Tokens)
  BY <1>3, ConcatProperties
<1>6. pipe \in [Clients -> Seq(Tokens)] /\ owed \in [Frames -> 0..1]
  BY DEF Sorts
<1>7. Sorts'
  <2>1. pipe' \in [Clients -> Seq(Tokens)] /\ owed' \in [Frames -> 0..1]
    BY <1>1, <1>2, <1>5, <1>6
  <2> QED BY <1>1, <2>1 DEF Sorts
<1>8. Handlers'
  BY <1>1, HandlersRest
<1>9. ASSUME NEW q \in Frames
      PROVE  /\ Held(pipe', Body(q)) + seen'[q] <= owed'[q]
             /\ Held(buffer', Body(q)) + given'[q] <= seen'[q]
             /\ ~cut' /\ ~shared' => /\ Held(pipe', Body(q)) + seen'[q] = owed'[q]
                                     /\ Held(buffer', Body(q)) + given'[q] = seen'[q]
  <2>1. pipe' = [pipe EXCEPT ![c] = pipe[c] \o s]
    BY <1>1, <1>2
  <2>2. /\ Held(pipe', Body(q)) = Held(pipe, Body(q)) + Num(pipe[c] \o s, Body(q)) - Num(pipe[c], Body(q))
        /\ Held(pipe, Body(q)) \in Nat /\ Num(pipe[c], Body(q)) \in Nat
    BY <2>1, <1>5, <1>6, HeldExcept
  <2>3. Num(pipe[c] \o s, Body(q)) = Num(pipe[c], Body(q)) + IF p = q THEN 1 ELSE 0
    BY <1>3, <1>4, NumOfConcat
  <2>4. owed'[q] = owed[q] + IF p = q THEN 1 ELSE 0
    BY <1>1, <1>6
  <2>5. owed[q] \in Nat /\ seen[q] \in Nat
    BY AdapterFacts
  <2>6. Held(pipe', Body(q)) = Held(pipe, Body(q)) + IF p = q THEN 1 ELSE 0
    BY <2>2, <2>3
  <2>7. /\ Held(pipe, Body(q)) + seen[q] <= owed[q]
        /\ Held(buffer, Body(q)) + given[q] <= seen[q]
        /\ ~cut /\ ~shared => /\ Held(pipe, Body(q)) + seen[q] = owed[q]
                              /\ Held(buffer, Body(q)) + given[q] = seen[q]
    BY DEF Flows
  <2>8. UNCHANGED <<buffer, seen, given, cut, shared>>
    BY <1>1
  <2> QED BY <2>2, <2>4, <2>5, <2>6, <2>7, <2>8
<1>10. Flows'
  BY <1>9 DEF Flows, Body, Adapter!BodyOf
<1> QED BY <1>7, <1>8, <1>10

(* Something comes to a reader: who waits there is woken.                   *)
LEMMA FeedIs ==
  ASSUME Sorts, NEW c \in Clients, NEW token \in Tokens, Adapter!Feed(c, token)
  PROVE  /\ buffer' \in [Clients -> Seq(Tokens)]
         /\ waiter' \in [Clients -> Clients \cup {NoOne}] /\ ready' \subseteq Clients
         /\ \A p \in Frames : Held(buffer', Body(p))
                                = Held(buffer, Body(p)) + IF token = Body(p) THEN 1 ELSE 0
<1>1. /\ buffer' = [buffer EXCEPT ![c] = Append(buffer[c], token)]
      /\ ready' = ready \cup ({waiter[c]} \ {NoOne})
      /\ waiter' = [waiter EXCEPT ![c] = NoOne]
  BY DEF Adapter!Feed
<1>2. /\ buffer \in [Clients -> Seq(Tokens)] /\ buffer[c] \in Seq(Tokens)
      /\ waiter \in [Clients -> Clients \cup {NoOne}] /\ ready \subseteq Clients
  BY DEF Sorts
<1>3. Append(buffer[c], token) \in Seq(Tokens)
  BY <1>2, AppendProperties
<1>4. ASSUME NEW p \in Frames
      PROVE  Held(buffer', Body(p)) = Held(buffer, Body(p)) + IF token = Body(p) THEN 1 ELSE 0
  <2>1. /\ Held(buffer', Body(p)) = Held(buffer, Body(p)) + Num(Append(buffer[c], token), Body(p))
                                      - Num(buffer[c], Body(p))
        /\ Held(buffer, Body(p)) \in Nat /\ Num(buffer[c], Body(p)) \in Nat
    BY <1>1, <1>2, <1>3, HeldExcept
  <2>2. Num(Append(buffer[c], token), Body(p)) = Num(buffer[c], Body(p)) + IF token = Body(p) THEN 1 ELSE 0
    BY <1>2, NumOfParts
  <2> QED BY <2>1, <2>2
<1>5. buffer' \in [Clients -> Seq(Tokens)]
  BY <1>1, <1>2, <1>3
<1> QED BY <1>1, <1>2, <1>4, <1>5

(* A reader that is fed wakes the handler that waits there.                *)
LEMMA FeedWakes ==
  ASSUME Sorts, Handlers, NEW c \in Clients, NEW token, Adapter!Feed(c, token), turn = NoOne,
         UNCHANGED <<link, at, from, turn, shared, reader>>, ~cut' => ~cut
  PROVE  Handlers'
<1>1. /\ ready' = ready \cup ({waiter[c]} \ {NoOne})
      /\ waiter' = [waiter EXCEPT ![c] = NoOne]
      /\ waiter \in [Clients -> Clients \cup {NoOne}] /\ ready \subseteq Clients
  BY DEF Adapter!Feed, Sorts
<1>2. \A h \in Clients : Busy(h)' <=> Busy(h)
  BY DEF Busy
<1>3. ASSUME NEW h \in Clients
      PROVE  /\ turn' = h => Busy(h) /\ h \notin ready'
             /\ h \in ready' => Busy(h)
             /\ \A r \in Clients : waiter'[r] = h =>
                  Busy(h) /\ h \notin ready' /\ turn' # h /\ from'[h] = r
             /\ link'[h] \in {"none", "queued"} => at'[h] = "header" /\ from'[h] = h
  <2>1. /\ turn = h => Busy(h) /\ h \notin ready
        /\ h \in ready => Busy(h)
        /\ \A r \in Clients : waiter[r] = h => Busy(h) /\ h \notin ready /\ turn # h /\ from[h] = r
        /\ link[h] \in {"none", "queued"} => at[h] = "header" /\ from[h] = h
    BY DEF Handlers, OneThing
  <2>2. h # NoOne
    BY NullsAssumption
  <2>3. h \in ready' => Busy(h)
    BY <1>1, <2>1
  <2>4. ASSUME NEW r \in Clients, waiter'[r] = h
        PROVE  Busy(h) /\ h \notin ready' /\ turn' # h /\ from'[h] = r
    <3>1. r # c /\ waiter[r] = h
      BY <1>1, <2>2, <2>4
    <3>2. waiter[c] # h
      BY <2>1, <3>1
    <3> QED BY <1>1, <2>1, <3>1, <3>2
  <2>5. turn' # h
    BY <2>2
  <2> QED BY <2>1, <2>3, <2>4, <2>5
<1>4. OneThing'
  BY <1>2, <1>3 DEF OneThing
<1>5. ~shared => Alone'
  BY DEF Handlers, Alone
<1>6. ASSUME ~cut', ~shared', NEW h \in Clients, link'[h] = "served"
      PROVE  turn' = h \/ h \in ready' \/ at'[h] = "callback" \/ waiter'[h] = h
  <2>1. turn = h \/ h \in ready \/ at[h] = "callback" \/ waiter[h] = h
    BY <1>6 DEF Handlers, Attended
  <2>2. h # NoOne
    BY NullsAssumption
  <2> QED BY <1>1, <2>1, <2>2
<1>7. ~cut' /\ ~shared' => Attended'
  BY <1>6 DEF Attended
<1>8. Readable'
  BY DEF Handlers, Readable
<1> QED BY <1>4, <1>5, <1>7, <1>8 DEF Handlers

(* Something arrives at the reader of a connection.                        *)
LEMMA AdapterArrives ==
  ASSUME Sorts, Flows, Handlers, NEW c \in Clients, Adapter!Arrive(c)
  PROVE  Sorts' /\ Flows' /\ Handlers'
<1>1. /\ pipe[c] # << >> /\ pipe' = [pipe EXCEPT ![c] = Tail(pipe[c])]
      /\ Adapter!Feed(c, Head(pipe[c])) /\ turn = NoOne
      /\ seen' = [p \in Frames |-> seen[p] + IF Head(pipe[c]) = Body(p) THEN 1 ELSE 0]
      /\ UNCHANGED <<link, server, owed, given, cut, reader, at, from, turn, shared>>
  BY DEF Adapter!Arrive, Adapter!handlers, Body
<1>2. PICK token : token = Head(pipe[c])
  OBVIOUS
<1>3. pipe[c] \in Seq(Tokens) /\ pipe \in [Clients -> Seq(Tokens)] /\ seen \in [Frames -> Nat]
  BY DEF Sorts
<1>4. Tail(pipe[c]) \in Seq(Tokens) /\ token \in Tokens
  BY <1>1, <1>2, <1>3, HeadTailProperties
<1>5. Adapter!Feed(c, token)
  BY <1>1, <1>2
<1>6. /\ buffer' \in [Clients -> Seq(Tokens)]
      /\ waiter' \in [Clients -> Clients \cup {NoOne}] /\ ready' \subseteq Clients
      /\ \A p \in Frames : Held(buffer', Body(p))
                             = Held(buffer, Body(p)) + IF token = Body(p) THEN 1 ELSE 0
  BY <1>4, <1>5, FeedIs
<1>7. Handlers'
  BY <1>1, <1>5, FeedWakes
<1>8. Sorts'
  <2>1. pipe' \in [Clients -> Seq(Tokens)] /\ seen' \in [Frames -> Nat]
    BY <1>1, <1>3, <1>4
  <2> QED BY <1>1, <1>6, <2>1 DEF Sorts
<1>9. ASSUME NEW p \in Frames
      PROVE  /\ Held(pipe', Body(p)) + seen'[p] <= owed'[p]
             /\ Held(buffer', Body(p)) + given'[p] <= seen'[p]
             /\ ~cut' /\ ~shared' => /\ Held(pipe', Body(p)) + seen'[p] = owed'[p]
                                     /\ Held(buffer', Body(p)) + given'[p] = seen'[p]
  <2>1. /\ Held(pipe', Body(p)) = Held(pipe, Body(p)) + Num(Tail(pipe[c]), Body(p)) - Num(pipe[c], Body(p))
        /\ Held(pipe, Body(p)) \in Nat /\ Num(Tail(pipe[c]), Body(p)) \in Nat
    BY <1>1, <1>3, <1>4, HeldExcept
  <2>2. Num(pipe[c], Body(p)) = (IF token = Body(p) THEN 1 ELSE 0) + Num(Tail(pipe[c]), Body(p))
    BY <1>1, <1>2, <1>3, NumOfParts
  <2>3. seen'[p] = seen[p] + IF token = Body(p) THEN 1 ELSE 0
    BY <1>1, <1>2
  <2>4. /\ owed[p] \in Nat /\ seen[p] \in Nat /\ given[p] \in Nat
        /\ Held(buffer, Body(p)) \in Nat
    BY AdapterFacts
  <2>5. /\ Held(pipe, Body(p)) + seen[p] <= owed[p]
        /\ Held(buffer, Body(p)) + given[p] <= seen[p]
        /\ ~cut /\ ~shared => /\ Held(pipe, Body(p)) + seen[p] = owed[p]
                              /\ Held(buffer, Body(p)) + given[p] = seen[p]
    BY DEF Flows
  <2>6. UNCHANGED <<owed, given, cut, shared>>
    BY <1>1
  <2>7. Held(buffer', Body(p)) = Held(buffer, Body(p)) + IF token = Body(p) THEN 1 ELSE 0
    BY <1>6
  <2> QED BY <2>1, <2>2, <2>3, <2>4, <2>5, <2>6, <2>7
<1>10. Flows'
  BY <1>9 DEF Flows, Body, Adapter!BodyOf
<1> QED BY <1>7, <1>8, <1>10

(* The handler of a connection starts.                                     *)
LEMMA AdapterStarts ==
  ASSUME Sorts, Flows, Handlers, NEW c \in Clients, Adapter!Start(c)
  PROVE  Sorts' /\ Flows' /\ Handlers'
<1>1. /\ turn = NoOne /\ link[c] = "queued" /\ link' = [link EXCEPT ![c] = "served"]
      /\ reader' = c /\ turn' = c
      /\ shared' = (shared \/ \E d \in Clients : link[d] = "served")
      /\ UNCHANGED <<pipe, server, owed, seen, given, cut, at, from, buffer, waiter, ready>>
  BY DEF Adapter!Start, Adapter!readers
<1>2. link \in [Clients -> {"none", "queued", "served", "closed"}] /\ shared \in BOOLEAN
  BY DEF Sorts
<1>3. link'[c] = "served" /\ \A h \in Clients : h # c => link'[h] = link[h]
  BY <1>1, <1>2
<1>4. Sorts'
  <2>1. link' \in [Clients -> {"none", "queued", "served", "closed"}] /\ shared' \in BOOLEAN
    BY <1>1, <1>2
  <2> QED BY <1>1, <2>1 DEF Sorts
<1>5. Flows'
  BY <1>1 DEF Flows, Body, Adapter!BodyOf
<1>6. at[c] = "header" /\ from[c] = c /\ ~Busy(c)
  BY <1>1 DEF Handlers, OneThing, Busy
<1>7. c \notin ready /\ \A r \in Clients : waiter[r] # c
  BY <1>6 DEF Handlers, OneThing
<1>8. \A h \in Clients : Busy(h)' <=> Busy(h) \/ h = c
  BY <1>1, <1>3, <1>6 DEF Busy
<1>9. ASSUME NEW h \in Clients
      PROVE  /\ turn' = h => Busy(h)' /\ h \notin ready'
             /\ h \in ready' => Busy(h)'
             /\ \A r \in Clients : waiter'[r] = h =>
                  Busy(h)' /\ h \notin ready' /\ turn' # h /\ from'[h] = r
             /\ link'[h] \in {"none", "queued"} => at'[h] = "header" /\ from'[h] = h
  <2>1. /\ h \in ready => Busy(h)
        /\ \A r \in Clients : waiter[r] = h => Busy(h) /\ h \notin ready /\ turn # h /\ from[h] = r
        /\ link[h] \in {"none", "queued"} => at[h] = "header" /\ from[h] = h
    BY DEF Handlers, OneThing
  <2> QED BY <1>1, <1>3, <1>7, <1>8, <2>1
<1>10. OneThing'
  BY <1>9 DEF OneThing
<1>11. ASSUME ~shared' PROVE Alone' /\ Attended'
  <2>1. \A d \in Clients : link'[d] = "served" => d = c
    BY <1>1, <1>3, <1>11
  <2> QED BY <1>1, <1>6, <2>1 DEF Alone, Attended
<1>12. Readable'
  BY <1>1 DEF Readable
<1> QED BY <1>4, <1>5, <1>10, <1>11, <1>12 DEF Handlers

(* What a closed connection carried is lost.                                *)
Emptied(c) == pipe' = [pipe EXCEPT ![c] = << >>]
OnlyEof(s) == \A x \in Range(s) : x = Eof

(* What a closed connection carried is lost.                               *)
LEMMA PipeIsEmptied ==
  ASSUME Sorts, NEW c \in Clients, Emptied(c), ~cut' => OnlyEof(pipe[c])
  PROVE  /\ pipe' \in [Clients -> Seq(Tokens)]
         /\ \A p \in Frames : /\ Held(pipe', Body(p)) \in Nat
                              /\ Held(pipe', Body(p)) <= Held(pipe, Body(p))
                              /\ ~cut' => Held(pipe', Body(p)) = Held(pipe, Body(p))
<1>1. PICK s : s = << >>
  OBVIOUS
<1>2. pipe \in [Clients -> Seq(Tokens)] /\ pipe[c] \in Seq(Tokens)
  BY DEF Sorts
<1>3. s \in Seq(Tokens) /\ pipe' = [pipe EXCEPT ![c] = s]
  BY <1>1 DEF Emptied
<1>4. ASSUME NEW p \in Frames
      PROVE  /\ Held(pipe', Body(p)) \in Nat
             /\ Held(pipe', Body(p)) <= Held(pipe, Body(p))
             /\ ~cut' => Held(pipe', Body(p)) = Held(pipe, Body(p))
  <2>1. /\ Held(pipe', Body(p)) = Held(pipe, Body(p)) + Num(s, Body(p)) - Num(pipe[c], Body(p))
        /\ Held(pipe', Body(p)) \in Nat /\ Held(pipe, Body(p)) \in Nat
        /\ Num(pipe[c], Body(p)) \in Nat
    BY <1>2, <1>3, HeldExcept
  <2>2. Num(s, Body(p)) = 0
    BY <1>1, NumOfFew
  <2>3. ~cut' => Num(pipe[c], Body(p)) = 0
    <3>1. Body(p) # Eof
      BY TokensAre
    <3>2. ~cut' => Body(p) \notin Range(pipe[c])
      BY <3>1 DEF OnlyEof
    <3> QED BY <1>2, <3>2, NumOfParts
  <2> QED BY <2>1, <2>2, <2>3
<1> QED BY <1>2, <1>3, <1>4

(* The adapter is closed.                                                  *)
LEMMA AdapterCloses ==
  ASSUME Sorts, Flows, Handlers, Adapter!Close \/ Adapter!Closed
  PROVE  Sorts' /\ Flows' /\ Handlers'
<1>1. ASSUME UNCHANGED <<link, pipe, owed, seen, given, cut, reader, buffer, waiter, ready>>,
             UNCHANGED <<at, from, turn, shared>>, server' = "down"
      PROVE  Sorts' /\ Flows' /\ Handlers'
  <2>1. Sorts'
    BY <1>1 DEF Sorts
  <2>2. Flows'
    BY <1>1 DEF Flows, Body, Adapter!BodyOf
  <2>3. Handlers'
    BY <1>1, HandlersRest
  <2> QED BY <2>1, <2>2, <2>3
<1>2. CASE Adapter!Closed
  BY <1>1, <1>2 DEF Adapter!Closed, Adapter!readers, Adapter!handlers
<1>3. CASE Adapter!Close
  <2>1. CASE reader = NoOne
    BY <1>1, <1>3, <2>1 DEF Adapter!Close, Adapter!readers, Adapter!handlers
  <2>2. CASE reader # NoOne
    <3>1. PICK c \in Clients : c = reader
      BY <2>2 DEF Sorts
    <3>2. /\ turn = NoOne /\ server' = "closing" /\ Adapter!CloseWriter(c)
          /\ UNCHANGED <<link, owed, seen, given, reader, at, from, turn, shared>>
      BY <1>3, <2>2, <3>1 DEF Adapter!Close, Adapter!handlers
    <3>3. /\ Emptied(c)
          /\ cut' = (cut \/ (Range(pipe[c]) \cup Range(buffer[c])) \ {Eof} # {})
          /\ Adapter!Feed(c, Eof) \/ UNCHANGED <<buffer, waiter, ready>>
      BY <3>2, TokensAre DEF Adapter!CloseWriter, Adapter!readers, Emptied
    <3>4. (~cut' => ~cut /\ OnlyEof(pipe[c])) /\ cut' \in BOOLEAN
      BY <3>3 DEF Sorts, OnlyEof
    <3>5. /\ pipe' \in [Clients -> Seq(Tokens)]
          /\ \A p \in Frames : /\ Held(pipe', Body(p)) \in Nat
                               /\ Held(pipe', Body(p)) <= Held(pipe, Body(p))
                               /\ ~cut' => Held(pipe', Body(p)) = Held(pipe, Body(p))
      BY <3>3, <3>4, PipeIsEmptied
    <3>6. /\ buffer' \in [Clients -> Seq(Tokens)]
          /\ waiter' \in [Clients -> Clients \cup {NoOne}] /\ ready' \subseteq Clients
          /\ \A p \in Frames : Held(buffer', Body(p)) = Held(buffer, Body(p))
      <4>1. CASE UNCHANGED <<buffer, waiter, ready>>
        BY <4>1 DEF Sorts
      <4>2. CASE Adapter!Feed(c, Eof)
        <5>1. Eof \in Tokens /\ \A p \in Frames : Eof # Body(p)
          BY TokensAre
        <5>2. \A p \in Frames : Held(buffer, Body(p)) + 0 = Held(buffer, Body(p))
          BY AdapterFacts
        <5>3. /\ buffer' \in [Clients -> Seq(Tokens)]
              /\ waiter' \in [Clients -> Clients \cup {NoOne}] /\ ready' \subseteq Clients
              /\ \A p \in Frames : Held(buffer', Body(p))
                                     = Held(buffer, Body(p)) + IF Eof = Body(p) THEN 1 ELSE 0
          BY <4>2, <5>1, FeedIs
        <5> QED BY <5>1, <5>2, <5>3
      <4> QED BY <3>3, <4>1, <4>2
    <3>7. Sorts'
      BY <3>2, <3>4, <3>5, <3>6 DEF Sorts
    <3>8. Handlers'
      BY <3>2, <3>3, <3>4, FeedWakes, HandlersRest
    <3>9. \A p \in Frames : Held(buffer, Body(p)) \in Nat
      BY AdapterFacts
    <3>10. Flows'
      BY <3>2, <3>4, <3>5, <3>6, <3>9, FlowsEbb
    <3> QED BY <3>7, <3>8, <3>10
  <2> QED BY <2>1, <2>2
<1> QED BY <1>2, <1>3

(* A handler ends, and leaves something in the reader it read from.         *)
Spills(h, rest) ==
  /\ rest \in Seq(Tokens)
  /\ \A p \in Frames : Num(rest, Body(p)) <= Num(buffer[from[h]], Body(p))
  /\ OnlyEof(rest) => \A p \in Frames : Num(rest, Body(p)) = Num(buffer[from[h]], Body(p))
Wakes(h, waiters, awake) ==
  \/ waiter' = waiters /\ ready' = awake
  \/ /\ waiter' = [waiters EXCEPT ![h] = NoOne]
     /\ ready' = awake \cup ({waiters[h]} \ {NoOne})
Sleepers(h, waiters, awake) ==
  /\ waiters \in [Clients -> Clients \cup {NoOne}] /\ awake \subseteq ready
  /\ h \notin awake
  /\ \A r \in Clients : waiters[r] \in {waiter[r], NoOne} /\ waiters[r] # h

Leaving(h, rest, waiters, awake) ==
  /\ link[h] = "served" /\ Spills(h, rest) /\ Sleepers(h, waiters, awake)
  /\ Adapter!Ends(h, rest, waiters, awake) /\ UNCHANGED <<server, owed, seen, reader, shared>>

Queues == [Clients -> Seq(Tokens)]
(* When one queue changes, the sum changes by as much.                     *)
LEMMA QueueChanges ==
  ASSUME NEW u \in Queues, NEW v \in Queues, NEW c \in Clients, SameBut(u, v, c), NEW x
  PROVE  /\ Held(v, x) = Held(u, x) + Num(v[c], x) - Num(u[c], x)
         /\ Held(u, x) \in Nat /\ Held(v, x) \in Nat
         /\ Num(u[c], x) \in Nat /\ Num(v[c], x) \in Nat
BY HeldChanges DEF Queues

(* A handler that ends hands nothing over and doubles nothing.             *)
LEMMA EndsFlow ==
  ASSUME Sorts, Flows, Handlers, NEW h \in Clients, NEW rest, NEW waiters, NEW awake,
         Leaving(h, rest, waiters, awake)
  PROVE  Sorts' /\ Flows' /\ Wakes(h, waiters, awake)
<1>1. PICK left : left = [buffer EXCEPT ![from[h]] = rest]
  OBVIOUS
<1>2. /\ link' = [link EXCEPT ![h] = "closed"] /\ turn' = NoOne /\ Emptied(h)
      /\ cut' = (cut \/ (Range(pipe[h]) \cup Range(left[h])) \ {Eof} # {})
      /\ buffer' = left \/ buffer' = [left EXCEPT ![h] = Append(left[h], Eof)]
      /\ Wakes(h, waiters, awake) /\ UNCHANGED <<at, from, given, server, owed, seen, reader, shared>>
  BY <1>1, TokensAre DEF Adapter!Ends, Emptied, Wakes, Leaving
<1>3. /\ from[h] \in Clients /\ buffer \in [Clients -> Seq(Tokens)] /\ rest \in Seq(Tokens)
      /\ ready \subseteq Clients /\ cut \in BOOLEAN
  BY DEF Sorts, Spills, Leaving
<1>4. left \in [Clients -> Seq(Tokens)]
  BY <1>1, <1>3
<1>5. ~cut' => ~cut /\ OnlyEof(pipe[h]) /\ OnlyEof(left[h])
  BY <1>2 DEF OnlyEof
<1>6. /\ pipe' \in [Clients -> Seq(Tokens)]
      /\ \A p \in Frames : /\ Held(pipe', Body(p)) \in Nat
                           /\ Held(pipe', Body(p)) <= Held(pipe, Body(p))
                           /\ ~cut' => Held(pipe', Body(p)) = Held(pipe, Body(p))
  BY <1>2, <1>5, PipeIsEmptied
<1>7. ~cut' /\ ~shared => OnlyEof(rest)
  <2>1. ~shared => from[h] = h
    BY DEF Handlers, Alone, Leaving
  <2>2. ~shared => left[h] = rest
    BY <1>1, <1>3, <2>1
  <2> QED BY <1>5, <2>2
<1>8. ASSUME NEW p \in Frames
      PROVE  /\ Held(left, Body(p)) \in Nat
             /\ Held(left, Body(p)) <= Held(buffer, Body(p))
             /\ ~cut' /\ ~shared' => Held(left, Body(p)) = Held(buffer, Body(p))
  <2>1. /\ Held(left, Body(p)) = Held(buffer, Body(p)) + Num(rest, Body(p)) - Num(buffer[from[h]], Body(p))
        /\ Held(left, Body(p)) \in Nat /\ Held(buffer, Body(p)) \in Nat
        /\ Num(rest, Body(p)) \in Nat /\ Num(buffer[from[h]], Body(p)) \in Nat
    <3>1. PICK r \in Clients : r = from[h]
      BY <1>3
    <3>2. left = [buffer EXCEPT ![r] = rest]
      BY <1>1, <3>1
    <3>3. /\ Held(left, Body(p)) = Held(buffer, Body(p)) + Num(rest, Body(p)) - Num(buffer[r], Body(p))
          /\ Held(left, Body(p)) \in Nat /\ Held(buffer, Body(p)) \in Nat
          /\ Num(rest, Body(p)) \in Nat /\ Num(buffer[r], Body(p)) \in Nat
      <4>1. buffer \in Queues /\ left \in Queues /\ SameBut(buffer, left, r)
        BY <1>3, <3>2, OneChanges DEF Queues
      <4>2. /\ Held(left, Body(p)) = Held(buffer, Body(p)) + Num(left[r], Body(p)) - Num(buffer[r], Body(p))
            /\ Held(left, Body(p)) \in Nat /\ Held(buffer, Body(p)) \in Nat
            /\ Num(left[r], Body(p)) \in Nat /\ Num(buffer[r], Body(p)) \in Nat
        BY <4>1, QueueChanges
      <4>3. left[r] = rest
        BY <1>3, <3>2
      <4> QED BY <4>2, <4>3
    <3> QED BY <3>1, <3>3
  <2>2. /\ Num(rest, Body(p)) <= Num(buffer[from[h]], Body(p))
        /\ ~cut' /\ ~shared' => Num(rest, Body(p)) = Num(buffer[from[h]], Body(p))
    BY <1>2, <1>7 DEF Spills, Leaving
  <2> QED BY <2>1, <2>2
<1>9. left[h] \in Seq(Tokens) /\ Append(left[h], Eof) \in Seq(Tokens)
  BY <1>4, TokensAre, AppendProperties
<1>10. buffer' \in [Clients -> Seq(Tokens)]
  BY <1>2, <1>4, <1>9
<1>11. ASSUME NEW p \in Frames PROVE Held(buffer', Body(p)) = Held(left, Body(p))
  <2>1. CASE buffer' = left
    BY <2>1
  <2>2. CASE buffer' = [left EXCEPT ![h] = Append(left[h], Eof)]
    <3>1. /\ Held(buffer', Body(p)) = Held(left, Body(p)) + Num(Append(left[h], Eof), Body(p))
                                        - Num(left[h], Body(p))
          /\ Held(left, Body(p)) \in Nat /\ Num(left[h], Body(p)) \in Nat
      BY <2>2, <1>4, <1>9, HeldExcept
    <3>2. Num(Append(left[h], Eof), Body(p)) = Num(left[h], Body(p)) + 0
      <4>1. Eof # Body(p) /\ Eof \in Tokens
        BY TokensAre
      <4> QED BY <4>1, <1>9, NumOfParts
    <3> QED BY <3>1, <3>2
  <2> QED BY <1>2, <2>1, <2>2
<1>12. waiter' \in [Clients -> Clients \cup {NoOne}] /\ ready' \subseteq Clients
  <2>1. waiters \in [Clients -> Clients \cup {NoOne}] /\ awake \subseteq ready
    BY DEF Sleepers, Leaving
  <2>2. CASE waiter' = waiters /\ ready' = awake
    BY <1>3, <2>1, <2>2
  <2>3. CASE /\ waiter' = [waiters EXCEPT ![h] = NoOne]
             /\ ready' = awake \cup ({waiters[h]} \ {NoOne})
    <3>1. waiter' \in [Clients -> Clients \cup {NoOne}]
      BY <2>1, <2>3
    <3>2. waiters[h] \in Clients \cup {NoOne}
      BY <2>1
    <3>3. ready' \subseteq Clients
      BY <1>3, <2>1, <2>3, <3>2
    <3> QED BY <3>1, <3>3
  <2> QED BY <1>2, <2>2, <2>3 DEF Wakes
<1>13. Sorts'
  <2>1. link' \in [Clients -> {"none", "queued", "served", "closed"}] /\ cut' \in BOOLEAN
    BY <1>2, <1>3 DEF Sorts
  <2> QED BY <1>2, <1>6, <1>10, <1>12, <2>1 DEF Sorts
<1>14. Flows'
  <2>1. \A p \in Frames : /\ Held(pipe', Body(p)) \in Nat /\ Held(buffer', Body(p)) \in Nat
                          /\ Held(pipe', Body(p)) <= Held(pipe, Body(p))
                          /\ Held(buffer', Body(p)) <= Held(buffer, Body(p))
                          /\ ~cut' /\ ~shared' => /\ Held(pipe', Body(p)) = Held(pipe, Body(p))
                                                  /\ Held(buffer', Body(p)) = Held(buffer, Body(p))
    BY <1>6, <1>8, <1>11
  <2>2. UNCHANGED <<owed, seen, given, shared>>
    BY <1>2
  <2> QED BY <1>5, <2>1, <2>2, FlowsEbb
<1> QED BY <1>2, <1>13, <1>14

(* No other handler is disturbed by one that ends.                         *)
LEMMA EndsHandling ==
  ASSUME Sorts, Handlers, NEW h \in Clients, NEW waiters, NEW awake, link[h] = "served",
         Sleepers(h, waiters, awake), Wakes(h, waiters, awake),
         link' = [link EXCEPT ![h] = "closed"], turn' = NoOne, ~cut' => ~cut,
         UNCHANGED <<at, from, reader, shared>>
  PROVE  Handlers'
<1>1. link'[h] = "closed" /\ \A g \in Clients : g # h => link'[g] = link[g]
  BY DEF Sorts
<1>2. \A g \in Clients : Busy(g)' <=> Busy(g) /\ g # h
  BY <1>1 DEF Busy
<1>3. ASSUME NEW g \in Clients
      PROVE  /\ turn' = g => Busy(g)' /\ g \notin ready'
             /\ g \in ready' => Busy(g)'
             /\ \A r \in Clients : waiter'[r] = g =>
                  Busy(g)' /\ g \notin ready' /\ turn' # g /\ from'[g] = r
             /\ link'[g] \in {"none", "queued"} => at'[g] = "header" /\ from'[g] = g
  <2>1. /\ g \in ready => Busy(g)
        /\ \A r \in Clients : waiter[r] = g => Busy(g) /\ g \notin ready /\ turn # g /\ from[g] = r
        /\ link[g] \in {"none", "queued"} => at[g] = "header" /\ from[g] = g
    BY DEF Handlers, OneThing
  <2>2. g # NoOne
    BY NullsAssumption
  <2>3. /\ awake \subseteq ready /\ h \notin awake
        /\ \A r \in Clients : waiters[r] = g => waiter[r] = g /\ g # h
    BY <2>2 DEF Sleepers
  <2>4. g \in ready' => g \in awake \/ g = waiters[h]
    BY DEF Wakes
  <2>5. g \in ready' => Busy(g)'
    BY <1>2, <2>1, <2>3, <2>4
  <2>6. ASSUME NEW r \in Clients, waiter'[r] = g
        PROVE  Busy(g)' /\ g \notin ready' /\ turn' # g /\ from'[g] = r
    <3>1. waiters \in [Clients -> Clients \cup {NoOne}]
      BY DEF Sleepers
    <3>2. waiters[r] = g /\ (g \in ready' => g \in awake \/ (g = waiters[h] /\ r # h))
      BY <3>1, <2>2, <2>6 DEF Wakes
    <3>3. waiter[r] = g /\ g # h /\ Busy(g) /\ g \notin ready /\ from[g] = r
      BY <2>1, <2>3, <3>2
    <3>4. g = waiters[h] => r = h
      BY <2>1, <2>3, <3>3
    <3>5. g \notin ready'
      BY <2>3, <3>2, <3>3, <3>4
    <3> QED BY <1>2, <2>2, <3>3, <3>5
  <2> QED BY <1>1, <2>1, <2>2, <2>5, <2>6
<1>4. OneThing'
  BY <1>3 DEF OneThing
<1>5. ~shared' => Alone'
  BY <1>1 DEF Handlers, Alone
<1>6. ~shared' => \A g \in Clients : link'[g] # "served"
  BY <1>1 DEF Handlers, Alone
<1>7. ~cut' /\ ~shared' => Attended'
  BY <1>6 DEF Attended
<1>8. Readable'
  BY <1>1 DEF Handlers, Readable
<1> QED BY <1>4, <1>5, <1>7, <1>8 DEF Handlers

(* A handler ends, with what it leaves behind.                             *)
LEMMA HandlerEnds ==
  ASSUME Sorts, Flows, Handlers, NEW h \in Clients, NEW rest, NEW waiters, NEW awake,
         Leaving(h, rest, waiters, awake)
  PROVE  Sorts' /\ Flows' /\ Handlers'
<1>1. Sorts' /\ Flows' /\ Wakes(h, waiters, awake)
  BY EndsFlow
<1>2. /\ link' = [link EXCEPT ![h] = "closed"] /\ turn' = NoOne
      /\ UNCHANGED <<at, from, reader, shared>> /\ (~cut' => ~cut)
      /\ link[h] = "served" /\ Sleepers(h, waiters, awake)
  BY DEF Adapter!Ends, Leaving
<1>3. Handlers'
  BY <1>1, <1>2, EndsHandling
<1> QED BY <1>1, <1>3

(* A handler goes on: it runs, or is in its callback.                       *)
GoesOn(h, waiters, awake) ==
  /\ \E place \in {"header", "body", "torn", "callback"} :
       /\ at' = [at EXCEPT ![h] = place]
       /\ turn' = IF place = "callback" THEN NoOne ELSE h
  /\ from' = from \/ from' = [from EXCEPT ![h] = reader]
  /\ waiter' = waiters /\ ready' = awake
  /\ UNCHANGED <<link, pipe, cut, server, owed, seen, reader, shared>>

(* A handler goes on to its next read, or to its callback.                 *)
LEMMA HandlerGoesOn ==
  ASSUME Sorts, Handlers, NEW h \in Clients, NEW waiters, NEW awake,
         link[h] = "served", Sleepers(h, waiters, awake), GoesOn(h, waiters, awake)
  PROVE  /\ Handlers'
         /\ at' \in [Clients -> {"header", "body", "torn", "callback"}]
         /\ from' \in [Clients -> Clients] /\ turn' \in Clients \cup {NoOne}
         /\ waiter' \in [Clients -> Clients \cup {NoOne}] /\ ready' \subseteq Clients
<1>1. PICK place \in {"header", "body", "torn", "callback"} :
        /\ at' = [at EXCEPT ![h] = place]
        /\ turn' = IF place = "callback" THEN NoOne ELSE h
  BY DEF GoesOn
<1>2. /\ from' = from \/ from' = [from EXCEPT ![h] = reader]
      /\ waiter' = waiters /\ ready' = awake
      /\ UNCHANGED <<link, cut, reader, shared>>
  BY DEF GoesOn
<1>3. /\ at \in [Clients -> {"header", "body", "torn", "callback"}] /\ ready \subseteq Clients
      /\ from \in [Clients -> Clients] /\ reader \in Clients
  BY DEF Sorts, Handlers, Readable
<1>4. /\ waiters \in [Clients -> Clients \cup {NoOne}] /\ awake \subseteq ready /\ h \notin awake
      /\ \A r \in Clients : waiters[r] \in {waiter[r], NoOne} /\ waiters[r] # h
  BY DEF Sleepers
<1>5. at'[h] = place /\ \A g \in Clients : g # h => at'[g] = at[g] /\ from'[g] = from[g]
  BY <1>1, <1>2, <1>3
<1>6. from'[h] \in {from[h], reader}
  BY <1>2, <1>3
<1>7. \A g \in Clients : g # h => (Busy(g)' <=> Busy(g))
  BY <1>2, <1>5 DEF Busy
<1>8. place # "callback" => Busy(h)'
  BY <1>2, <1>5 DEF Busy
<1>9. ASSUME NEW g \in Clients
      PROVE  /\ turn' = g => Busy(g)' /\ g \notin ready'
             /\ g \in ready' => Busy(g)'
             /\ \A r \in Clients : waiter'[r] = g =>
                  Busy(g)' /\ g \notin ready' /\ turn' # g /\ from'[g] = r
             /\ link'[g] \in {"none", "queued"} => at'[g] = "header" /\ from'[g] = g
  <2>1. /\ g \in ready => Busy(g)
        /\ \A r \in Clients : waiter[r] = g => Busy(g) /\ g \notin ready /\ turn # g /\ from[g] = r
        /\ link[g] \in {"none", "queued"} => at[g] = "header" /\ from[g] = g
    BY DEF Handlers, OneThing
  <2>2. g # NoOne
    BY NullsAssumption
  <2>3. CASE g = h
    <3>1. turn' = h => place # "callback"
      BY <1>1, <2>2, <2>3
    <3>2. \A r \in Clients : waiter'[r] # h
      BY <1>2, <1>4
    <3> QED BY <1>2, <1>4, <1>8, <2>3, <3>1, <3>2
  <2>4. CASE g # h
    <3>1. turn' # g
      BY <1>1, <2>2, <2>4
    <3>2. g \in ready' => g \in ready
      BY <1>2, <1>4
    <3>3. \A r \in Clients : waiter'[r] = g => waiter[r] = g
      BY <1>2, <1>4, <2>2
    <3> QED BY <1>2, <1>5, <1>7, <2>1, <2>4, <3>1, <3>2, <3>3
  <2> QED BY <2>3, <2>4
<1>10. OneThing'
  BY <1>9 DEF OneThing
<1>11. ~shared' => Alone'
  <2> SUFFICES ASSUME ~shared, NEW c \in Clients, link[c] = "served"
               PROVE  /\ reader' = c /\ from'[c] = c
                      /\ \A d \in Clients : link'[d] = "served" => c = d
    BY <1>2 DEF Alone
  <2>1. reader = c /\ from[c] = c /\ c = h /\ \A d \in Clients : link[d] = "served" => c = d
    BY DEF Handlers, Alone
  <2> QED BY <1>2, <1>6, <2>1
<1>12. ~shared' => \A c \in Clients : link'[c] = "served" => c = h
  BY <1>2 DEF Handlers, Alone
<1>13. ~shared' => Attended'
  <2>1. turn' = h \/ at'[h] = "callback"
    BY <1>1, <1>5
  <2> QED BY <1>12, <2>1 DEF Attended
<1>14. Readable'
  BY <1>2 DEF Handlers, Readable
<1>15. /\ at' \in [Clients -> {"header", "body", "torn", "callback"}]
       /\ from' \in [Clients -> Clients] /\ turn' \in Clients \cup {NoOne}
       /\ waiter' \in [Clients -> Clients \cup {NoOne}] /\ ready' \subseteq Clients
  <2>1. at' \in [Clients -> {"header", "body", "torn", "callback"}]
    BY <1>1, <1>3
  <2>2. from' \in [Clients -> Clients]
    BY <1>2, <1>3
  <2>3. turn' \in Clients \cup {NoOne}
    BY <1>1
  <2> QED BY <1>2, <1>3, <1>4, <2>1, <2>2, <2>3
<1> QED BY <1>10, <1>11, <1>13, <1>14, <1>15 DEF Handlers

TakenFrom(r) == buffer[r] # << >> /\ buffer' = [buffer EXCEPT ![r] = Tail(buffer[r])]
(* The first token of a reader is taken from what is held.                 *)
LEMMA FirstIsTaken ==
  ASSUME Sorts, NEW r \in Clients, TakenFrom(r)
  PROVE  /\ buffer' \in [Clients -> Seq(Tokens)]
         /\ \A p \in Frames : /\ Held(buffer', Body(p)) \in Nat
                              /\ Held(buffer', Body(p)) + (IF Head(buffer[r]) = Body(p) THEN 1 ELSE 0)
                                   = Held(buffer, Body(p))
<1>1. buffer \in [Clients -> Seq(Tokens)] /\ buffer[r] \in Seq(Tokens)
  BY DEF Sorts
<1>2. buffer[r] # << >> /\ buffer' = [buffer EXCEPT ![r] = Tail(buffer[r])]
  BY DEF TakenFrom
<1>3. Tail(buffer[r]) \in Seq(Tokens)
  BY <1>1, <1>2, HeadTailProperties
<1>4. buffer' \in [Clients -> Seq(Tokens)]
  BY <1>1, <1>2, <1>3
<1>5. ASSUME NEW p \in Frames
      PROVE  /\ Held(buffer', Body(p)) \in Nat
             /\ Held(buffer', Body(p)) + (IF Head(buffer[r]) = Body(p) THEN 1 ELSE 0)
                  = Held(buffer, Body(p))
  <2>1. /\ Held(buffer', Body(p)) = Held(buffer, Body(p)) + Num(Tail(buffer[r]), Body(p))
                                      - Num(buffer[r], Body(p))
        /\ Held(buffer', Body(p)) \in Nat /\ Held(buffer, Body(p)) \in Nat
        /\ Num(Tail(buffer[r]), Body(p)) \in Nat
    BY <1>1, <1>2, <1>3, HeldExcept
  <2>2. Num(buffer[r], Body(p)) = (IF Head(buffer[r]) = Body(p) THEN 1 ELSE 0) + Num(Tail(buffer[r]), Body(p))
    BY <1>1, <1>2, NumOfParts
  <2> QED BY <2>1, <2>2
<1> QED BY <1>4, <1>5

Reading(h, waiters, awake) ==
  /\ link[h] = "served" /\ Sleepers(h, waiters, awake) /\ buffer[from[h]] # << >>
  /\ Adapter!Reads(h) /\ waiter' = waiters /\ ready' = awake
  /\ UNCHANGED <<server, owed, seen, reader, shared>>

(* A handler reads a token that it can go on with.                         *)
LEMMA HandlerReads ==
  ASSUME Sorts, Flows, Handlers, NEW h \in Clients, NEW waiters, NEW awake,
         Reading(h, waiters, awake)
  PROVE  Sorts' /\ Flows' /\ Handlers'
<1>1. PICK r \in Clients : r = from[h]
  BY DEF Sorts
<1>2. PICK token : token = Head(buffer[r])
  OBVIOUS
<1>3. TakenFrom(r) /\ GoesOn(h, waiters, awake)
      /\ \/ given' = given /\ Adapter!Is(token, "header")
         \/ given' = [given EXCEPT ![token[2]] = @ + 1] /\ Adapter!Is(token, "body")
  <2>1. Reading(h, waiters, awake)
    OBVIOUS
  <2>2. buffer[r] # << >> /\ waiter' = waiters /\ ready' = awake
        /\ UNCHANGED <<server, owed, seen, reader, shared>>
    BY <1>1, <2>1 DEF Reading
  <2>3. CASE Adapter!ReadHeader(h)
    <3>1. /\ buffer' = [buffer EXCEPT ![r] = Tail(buffer[r])] /\ Adapter!Is(token, "header")
          /\ at' = [at EXCEPT ![h] = "body"] /\ turn' = h /\ from' = [from EXCEPT ![h] = reader]
          /\ UNCHANGED <<link, pipe, given, cut>>
      BY <1>1, <1>2, <2>3 DEF Adapter!ReadHeader, Adapter!Holds, Adapter!Rest, Adapter!Goto
    <3>2. "body" # "callback"
      OBVIOUS
    <3> QED BY <2>2, <3>1, <3>2 DEF TakenFrom, GoesOn
  <2>4. CASE Adapter!ReadBody(h)
    <3>1. /\ buffer' = [buffer EXCEPT ![r] = Tail(buffer[r])] /\ Adapter!Is(token, "body")
          /\ given' = [given EXCEPT ![token[2]] = @ + 1] /\ UNCHANGED <<link, pipe, cut>>
      BY <1>1, <1>2, <2>4 DEF Adapter!ReadBody, Adapter!Holds, Adapter!Rest
    <3>2. \/ at' = [at EXCEPT ![h] = "callback"] /\ turn' = NoOne /\ from' = from
          \/ at' = [at EXCEPT ![h] = "header"] /\ turn' = h /\ from' = [from EXCEPT ![h] = reader]
      BY <2>4 DEF Adapter!ReadBody, Adapter!Goto
    <3>3. "header" # "callback"
      OBVIOUS
    <3> QED BY <2>2, <3>1, <3>2, <3>3 DEF TakenFrom, GoesOn
  <2>5. CASE Adapter!ReadHeaderAsBody(h)
    <3>1. /\ buffer' = [buffer EXCEPT ![r] = Tail(buffer[r])] /\ Adapter!Is(token, "header")
          /\ at' = [at EXCEPT ![h] = "torn"] /\ turn' = h
          /\ UNCHANGED <<link, pipe, given, cut, from>>
      BY <1>1, <1>2, <2>5 DEF Adapter!ReadHeaderAsBody, Adapter!Holds, Adapter!Rest
    <3>2. "torn" # "callback"
      OBVIOUS
    <3> QED BY <2>2, <3>1, <3>2 DEF TakenFrom, GoesOn
  <2> QED BY <2>1, <2>3, <2>4, <2>5 DEF Reading, Adapter!Reads
<1>4. link[h] = "served" /\ Sleepers(h, waiters, awake)
  BY DEF Reading
<1>5. /\ Handlers'
      /\ at' \in [Clients -> {"header", "body", "torn", "callback"}]
      /\ from' \in [Clients -> Clients] /\ turn' \in Clients \cup {NoOne}
      /\ waiter' \in [Clients -> Clients \cup {NoOne}] /\ ready' \subseteq Clients
  BY <1>3, <1>4, HandlerGoesOn
<1>6. /\ buffer' \in [Clients -> Seq(Tokens)]
      /\ \A p \in Frames : /\ Held(buffer', Body(p)) \in Nat
                           /\ Held(buffer', Body(p)) + (IF token = Body(p) THEN 1 ELSE 0)
                                = Held(buffer, Body(p))
  BY <1>2, <1>3, FirstIsTaken
<1>7. UNCHANGED <<link, pipe, cut, server, owed, seen, reader, shared>>
  BY <1>3 DEF GoesOn
<1>8. token \in Tokens /\ given \in [Frames -> Nat]
  <2>1. buffer[r] \in Seq(Tokens) /\ buffer[r] # << >>
    BY <1>3 DEF Sorts, TakenFrom
  <2> QED BY <1>2, <2>1, HeadTailProperties DEF Sorts
<1>9. /\ given' \in [Frames -> Nat]
      /\ \A p \in Frames : given'[p] = given[p] + IF token = Body(p) THEN 1 ELSE 0
  <2>1. CASE given' = given /\ Adapter!Is(token, "header")
    <3>1. \A p \in Frames : token # Body(p)
      BY <2>1, TokensAre
    <3> QED BY <1>8, <2>1, <3>1
  <2>2. CASE given' = [given EXCEPT ![token[2]] = @ + 1] /\ Adapter!Is(token, "body")
    <3>1. PICK q \in Frames : token = Body(q)
      BY <1>8, <2>2, TokensAre
    <3>2. token[2] = q /\ \A p \in Frames : token = Body(p) <=> p = q
      BY <3>1, TokensAre
    <3>3. given' = [given EXCEPT ![q] = given[q] + 1]
      BY <2>2, <3>2
    <3>4. given' \in [Frames -> Nat] /\ \A p \in Frames : given'[p] = given[p] + IF p = q THEN 1 ELSE 0
      BY <1>8, <3>3
    <3> QED BY <3>2, <3>4
  <2> QED BY <1>3, <2>1, <2>2
<1>10. Sorts'
  BY <1>5, <1>6, <1>7, <1>9 DEF Sorts
<1>11. ASSUME NEW p \in Frames
       PROVE  /\ Held(pipe', Body(p)) + seen'[p] <= owed'[p]
              /\ Held(buffer', Body(p)) + given'[p] <= seen'[p]
              /\ ~cut' /\ ~shared' => /\ Held(pipe', Body(p)) + seen'[p] = owed'[p]
                                      /\ Held(buffer', Body(p)) + given'[p] = seen'[p]
  <2>1. /\ Held(pipe, Body(p)) + seen[p] <= owed[p]
        /\ Held(buffer, Body(p)) + given[p] <= seen[p]
        /\ ~cut /\ ~shared => /\ Held(pipe, Body(p)) + seen[p] = owed[p]
                              /\ Held(buffer, Body(p)) + given[p] = seen[p]
    BY DEF Flows
  <2>2. seen[p] \in Nat /\ given[p] \in Nat
    BY AdapterFacts
  <2>3. /\ Held(buffer', Body(p)) \in Nat
        /\ Held(buffer', Body(p)) + (IF token = Body(p) THEN 1 ELSE 0) = Held(buffer, Body(p))
        /\ given'[p] = given[p] + IF token = Body(p) THEN 1 ELSE 0
    BY <1>6, <1>9
  <2>4. Held(buffer', Body(p)) + given'[p] = Held(buffer, Body(p)) + given[p]
    BY <2>2, <2>3
  <2> QED BY <1>7, <2>1, <2>4
<1>12. Flows'
  BY <1>11 DEF Flows, Body, Adapter!BodyOf
<1> QED BY <1>5, <1>10, <1>12

(* A handler waits at a reader where no other waits.                       *)
LEMMA HandlerWaits ==
  ASSUME Sorts, Flows, Handlers, NEW h \in Clients, turn = h, waiter[from[h]] = NoOne,
         waiter' = [waiter EXCEPT ![from[h]] = h], turn' = NoOne,
         UNCHANGED <<link, pipe, given, cut, buffer, ready, at, from>>,
         UNCHANGED <<server, owed, seen, reader, shared>>
  PROVE  Sorts' /\ Flows' /\ Handlers'
<1>1. /\ waiter \in [Clients -> Clients \cup {NoOne}] /\ from[h] \in Clients /\ h # NoOne
      /\ turn' = NoOne
  BY NullsAssumption DEF Sorts
<1>2. waiter'[from[h]] = h /\ \A r \in Clients : r # from[h] => waiter'[r] = waiter[r]
  BY <1>1
<1>3. Sorts'
  <2>1. waiter' \in [Clients -> Clients \cup {NoOne}]
    BY <1>1
  <2> QED BY <2>1 DEF Sorts
<1>4. Flows'
  BY DEF Flows, Body, Adapter!BodyOf
<1>5. \A g \in Clients : Busy(g)' <=> Busy(g)
  BY DEF Busy
<1>6. ASSUME NEW g \in Clients
      PROVE  /\ turn' = g => Busy(g)' /\ g \notin ready'
             /\ g \in ready' => Busy(g)'
             /\ \A r \in Clients : waiter'[r] = g =>
                  Busy(g)' /\ g \notin ready' /\ turn' # g /\ from'[g] = r
             /\ link'[g] \in {"none", "queued"} => at'[g] = "header" /\ from'[g] = g
  <2>1. /\ turn = g => Busy(g) /\ g \notin ready
        /\ g \in ready => Busy(g)
        /\ \A r \in Clients : waiter[r] = g => Busy(g) /\ g \notin ready /\ turn # g /\ from[g] = r
        /\ link[g] \in {"none", "queued"} => at[g] = "header" /\ from[g] = g
    BY DEF Handlers, OneThing
  <2>2. turn' # g /\ g # NoOne
    BY NullsAssumption
  <2>3. ASSUME NEW r \in Clients, waiter'[r] = g
        PROVE  Busy(g)' /\ g \notin ready' /\ turn' # g /\ from'[g] = r
    <3>1. CASE r = from[h]
      <4>1. g = h
        BY <1>2, <2>3, <3>1
      <4> QED BY <1>5, <2>1, <2>2, <3>1, <4>1
    <3>2. CASE r # from[h]
      BY <1>2, <1>5, <2>1, <2>2, <2>3, <3>2
    <3> QED BY <3>1, <3>2
  <2> QED BY <1>5, <2>1, <2>2, <2>3
<1>7. OneThing'
  BY <1>6 DEF OneThing
<1>8. (~shared' => Alone') /\ Readable'
  BY DEF Handlers, Alone, Readable
<1>9. ~cut' /\ ~shared' => Attended'
  <2>1. ~shared => from[h] = h /\ \A c \in Clients : link[c] = "served" => c = h
    BY DEF Handlers, OneThing, Busy, Alone
  <2> QED BY <1>2, <2>1 DEF Attended
<1> QED BY <1>3, <1>4, <1>7, <1>8, <1>9 DEF Handlers

(* What a handler leaves in the reader when it raises.                      *)
LEMMA RaisingSpills ==
  ASSUME Sorts, NEW h \in Clients, buffer[from[h]] # << >>
  PROVE  Spills(h, Adapter!AfterRaising(h))
<1>1. PICK s : s = buffer[from[h]]
  OBVIOUS
<1>2. s \in Seq(Tokens) /\ s # << >>
  BY <1>1 DEF Sorts
<1>3. PICK token : token = Head(s)
  OBVIOUS
<1>4. PICK t : t = Tail(s)
  OBVIOUS
<1>5. t \in Seq(Tokens) /\ token \in Tokens
  BY <1>2, <1>3, <1>4, HeadTailProperties
<1>6. PICK rest : rest = Adapter!AfterRaising(h)
  OBVIOUS
<1>7. rest = IF token = Eof THEN s ELSE IF token = Torn THEN t ELSE <<Torn>> \o t
  BY <1>1, <1>3, <1>4, <1>6 DEF Adapter!AfterRaising, Adapter!Rest
<1>8. \A p \in Frames : /\ Num(s, Body(p)) = (IF token = Body(p) THEN 1 ELSE 0) + Num(t, Body(p))
                        /\ Num(t, Body(p)) \in Nat
  BY <1>2, <1>3, <1>4, <1>5, NumOfParts
<1>9. /\ rest \in Seq(Tokens)
      /\ \A p \in Frames : Num(rest, Body(p)) <= Num(s, Body(p))
      /\ OnlyEof(rest) => \A p \in Frames : Num(rest, Body(p)) = Num(s, Body(p))
  <2>1. CASE token = Eof
    <3>1. rest = s
      BY <1>7, <2>1
    <3>2. \A p \in Frames : Num(s, Body(p)) \in Nat
      BY <1>2, NumOfParts
    <3> QED BY <1>2, <3>1, <3>2
  <2>2. CASE token = Torn
    <3>1. rest = t
      BY <1>7, <2>2, TokensAre
    <3>2. \A p \in Frames : token # Body(p)
      BY <2>2, TokensAre
    <3>3. \A p \in Frames : Num(s, Body(p)) = Num(t, Body(p)) /\ Num(t, Body(p)) \in Nat
      BY <1>8, <3>2
    <3> QED BY <1>5, <3>1, <3>3
  <2>3. CASE token # Eof /\ token # Torn
    <3>1. PICK u : u = <<Torn>>
      OBVIOUS
    <3>2. rest = u \o t
      BY <1>7, <2>3, <3>1
    <3>3. u \in Seq(Tokens)
      BY <3>1, TokensAre
    <3>4. \A p \in Frames : Num(u, Body(p)) = 0
      <4>1. \A p \in Frames : Torn # Body(p)
        BY TokensAre
      <4> QED BY <3>1, <4>1, NumOfFew
    <3>5. \A p \in Frames : Num(rest, Body(p)) = Num(u, Body(p)) + Num(t, Body(p))
      BY <1>5, <3>2, <3>3, NumOfConcat
    <3>6. rest \in Seq(Tokens)
      BY <1>5, <3>2, <3>3, ConcatProperties
    <3>7. ~OnlyEof(rest)
      <4>1. Len(u) = 1 /\ u[1] = Torn /\ Len(t) \in Nat
        BY <1>5, <3>1, LenProperties
      <4>2. /\ Len(rest) = Len(u) + Len(t)
            /\ \A i \in 1..(Len(u) + Len(t)) : rest[i] = IF i <= Len(u) THEN u[i] ELSE t[i - Len(u)]
        BY <1>5, <3>2, <3>3, ConcatProperties
      <4>3. 1 \in 1..Len(rest) /\ rest[1] = Torn
        BY <4>1, <4>2
      <4>4. 1 \in DOMAIN rest
        BY <3>6, <4>3, LenProperties
      <4>5. Torn \in Range(rest)
        BY <4>3, <4>4 DEF Range
      <4> QED BY <4>5, TokensAre DEF OnlyEof
    <3>8. \A p \in Frames : Num(rest, Body(p)) <= Num(s, Body(p))
      BY <1>8, <3>4, <3>5
    <3> QED BY <3>6, <3>7, <3>8
  <2> QED BY <2>1, <2>2, <2>3
<1> QED BY <1>1, <1>6, <1>9 DEF Spills

(* A handler that takes nothing leaves what there is.                      *)
LEMMA LeavingSpills ==
  ASSUME Sorts, NEW h \in Clients
  PROVE  Spills(h, buffer[from[h]])
<1>1. buffer[from[h]] \in Seq(Tokens)
  BY DEF Sorts
<1>2. \A p \in Frames : Num(buffer[from[h]], Body(p)) \in Nat
  BY <1>1, NumOfParts
<1> QED BY <1>1, <1>2 DEF Spills

(* A handler takes what is at the front of its reader.                     *)
LEMMA HandlerTakes ==
  ASSUME Sorts, Flows, Handlers, NEW h \in Clients, NEW waiters, NEW awake,
         link[h] = "served", Sleepers(h, waiters, awake), buffer[from[h]] # << >>,
         Adapter!Takes(h, waiters, awake), UNCHANGED <<server, owed, seen, reader, shared>>
  PROVE  Sorts' /\ Flows' /\ Handlers'
<1>1. CASE Adapter!Reads(h) /\ waiter' = waiters /\ ready' = awake
  <2>1. Reading(h, waiters, awake)
    BY <1>1 DEF Reading
  <2> QED BY <2>1, HandlerReads
<1>2. CASE Adapter!Ends(h, Adapter!AfterRaising(h), waiters, awake)
  <2>1. PICK rest : rest = Adapter!AfterRaising(h)
    OBVIOUS
  <2>2. Spills(h, rest)
    BY <2>1, RaisingSpills
  <2>3. Adapter!Ends(h, rest, waiters, awake)
    BY <1>2, <2>1
  <2>4. Leaving(h, rest, waiters, awake)
    BY <2>2, <2>3 DEF Leaving
  <2> QED BY <2>4, HandlerEnds
<1> QED BY <1>1, <1>2 DEF Adapter!Takes

(* A handler reads without awaiting, or begins to wait.                    *)
LEMMA AdapterReads ==
  ASSUME Sorts, Flows, Handlers, NEW h \in Clients, Adapter!Read(h)
  PROVE  Sorts' /\ Flows' /\ Handlers'
<1>1. turn = h /\ UNCHANGED <<server, owed, seen, reader, shared>>
  BY DEF Adapter!Read
<1>2. link[h] = "served" /\ h \notin ready /\ \A r \in Clients : waiter[r] # h
  BY <1>1 DEF Handlers, OneThing, Busy
<1>3. Sleepers(h, waiter, ready)
  BY <1>2 DEF Sleepers, Sorts
<1>4. CASE buffer[from[h]] # << >> /\ Adapter!Takes(h, waiter, ready)
  BY <1>1, <1>2, <1>3, <1>4, HandlerTakes
<1>5. CASE /\ waiter[from[h]] = NoOne
           /\ waiter' = [waiter EXCEPT ![from[h]] = h] /\ turn' = NoOne
           /\ UNCHANGED <<link, pipe, given, cut, buffer, ready, at, from>>
  BY <1>1, <1>5, HandlerWaits
<1>6. CASE buffer[from[h]] = << >> /\ Adapter!Ends(h, << >>, waiter, ready)
  <2>1. PICK rest : rest = buffer[from[h]]
    OBVIOUS
  <2>2. Spills(h, rest)
    BY <2>1, LeavingSpills
  <2>3. Adapter!Ends(h, rest, waiter, ready)
    BY <1>6, <2>1
  <2>4. Leaving(h, rest, waiter, ready)
    BY <1>1, <1>2, <1>3, <2>2, <2>3 DEF Leaving
  <2> QED BY <2>4, HandlerEnds
<1> QED BY <1>4, <1>5, <1>6 DEF Adapter!Read

(* A handler that was woken resumes.                                       *)
LEMMA AdapterResumes ==
  ASSUME Sorts, Flows, Handlers, NEW h \in Clients, Adapter!Resume(h)
  PROVE  Sorts' /\ Flows' /\ Handlers'
<1>1. h \in ready /\ UNCHANGED <<server, owed, seen, reader, shared>>
  BY DEF Adapter!Resume
<1>2. link[h] = "served" /\ \A r \in Clients : waiter[r] # h
  BY <1>1 DEF Handlers, OneThing, Busy
<1>3. PICK waiters : waiters = [waiter EXCEPT ![from[h]] = NoOne]
  OBVIOUS
<1>4. PICK awake : awake = ready \ {h}
  OBVIOUS
<1>5. Sleepers(h, waiters, awake)
  <2>1. waiter \in [Clients -> Clients \cup {NoOne}] /\ h # NoOne
    BY NullsAssumption DEF Sorts
  <2>2. waiters \in [Clients -> Clients \cup {NoOne}]
    BY <1>3, <2>1
  <2>3. \A r \in Clients : waiters[r] \in {waiter[r], NoOne} /\ waiters[r] # h
    BY <1>2, <1>3, <2>1
  <2> QED BY <1>4, <2>2, <2>3 DEF Sleepers
<1>6. \/ buffer[from[h]] # << >> /\ Adapter!Takes(h, waiters, awake)
      \/ buffer[from[h]] = << >> /\ Adapter!Ends(h, << >>, waiters, awake)
  BY <1>3, <1>4 DEF Adapter!Resume
<1>7. CASE buffer[from[h]] # << >> /\ Adapter!Takes(h, waiters, awake)
  BY <1>1, <1>2, <1>5, <1>7, HandlerTakes
<1>8. CASE buffer[from[h]] = << >> /\ Adapter!Ends(h, << >>, waiters, awake)
  <2>1. PICK rest : rest = buffer[from[h]]
    OBVIOUS
  <2>2. Spills(h, rest)
    BY <2>1, LeavingSpills
  <2>3. Adapter!Ends(h, rest, waiters, awake)
    BY <1>8, <2>1
  <2>4. Leaving(h, rest, waiters, awake)
    BY <1>1, <1>2, <1>5, <2>2, <2>3 DEF Leaving
  <2> QED BY <2>4, HandlerEnds
<1> QED BY <1>6, <1>7, <1>8

(* The callback of a handler returns or raises.                            *)
LEMMA AdapterCallbackEnds ==
  ASSUME Sorts, Flows, Handlers, NEW h \in Clients, Adapter!CallbackEnds(h)
  PROVE  Sorts' /\ Flows' /\ Handlers'
<1>1. /\ link[h] = "served" /\ at[h] = "callback" /\ turn = NoOne
      /\ UNCHANGED <<server, owed, seen, reader, shared>>
  BY DEF Adapter!CallbackEnds
<1>2. h \notin ready /\ \A r \in Clients : waiter[r] # h
  BY <1>1 DEF Handlers, OneThing, Busy
<1>3. Sleepers(h, waiter, ready)
  BY <1>2 DEF Sleepers, Sorts
<1>4. CASE Adapter!Goto(h, "header") /\ UNCHANGED <<link, pipe, given, cut, buffer, waiter, ready>>
  <2>1. GoesOn(h, waiter, ready)
    <3>1. /\ at' = [at EXCEPT ![h] = "header"] /\ turn' = h /\ from' = [from EXCEPT ![h] = reader]
          /\ "header" # "callback"
      BY <1>4 DEF Adapter!Goto
    <3> QED BY <1>1, <1>4, <3>1 DEF GoesOn
  <2>2. /\ Handlers'
        /\ at' \in [Clients -> {"header", "body", "torn", "callback"}]
        /\ from' \in [Clients -> Clients] /\ turn' \in Clients \cup {NoOne}
        /\ waiter' \in [Clients -> Clients \cup {NoOne}] /\ ready' \subseteq Clients
    BY <1>1, <1>3, <2>1, HandlerGoesOn
  <2>3. Sorts'
    BY <1>1, <1>4, <2>2 DEF Sorts
  <2>4. Flows'
    BY <1>1, <1>4 DEF Flows, Body, Adapter!BodyOf
  <2> QED BY <2>2, <2>3, <2>4
<1>5. CASE Adapter!Ends(h, buffer[from[h]], waiter, ready)
  <2>1. PICK rest : rest = buffer[from[h]]
    OBVIOUS
  <2>2. Spills(h, rest)
    BY <2>1, LeavingSpills
  <2>3. Adapter!Ends(h, rest, waiter, ready)
    BY <1>5, <2>1
  <2>4. Leaving(h, rest, waiter, ready)
    BY <1>1, <1>3, <2>2, <2>3 DEF Leaving
  <2> QED BY <2>4, HandlerEnds
<1> QED BY <1>4, <1>5 DEF Adapter!CallbackEnds, Adapter!readers

(* Every step of the adapter keeps the invariant.                          *)
LEMMA AdapterKeepsIt ==
  ASSUME StreamInv, AdapterInv, AdapterStep
  PROVE  StreamInv' /\ AdapterInv'
<1>1. path = "adapter" /\ path' = path /\ Adapter!Next /\ UNCHANGED streamVars
  BY DEF AdapterStep, OnAdapter
<1>2. Sorts /\ Flows /\ Handlers
  BY <1>1 DEF AdapterInv
<1> SUFFICES Sorts' /\ Flows' /\ Handlers'
  BY <1>1, StreamsRest DEF AdapterInv
<1>3. CASE \E c \in Clients : Adapter!Connect(c) \/ Adapter!Disconnect(c) \/ Adapter!Break(c)
  BY <1>2, <1>3, AdapterConnects, AdapterLeaves
<1>4. CASE \E c \in Clients, p \in Frames : Adapter!SendFrame(c, p) \/ Adapter!SendInVain(c, p)
  BY <1>2, <1>4, AdapterSends, AdapterSendsInVain
<1>5. CASE Adapter!Works
  BY <1>2, <1>5, AdapterArrives, AdapterStarts, AdapterReads, AdapterResumes, AdapterCallbackEnds
  DEF Adapter!Works
<1>6. CASE Adapter!Close \/ Adapter!Closed
  BY <1>2, <1>6, AdapterCloses
<1> QED BY <1>1, <1>3, <1>4, <1>5, <1>6 DEF Adapter!Next

-----------------------------------------------------------------------------
(* Empty connections hold nothing.                                         *)
LEMMA NothingAtFirst ==
  ASSUME NEW f, f = [c \in Clients |-> << >>]
  PROVE  \A x : Held(f, x) = 0
<1>1. ASSUME NEW x PROVE Held(f, x) = 0
  <2>1. PICK g : g = [c \in Clients |-> Num(f[c], x)]
    OBVIOUS
  <2>2. DOMAIN g = Clients /\ \A c \in Clients : g[c] = 0
    BY <2>1, NumOfFew
  <2>3. SumFunction(g) = 0
    BY <2>2, SumOfNothing, ClientsAssumption
  <2> QED BY <2>1, <2>3 DEF Held
<1> QED BY <1>1

(* The streams start as the invariant says.                                *)
LEMMA StreamsStart == Init => StreamInv /\ ParallelInv /\ ChunksInv
<1> SUFFICES ASSUME Init PROVE StreamInv /\ ParallelInv /\ ChunksInv
  OBVIOUS
<1>1. /\ path \in Paths /\ sent = {} /\ todo = [p \in Payloads |-> << >>]
      /\ wire = {} /\ buffers = << >>
      /\ arrived = [p \in Payloads |-> [i \in Indices(p) |-> 0]]
      /\ handed = [p \in Payloads |-> 0] /\ garbled = {} /\ faults = 0 /\ astray = FALSE
      /\ counter = 0 /\ calling = NoStream
  BY SameFrames DEF Init, Parallel!Init, Parallel!StreamsInit, Chunks!Init
<1>2. \A p \in Payloads : todo[p] = << >>
  BY <1>1
<1>3. Writing
  <2>1. << >> \in Seq(SUBSET AllFrames) /\ Len(<< >>) = 0
    OBVIOUS
  <2>2. todo \in [Payloads -> Seq(SUBSET AllFrames)]
    BY <1>1, <2>1
  <2>3. \A p \in Payloads : 1..Len(todo[p]) = {}
    BY <1>2, <2>1
  <2> QED BY <1>1, <1>2, <2>2, <2>3 DEF Writing
<1>4. DOMAIN buffers = {}
  BY <1>1
<1>5. ToCome = {}
  <2>1. Unwritten = {}
    BY <1>2 DEF Unwritten, Range
  <2> QED BY <1>1, <2>1 DEF ToCome
<1>6. Counters
  <2>1. \A p \in Payloads : arrived[p] \in [Indices(p) -> Nat]
    BY <1>1
  <2>2. handed \in [Payloads -> Nat] /\ \A p \in Payloads : handed[p] = 0
    BY <1>1
  <2>3. faults \in 0..MaxFaults
    BY <1>1, StreamsAssumption
  <2>4. arrived = [p \in Payloads |-> arrived[p]]
    BY <1>1
  <2> QED BY <1>1, <2>1, <2>2, <2>3, <2>4 DEF Counters
<1>7. Receiving
  <2>1. buffers = [id \in DOMAIN buffers |-> buffers[id]]
    BY <1>1
  <2> QED BY <2>1, <1>4, <1>5 DEF Receiving
<1>8. /\ \A p : IdsOf(p) = {}
      /\ \A p, i : ~Kept(p, i)
  BY <1>4, <1>5 DEF IdsOf, Kept
<1>9. Owned
  <2>1. \A p \in Payloads : handed[p] = 0
    BY <1>1
  <2>2. \A p \in Payloads : \A i \in Indices(p) : arrived[p][i] = 0
    BY <1>1
  <2> QED
    BY <2>1, <2>2, <1>1, <1>4, <1>8 DEF Owned
<1>10. Smooth
  <2>1. \A p \in Payloads : handed[p] = 0
    BY <1>1
  <2> QED
    BY <2>1, <1>1, <1>4 DEF Smooth
<1>11. ParallelInv
  BY <1>1, FS_EmptySet DEF ParallelInv
<1>12. ChunksInv
  BY <1>1, <1>8 DEF ChunksInv
<1> QED BY <1>1, <1>3, <1>6, <1>7, <1>9, <1>10, <1>11, <1>12 DEF StreamInv

(* The servers start as the invariant says.                                *)
LEMMA ServersStart == Init => ServerInv /\ AdapterInv
<1> SUFFICES ASSUME Init PROVE ServerInv /\ AdapterInv
  OBVIOUS
<1>1. /\ link = [c \in Clients |-> "none"] /\ pipe = [c \in Clients |-> << >>]
      /\ server = "up" /\ inbox = << >>
      /\ owed = [p \in Frames |-> 0] /\ seen = [p \in Frames |-> 0] /\ given = [p \in Frames |-> 0]
      /\ cut = FALSE /\ buffer = [c \in Clients |-> << >>]
      /\ waiter = [c \in Clients |-> NoOne] /\ reader = NoOne
      /\ at = [c \in Clients |-> "header"] /\ from = [c \in Clients |-> c]
      /\ ready = {} /\ turn = NoOne /\ shared = FALSE
  BY DEF Init, Server!Init, Server!None, Adapter!Init
<1>2. /\ \A c \in Clients : pipe[c] = << >> /\ buffer[c] = << >> /\ link[c] = "none"
      /\ \A p \in Frames : owed[p] = 0 /\ seen[p] = 0 /\ given[p] = 0
      /\ \A c \in Clients : waiter[c] = NoOne /\ at[c] = "header" /\ from[c] = c
  BY <1>1
<1>3. \A x : Held(pipe, x) = 0 /\ Held(buffer, x) = 0 /\ Num(inbox, x) = 0
  BY <1>1, NothingAtFirst, NumOfFew
<1>4. ServerFits
  <2>1. Server!TypeOK
    <3>1. pipe \in [Clients -> Seq(Frames \cup {Eof})] /\ inbox \in Seq(Frames)
      BY <1>1
    <3>2. link \in [Clients -> {"none", "queued", "served", "closed", "dropped"}]
      BY <1>1
    <3>3. owed \in [Frames -> Nat] /\ seen \in [Frames -> Nat] /\ given \in [Frames -> Nat]
      BY <1>1
    <3>4. server \in {"up", "stopping", "down"} /\ cut \in BOOLEAN
      BY <1>1
    <3> QED BY <1>2, <3>1, <3>2, <3>3, <3>4 DEF Server!TypeOK
  <2>2. \A p \in Frames : InPipes(p) = 0
    BY <1>3 DEF Held, InPipes
  <2>3. Accounted
    BY <1>2, <1>3, <2>2 DEF Accounted
  <2>4. \A c \in Clients : Last(pipe[c])
    BY <1>2 DEF Last
  <2> QED BY <1>2, <1>3, <2>1, <2>3, <2>4 DEF ServerFits
<1>5. Sorts
  <2>1. pipe \in [Clients -> Seq(Tokens)] /\ buffer \in [Clients -> Seq(Tokens)]
    BY <1>1
  <2>2. link \in [Clients -> {"none", "queued", "served", "closed"}]
    BY <1>1
  <2>3. owed \in [Frames -> 0..1] /\ seen \in [Frames -> Nat] /\ given \in [Frames -> Nat]
    BY <1>1
  <2>4. /\ waiter \in [Clients -> Clients \cup {NoOne}] /\ from \in [Clients -> Clients]
        /\ at \in [Clients -> {"header", "body", "torn", "callback"}]
    BY <1>1
  <2> QED BY <1>1, <2>1, <2>2, <2>3, <2>4 DEF Sorts
<1>6. Flows
  BY <1>2, <1>3 DEF Flows
<1>7. Handlers
  BY <1>1, <1>2, NullsAssumption DEF Handlers, OneThing, Readable, Alone, Attended, Busy
<1> QED BY <1>4, <1>5, <1>6, <1>7, ServerMeans DEF AdapterInv

(* The invariant holds at first.                                           *)
LEMMA Start == Init => IInv
<1> SUFFICES ASSUME Init PROVE IInv
  OBVIOUS
<1>1. Marks
  BY DEF Init, Chunks!Init, Adapter!Init, Marks
<1> QED BY <1>1, StreamsStart, ServersStart DEF IInv

-----------------------------------------------------------------------------
(* What a path does not touch stays as it is.                               *)
LEMMA ServersRest ==
  ASSUME UNCHANGED <<path, serverVars, adapterVars>>, ServerInv, AdapterInv
  PROVE  ServerInv' /\ AdapterInv'
<1>1. /\ path' = path /\ link' = link /\ pipe' = pipe /\ server' = server /\ inbox' = inbox
      /\ owed' = owed /\ seen' = seen /\ given' = given /\ cut' = cut /\ buffer' = buffer
      /\ waiter' = waiter /\ reader' = reader /\ at' = at /\ from' = from
      /\ ready' = ready /\ turn' = turn /\ shared' = shared
  BY DEF serverVars, adapterVars
<1>2. ServerFits => ServerFits'
  <2>1. Server!TypeOK => Server!TypeOK'
    BY <1>1 DEF Server!TypeOK
  <2>2. \A p : InPipes(p)' = InPipes(p)
    BY <1>1 DEF InPipes
  <2>3. Accounted => Accounted'
    BY <1>1, <2>2 DEF Accounted
  <2> QED BY <1>1, <2>1, <2>3 DEF ServerFits
<1>3. Sorts /\ Flows /\ Handlers => Sorts' /\ Flows' /\ Handlers'
  <2>1. Sorts => Sorts'
    BY <1>1 DEF Sorts, Tokens, Adapter!Tokens
  <2>2. Flows => Flows'
    BY <1>1 DEF Flows, Body, Adapter!BodyOf
  <2>3. Handlers => Handlers'
    BY <1>1 DEF Handlers, OneThing, Readable, Alone, Attended, Busy
  <2> QED BY <2>1, <2>2, <2>3
<1> QED BY <1>1, <1>2, <1>3, ServerMeans, ServerMeansNext DEF AdapterInv

(* The same of the streams.                                                *)
LEMMA PiecesRest ==
  ASSUME UNCHANGED <<path, streamVars, counter, calling>>, ParallelInv, ChunksInv
  PROVE  ParallelInv' /\ ChunksInv'
<1>1. /\ path' = path /\ sent' = sent /\ todo' = todo /\ wire' = wire /\ buffers' = buffers
      /\ astray' = astray /\ counter' = counter /\ calling' = calling
  BY DEF streamVars
<1>2. \A p : IdsOf(p)' = IdsOf(p)
  BY <1>1 DEF IdsOf, ToCome, Unwritten
<1>3. ParallelInv'
  BY <1>1 DEF ParallelInv
<1>4. ChunksInv'
  BY <1>1, <1>2 DEF ChunksInv
<1> QED BY <1>3, <1>4

(* What is noted of frames without a header stays of its type.             *)
LEMMA SinglesKept ==
  ASSUME Marks, Chunks!Next
  PROVE  single' \in [Payloads -> {"not", "sent", "done"}]
<1>1. CASE \E p \in Payloads : Chunks!SendSingle(p) \/ Chunks!PassSingle(p)
  BY <1>1 DEF Marks, Chunks!SendSingle, Chunks!PassSingle
<1>2. CASE \E p \in Payloads : Chunks!Send(p) \/ Chunks!WriteFails(p) \/ Chunks!Write(p)
  BY <1>2 DEF Marks, Chunks!Send, Chunks!WriteFails, Chunks!Write
<1>3. CASE \E f \in wire : Chunks!Process(f) \/ Chunks!ProcessTwice(f)
  BY <1>3 DEF Marks, Chunks!Process, Chunks!ProcessTwice
<1>4. CASE Chunks!CallbackEnds \/ Chunks!CleanupStale \/ (Chunks!Mishap /\ UNCHANGED <<calling, single>>)
  BY <1>4 DEF Marks, Chunks!CallbackEnds, Chunks!CleanupStale
<1> QED BY <1>1, <1>2, <1>3, <1>4 DEF Chunks!Next, Chunks!Works

(* So do the clients that quit.                                            *)
LEMMA QuitKept ==
  ASSUME Marks, Adapter!Next
  PROVE  quit' \subseteq Clients
<1>1. CASE \E c \in Clients : Adapter!Connect(c) \/ Adapter!Disconnect(c) \/ Adapter!Break(c)
  BY <1>1 DEF Marks, Adapter!Connect, Adapter!Disconnect, Adapter!Break
<1>2. CASE \E c \in Clients, p \in Frames : Adapter!SendFrame(c, p) \/ Adapter!SendInVain(c, p)
  BY <1>2 DEF Marks, Adapter!SendFrame, Adapter!SendInVain
<1>3. CASE Adapter!Works
  BY <1>3 DEF Marks, Adapter!Works, Adapter!Arrive, Adapter!Start, Adapter!Read, Adapter!Resume,
              Adapter!CallbackEnds
<1>4. CASE Adapter!Close \/ Adapter!Closed
  BY <1>4 DEF Marks, Adapter!Close, Adapter!Closed
<1> QED BY <1>1, <1>2, <1>3, <1>4 DEF Adapter!Next

(* Every step keeps the invariant.                                         *)
LEMMA EveryStep == IInv /\ [Next]_vars => IInv'
<1> SUFFICES ASSUME IInv, [Next]_vars PROVE IInv'
  OBVIOUS
<1>1. StreamInv /\ ParallelInv /\ ChunksInv /\ ServerInv /\ AdapterInv /\ Marks
  BY DEF IInv
<1>2. Marks'
  <2>1. CASE ParallelStep \/ ServerStep \/ UNCHANGED vars
    BY <1>1, <2>1 DEF Marks, ParallelStep, ServerStep, OnParallel, OnServer, adapterVars, vars
  <2>2. CASE ChunksStep
    BY <1>1, <2>2, SinglesKept DEF Marks, ChunksStep, OnChunks, adapterVars
  <2>3. CASE AdapterStep
    BY <1>1, <2>3, QuitKept DEF Marks, AdapterStep, OnAdapter
  <2> QED BY <2>1, <2>2, <2>3 DEF Next
<1>3. CASE ParallelStep
  <2>1. path = "parallel" /\ path' = path /\ UNCHANGED <<serverVars, adapterVars>>
    BY <1>3 DEF ParallelStep, OnParallel
  <2>2. StreamInv' /\ ParallelInv'
    BY <1>1, <1>3, ParallelKeepsIt
  <2>3. ChunksInv'
    BY <2>1 DEF ChunksInv
  <2>4. ServerInv' /\ AdapterInv'
    BY <1>1, <2>1, ServersRest
  <2> QED BY <1>2, <2>2, <2>3, <2>4 DEF IInv
<1>4. CASE ChunksStep
  <2>1. path = "chunks" /\ path' = path /\ UNCHANGED <<serverVars, adapterVars>>
    BY <1>4 DEF ChunksStep, OnChunks
  <2>2. StreamInv' /\ ChunksInv'
    BY <1>1, <1>4, ChunksKeepIt
  <2>3. ParallelInv'
    BY <2>1 DEF ParallelInv
  <2>4. ServerInv' /\ AdapterInv'
    BY <1>1, <2>1, ServersRest
  <2> QED BY <1>2, <2>2, <2>3, <2>4 DEF IInv
<1>5. CASE ServerStep
  <2>1. path = "server" /\ path' = path /\ UNCHANGED <<path, streamVars, counter, calling>>
    BY <1>5 DEF ServerStep, OnServer
  <2>2. StreamInv' /\ ServerInv'
    BY <1>1, <1>5, ServerKeepsIt
  <2>3. ParallelInv' /\ ChunksInv'
    BY <1>1, <2>1, PiecesRest
  <2>4. AdapterInv'
    BY <2>1 DEF AdapterInv
  <2> QED BY <1>2, <2>2, <2>3, <2>4 DEF IInv
<1>6. CASE AdapterStep
  <2>1. path = "adapter" /\ path' = path /\ UNCHANGED <<path, streamVars, counter, calling>>
    BY <1>6 DEF AdapterStep, OnAdapter
  <2>2. StreamInv' /\ AdapterInv'
    BY <1>1, <1>6, AdapterKeepsIt
  <2>3. ParallelInv' /\ ChunksInv'
    BY <1>1, <2>1, PiecesRest
  <2>4. ServerInv'
    BY <2>1 DEF ServerInv
  <2> QED BY <1>2, <2>2, <2>3, <2>4 DEF IInv
<1>7. CASE UNCHANGED vars
  <2>1. /\ UNCHANGED <<path, streamVars, counter, calling>>
        /\ UNCHANGED <<path, serverVars, adapterVars>> /\ UNCHANGED <<path, streamVars>>
    BY <1>7 DEF vars
  <2> QED BY <1>1, <1>2, <2>1, StreamsRest, PiecesRest, ServersRest DEF IInv
<1> QED BY <1>3, <1>4, <1>5, <1>6, <1>7 DEF Next

(* Every payload on every path keeps the invariant.                         *)
THEOREM Invariance == Spec => []IInv
<1>1. Init => IInv
  BY Start
<1>2. IInv /\ [Next]_vars => IInv'
  BY EveryStep
<1> QED BY <1>1, <1>2, PTL DEF Spec

-----------------------------------------------------------------------------
(* The types of the streams follow from their invariant.                   *)
LEMMA StreamsTypes ==
  ASSUME StreamInv
  PROVE  Parallel!StreamsTypeOK /\ Chunks!StreamsTypeOK
<1>1. Writing /\ Counters /\ Receiving
  BY DEF StreamInv
<1>2. ASSUME NEW f \in ToCome PROVE f.piece[1] \in sent /\ f.piece[2] \in Indices(f.piece[1])
  <2>1. PICK p \in sent : \E i \in Indices(p) : Carries(f, p, i)
    BY <1>1 DEF Receiving
  <2>2. PICK i \in Indices(p) : Carries(f, p, i)
    BY <2>1
  <2>3. f.piece = <<p, i>>
    <3>1. PICK g : g = [id |-> f.id, index |-> Place(i), total |-> Total(p), piece |-> <<p, i>>]
      OBVIOUS
    <3>2. g.piece = <<p, i>> /\ f = g
      BY <3>1, <2>2 DEF Carries
    <3> QED BY <3>2
  <2> QED BY <2>3
<1>3. ASSUME NEW id \in DOMAIN buffers
      PROVE  /\ buffers[id].total \in Nat /\ buffers[id].old \in BOOLEAN
             /\ \A i \in DOMAIN buffers[id].got : buffers[id].got[i][1] \in sent
  <2>1. Filled(buffers[id])
    BY <1>1 DEF Receiving
  <2>2. ASSUME NEW k \in DOMAIN buffers[id].got PROVE buffers[id].got[k][1] \in sent
    <3>1. PICK p \in sent : \E i \in Indices(p) : buffers[id].got[k] = <<p, i>>
      BY <2>1 DEF Filled
    <3> QED BY <3>1
  <2> QED BY <2>1, <2>2 DEF Filled
<1>4. /\ sent \subseteq Payloads /\ \A p \in Payloads : arrived[p] \in [Indices(p) -> Nat]
      /\ handed \in [Payloads -> Nat] /\ garbled \subseteq sent
      /\ faults \in 0..MaxFaults /\ astray \in BOOLEAN
  BY <1>1 DEF Counters
<1>5. Parallel!StreamsTypeOK
  BY <1>2, <1>3, <1>4, SameFrames DEF Parallel!StreamsTypeOK
<1>6. Chunks!StreamsTypeOK
  BY <1>2, <1>3, <1>4, SameFrames DEF Chunks!StreamsTypeOK
<1> QED BY <1>5, <1>6

(* The types of every path follow from its invariant.                      *)
LEMMA TypesFollow == IInv => TypeOK
<1> SUFFICES ASSUME IInv PROVE TypeOK
  OBVIOUS
<1>1. path \in Paths /\ Parallel!StreamsTypeOK /\ Chunks!StreamsTypeOK
  BY StreamsTypes DEF IInv, StreamInv
<1>2. ASSUME path = "parallel" PROVE Parallel!TypeOK
  <2>1. counter = Cardinality(sent) /\ counter \in Nat
        /\ Cardinality(sent) <= Cardinality(Payloads)
    BY <1>2, SentAreFinite DEF IInv, ParallelInv
  <2>2. Cardinality(Payloads) \in Nat
    BY PayloadsAssumption, FS_CardinalityType
  <2>3. counter \in 0..Cardinality(Payloads)
    BY <2>1, <2>2
  <2> QED BY <2>3, <1>1, SameCards DEF Parallel!TypeOK
<1>3. ASSUME path = "chunks" PROVE Chunks!TypeOK
  <2>1. calling \in Payloads \cup {NoStream}
    BY <1>3 DEF IInv, ChunksInv
  <2>2. DOMAIN todo = Payloads
    BY DEF IInv, StreamInv, Writing
  <2> QED BY <2>1, <2>2, <1>1 DEF IInv, Marks, Chunks!TypeOK
<1>4. ASSUME path = "server" PROVE Server!TypeOK
  BY <1>4 DEF IInv, ServerInv
<1>5. ASSUME path = "adapter" PROVE Adapter!TypeOK
  <2>1. Sorts /\ Flows
    BY <1>5 DEF IInv, AdapterInv
  <2>2. ASSUME NEW p \in Frames PROVE seen[p] \in 0..1 /\ given[p] \in 0..1
    <3>1. /\ owed[p] \in 0..1 /\ seen[p] \in Nat /\ given[p] \in Nat
          /\ Held(pipe, Body(p)) \in Nat /\ Held(buffer, Body(p)) \in Nat
      BY <2>1, AdapterFacts
    <3>2. /\ Held(pipe, Body(p)) + seen[p] <= owed[p]
          /\ Held(buffer, Body(p)) + given[p] <= seen[p]
      BY <2>1 DEF Flows
    <3> QED BY <3>1, <3>2
  <2>3. seen \in [Frames -> 0..1] /\ given \in [Frames -> 0..1]
    BY <2>1, <2>2 DEF Sorts
  <2> QED BY <2>1, <2>3 DEF IInv, Marks, Sorts, Adapter!TypeOK, Tokens
<1> QED BY <1>1, <1>2, <1>3, <1>4, <1>5 DEF TypeOK

(* On every path, what the ends hold is of its type: no more payloads are   *)
(* given an id than there are, every piece that comes or is kept is one of  *)
(* a payload that was sent, and the adapter hands none over twice.          *)
THEOREM TypeCorrect == Spec => []TypeOK
BY Invariance, TypesFollow, PTL

-----------------------------------------------------------------------------
(* A body that is held once is held by one connection.                      *)
Holding(p) == {c \in Clients : Body(p) \in Range(pipe[c]) \cup Range(buffer[c])}

(* What is in a sequence is in it once or more.                            *)
LEMMA NumIsSome ==
  ASSUME NEW S, NEW s \in Seq(S), NEW x
  PROVE  x \in Range(s) <=> Num(s, x) # 0
<1>1. IsFiniteSet({i \in DOMAIN s : s[i] = x})
  BY PlacesAreFinite
<1>2. Num(s, x) # 0 <=> {i \in DOMAIN s : s[i] = x} # {}
  BY <1>1, FS_EmptySet DEF Num
<1> QED BY <1>2 DEF Range

(* If the sum is one, one connection holds the body; if none, none.        *)
LEMMA OneHolds ==
  ASSUME Sorts, NEW p \in Frames, NEW n \in 0..1,
         Held(pipe, Body(p)) + Held(buffer, Body(p)) = n
  PROVE  Cardinality(Holding(p)) = n
<1> DEFINE x == Body(p)
<1>1. \A c \in Clients : c \in Holding(p) <=> Num(pipe[c], x) # 0 \/ Num(buffer[c], x) # 0
  <2> TAKE c \in Clients
  <2>1. pipe[c] \in Seq(Tokens) /\ buffer[c] \in Seq(Tokens)
    BY AdapterFacts
  <2>2. (x \in Range(pipe[c]) <=> Num(pipe[c], x) # 0)
        /\ (x \in Range(buffer[c]) <=> Num(buffer[c], x) # 0)
    BY <2>1, NumIsSome
  <2> QED BY <2>2 DEF Holding
<1>2. /\ Held(pipe, x) \in Nat /\ Held(buffer, x) \in Nat
      /\ \A c \in Clients : Num(pipe[c], x) \in Nat /\ Num(buffer[c], x) \in Nat
  BY AdapterFacts
<1>3. ASSUME NEW c \in Clients
      PROVE  /\ Num(pipe[c], x) <= Held(pipe, x)
             /\ \A d \in Clients \ {c} : Num(pipe[c], x) + Num(pipe[d], x) <= Held(pipe, x)
  BY HeldBounds DEF Sorts
<1>4. ASSUME NEW c \in Clients
      PROVE  /\ Num(buffer[c], x) <= Held(buffer, x)
             /\ \A d \in Clients \ {c} : Num(buffer[c], x) + Num(buffer[d], x) <= Held(buffer, x)
  BY HeldBounds DEF Sorts
<1>5. ASSUME NEW f \in [Clients -> Seq(Tokens)], \A c \in Clients : Num(f[c], x) = 0
      PROVE  Held(f, x) = 0
  <2>1. PICK g : g = [c \in Clients |-> Num(f[c], x)]
    OBVIOUS
  <2>2. DOMAIN g = Clients /\ \A c \in Clients : g[c] = 0
    BY <2>1, <1>5
  <2>3. SumFunction(g) = 0
    BY <2>2, SumOfNothing, ClientsAssumption
  <2> QED BY <2>1, <2>3 DEF Held
<1>6. CASE n = 0
  <2>1. Held(pipe, x) = 0 /\ Held(buffer, x) = 0
    BY <1>2, <1>6
  <2>2. \A c \in Clients : Num(pipe[c], x) = 0 /\ Num(buffer[c], x) = 0
    BY <2>1, <1>2, <1>3, <1>4
  <2>3. Holding(p) = {}
    BY <2>2, <1>1 DEF Holding
  <2> QED BY <2>3, <1>6, FS_EmptySet
<1>7. CASE n = 1
  <2>1. \E c \in Clients : c \in Holding(p)
    <3> SUFFICES ASSUME \A c \in Clients : c \notin Holding(p) PROVE FALSE
      OBVIOUS
    <3>1. \A c \in Clients : Num(pipe[c], x) = 0 /\ Num(buffer[c], x) = 0
      BY <1>1
    <3>2. Held(pipe, x) = 0
      BY <3>1, <1>5 DEF Sorts
    <3>3. Held(buffer, x) = 0
      BY <3>1, <1>5 DEF Sorts
    <3> QED BY <3>2, <3>3, <1>7
  <2>2. PICK c \in Clients : c \in Holding(p)
    BY <2>1
  <2>3. ASSUME NEW d \in Clients, d \in Holding(p), d # c PROVE FALSE
    <3>1. /\ Num(pipe[c], x) # 0 \/ Num(buffer[c], x) # 0
          /\ Num(pipe[d], x) # 0 \/ Num(buffer[d], x) # 0
      BY <1>1, <2>2, <2>3
    <3>2. /\ Num(pipe[c], x) + Num(pipe[d], x) <= Held(pipe, x)
          /\ Num(buffer[c], x) + Num(buffer[d], x) <= Held(buffer, x)
      BY <1>3, <1>4, <2>3
    <3>3. /\ Num(pipe[c], x) \in Nat /\ Num(buffer[c], x) \in Nat
          /\ Num(pipe[d], x) \in Nat /\ Num(buffer[d], x) \in Nat
      BY <1>2
    <3> QED BY <3>1, <3>2, <3>3, <1>2, <1>7
  <2>4. Holding(p) = {c}
    BY <2>2, <2>3 DEF Holding
  <2> QED BY <2>4, <1>7, FS_Singleton
<1> QED BY <1>6, <1>7

(* A payload in pieces is on its way or was handed over once, and a buffer  *)
(* waits for a piece of its payload.                                        *)
LEMMA StreamsGoOn ==
  ASSUME StreamInv, ~astray, faults = 0
  PROVE  /\ \A p \in sent : Fitting(p) /\ Pieces[p] > 0 =>
              handed[p] = IF \E f \in ToCome : f.piece[1] = p THEN 0 ELSE 1
         /\ \A id \in DOMAIN buffers :
              \/ \E f \in ToCome : f.id = id
              \/ \E k \in DOMAIN buffers[id].got :
                   buffers[id].got[k][1] \in Payloads /\ ~Fitting(buffers[id].got[k][1])
<1>1. Counters /\ Receiving /\ Owned /\ Smooth
  BY DEF StreamInv
<1>2. ASSUME NEW f \in ToCome, NEW p, f.piece[1] = p
      PROVE  \E i \in Indices(p) : f.piece = <<p, i>>
  <2>1. PICK q \in sent : \E i \in Indices(q) : Carries(f, q, i)
    BY <1>1 DEF Receiving
  <2>2. PICK i \in Indices(q) : Carries(f, q, i)
    BY <2>1
  <2>3. f.piece = <<q, i>>
    <3>1. PICK g : g = [id |-> f.id, index |-> Place(i), total |-> Total(q), piece |-> <<q, i>>]
      OBVIOUS
    <3>2. g.piece = <<q, i>> /\ f = g
      BY <3>1, <2>2 DEF Carries
    <3> QED BY <3>2
  <2> QED BY <2>3, <1>2
<1>3. ASSUME NEW p \in sent, Fitting(p), Pieces[p] > 0
      PROVE  handed[p] = IF \E f \in ToCome : f.piece[1] = p THEN 0 ELSE 1
  <2>1. CASE handed[p] = 0 /\ \E i \in Indices(p) : Coming(p, i)
    <3>1. PICK i \in Indices(p) : Coming(p, i)
      BY <2>1
    <3>2. PICK f \in ToCome : f.piece = <<p, i>>
      BY <3>1 DEF Coming
    <3>3. f.piece[1] = p
      BY <3>2
    <3> QED BY <3>3, <2>1
  <2>2. CASE handed[p] = 1 /\ \A i \in Indices(p) : ~Coming(p, i)
    <3>1. ~\E f \in ToCome : f.piece[1] = p
      BY <2>2, <1>2 DEF Coming
    <3> QED BY <3>1, <2>2
  <2> QED BY <2>1, <2>2, <1>1, <1>3 DEF Smooth
<1>4. ASSUME NEW id \in DOMAIN buffers
      PROVE  \/ \E f \in ToCome : f.id = id
             \/ \E k \in DOMAIN buffers[id].got :
                  buffers[id].got[k][1] \in Payloads /\ ~Fitting(buffers[id].got[k][1])
  <2>1. PICK k \in DOMAIN buffers[id].got : TRUE
    BY <1>1 DEF Receiving
  <2>2. PICK p \in sent : \E i \in Indices(p) : buffers[id].got[k] = <<p, i>>
    BY <1>1 DEF Receiving, Filled
  <2>3. PICK i \in Indices(p) : buffers[id].got[k] = <<p, i>>
    BY <2>2
  <2>4. p \in Payloads /\ buffers[id].got[k][1] = p
    BY <2>3, <1>1 DEF Counters
  <2>5. CASE ~Fitting(p)
    BY <2>4, <2>5
  <2>6. CASE Fitting(p)
    <3>1. Kept(p, i)
      BY <2>3 DEF Kept
    <3>2. Pieces[p] > 0
      <4>1. Pieces[p] \in Nat /\ i \in 0..(Pieces[p] - 1)
        BY <2>4, Natural
      <4> QED BY <4>1
    <3>3. PICK j \in Indices(p) : Coming(p, j)
      BY <3>1, <3>2, <2>6, <1>1 DEF Smooth
    <3>4. PICK f \in ToCome : f.piece = <<p, j>>
      BY <3>3 DEF Coming
    <3>5. f.id \in IdsOf(p)
      BY <3>4 DEF IdsOf
    <3>6. id \in IdsOf(p)
      BY <2>4 DEF IdsOf
    <3>7. f.id = id
      BY <3>5, <3>6, <2>4, <1>1 DEF Owned
    <3> QED BY <3>7
  <2> QED BY <2>5, <2>6
<1> QED BY <1>3, <1>4

(* That nothing is stuck follows on every path from its invariant.         *)
LEMMA NoneStuckFollows == IInv => NothingStuck
<1> SUFFICES ASSUME IInv PROVE NothingStuck
  OBVIOUS
<1>1. StreamInv
  BY DEF IInv
<1>2. ASSUME path = "parallel" PROVE Parallel!NothingStuck
  <2>1. \A p : Parallel!Fits(p) <=> Fitting(p)
    BY <1>2 DEF Parallel!Fits, Fitting
  <2>2. ASSUME faults = 0, ~astray
        PROVE  /\ \A p \in sent : Fitting(p) /\ Pieces[p] > 0 =>
                    handed[p] = IF \E f \in ToCome : f.piece[1] = p THEN 0 ELSE 1
               /\ \A id \in DOMAIN buffers :
                    \/ \E f \in ToCome : f.id = id
                    \/ \E k \in DOMAIN buffers[id].got : ~Fitting(buffers[id].got[k][1])
    BY <2>2, <1>1, StreamsGoOn
  <2> QED BY <2>1, <2>2, SameFrames, Zenon DEF Parallel!NothingStuck
<1>3. ASSUME path = "chunks" PROVE Chunks!NothingStuck
  <2>1. (\A p : Fitting(p)) /\ ~astray
    BY <1>3 DEF IInv, ChunksInv, Fitting
  <2>2. ASSUME faults = 0
        PROVE  /\ \A p \in sent : Pieces[p] > 0 =>
                    handed[p] = IF \E f \in ToCome : f.piece[1] = p THEN 0 ELSE 1
               /\ \A id \in DOMAIN buffers : \E f \in ToCome : f.id = id
    BY <2>2, <2>1, <1>1, StreamsGoOn
  <2> QED BY <2>2, SameFrames, Zenon DEF Chunks!NothingStuck
<1>4. ASSUME path = "server" PROVE Server!NothingStuck
  BY <1>4 DEF IInv, ServerInv
<1>5. ASSUME path = "adapter" PROVE Adapter!NothingStuck
  <2>1. Sorts /\ Flows /\ Handlers
    BY <1>5 DEF IInv, AdapterInv
  <2>2. ASSUME ~cut, ~shared, NEW p \in Frames
        PROVE  owed[p] = given[p] + Cardinality(Holding(p))
    <3>1. /\ owed[p] \in 0..1 /\ seen[p] \in Nat /\ given[p] \in Nat
          /\ Held(pipe, Body(p)) \in Nat /\ Held(buffer, Body(p)) \in Nat
      BY <2>1, AdapterFacts
    <3>2. PICK a, b : a = Held(pipe, Body(p)) /\ b = Held(buffer, Body(p))
      OBVIOUS
    <3>3. a + seen[p] = owed[p] /\ b + given[p] = seen[p]
      BY <2>1, <2>2, <3>2 DEF Flows
    <3>4. a \in Nat /\ b \in Nat
      BY <3>1, <3>2
    <3>5. a + b \in 0..1 /\ owed[p] = given[p] + (a + b)
      BY <3>1, <3>3, <3>4
    <3>6. PICK n \in 0..1 : n = Held(pipe, Body(p)) + Held(buffer, Body(p)) /\ owed[p] = given[p] + n
      BY <3>2, <3>5
    <3>7. Cardinality(Holding(p)) = n
      BY <2>1, <3>6, OneHolds
    <3> QED BY <3>6, <3>7
  <2>3. \A S : Adapter!Cardinality(S) = Cardinality(S)
    BY Zenon DEF Adapter!Cardinality, Cardinality
  <2>4. \A p : {c \in Clients : Adapter!BodyOf(p) \in Adapter!Range(pipe[c]) \cup Adapter!Range(buffer[c])}
                 = Holding(p)
    BY TokensAre DEF Holding, Body
  <2>5. ASSUME ~cut, ~shared PROVE Attended
    BY <2>5, <2>1 DEF Handlers
  <2> QED BY <2>2, <2>3, <2>4, <2>5 DEF Adapter!NothingStuck, Attended
<1> QED BY <1>2, <1>3, <1>4, <1>5 DEF NothingStuck

(* While nothing goes wrong, a payload sent in pieces or through an adapter *)
(* is on its way or was handed over once, every packet that was written to  *)
(* a server is coming, collected or drained, every buffer waits for a piece *)
(* that will come, and a handler that has something to read is running,     *)
(* woken or waits where its connection wakes it.                            *)
THEOREM NoneIsStuck == Spec => []NothingStuck
BY Invariance, NoneStuckFollows, PTL

-----------------------------------------------------------------------------
(* How often all the pieces of a payload came is how often one of them did, *)
(* and no piece came less often.                                            *)
Least(p, a) == IF Pieces[p] = 0 THEN 0 ELSE Min({a[i] : i \in Indices(p)})

(* The least number is that of one of the pieces.                          *)
LEMMA LeastIs ==
  ASSUME NEW p \in Payloads, NEW a \in [Indices(p) -> Nat]
  PROVE  /\ Least(p, a) \in Nat
         /\ Pieces[p] # 0 => /\ \E i \in Indices(p) : Least(p, a) = a[i]
                             /\ \A i \in Indices(p) : Least(p, a) <= a[i]
<1>1. CASE Pieces[p] = 0
  BY <1>1 DEF Least
<1>2. CASE Pieces[p] # 0
  <2> DEFINE T == {a[i] : i \in Indices(p)}
  <2>1. 0 \in Indices(p)
    <3>1. Pieces[p] \in Nat /\ Indices(p) = 0..(Pieces[p] - 1)
      BY Natural
    <3> QED BY <3>1, <1>2
  <2>2. T \subseteq Nat /\ T # {}
    BY <2>1
  <2>3. PICK n \in T : \A m \in T : n <= m
    BY <2>2, LeastExists
  <2>4. Min(T) \in T /\ \A m \in T : Min(T) <= m
    BY <2>3 DEF Min
  <2>5. Least(p, a) = Min(T)
    BY <1>2 DEF Least
  <2>6. Least(p, a) \in Nat /\ (\E i \in Indices(p) : Least(p, a) = a[i])
    BY <2>2, <2>4, <2>5
  <2>7. \A i \in Indices(p) : Least(p, a) <= a[i]
    BY <2>4, <2>5
  <2> QED BY <2>6, <2>7
<1> QED BY <1>1, <1>2

(* Nothing that came is taken back, and nothing that was handed over.       *)
Grows ==
  /\ astray => astray'
  /\ \A p \in Payloads :
       /\ handed[p] \in Nat /\ handed[p] <= handed'[p]
       /\ \A i \in Indices(p) : arrived[p][i] \in Nat /\ arrived[p][i] <= arrived'[p][i]

(* A step that counts nothing takes nothing back.                          *)
LEMMA RestIsGrowth ==
  ASSUME StreamInv, UNCHANGED <<arrived, handed>>, astray => astray'
  PROVE  Grows
<1>1. /\ handed \in [Payloads -> Nat] /\ handed' = handed /\ arrived' = arrived
      /\ \A p \in Payloads : arrived[p] \in [Indices(p) -> Nat]
  BY DEF StreamInv, Counters
<1>2. ASSUME NEW p \in Payloads, NEW i \in Indices(p)
      PROVE  arrived[p][i] \in Nat /\ arrived[p][i] <= arrived'[p][i]
  BY <1>1
<1>3. \A p \in Payloads : handed[p] \in Nat /\ handed[p] <= handed'[p]
  BY <1>1
<1> QED BY <1>2, <1>3 DEF Grows

(* A frame that comes takes nothing back.                                  *)
LEMMA FrameIsGrowth ==
  ASSUME StreamInv, NEW f \in wire, Comes(f)
  PROVE  Grows
<1>1. PICK p \in sent : \E i \in Indices(p) : Carries(f, p, i)
  BY DEF StreamInv, Receiving, ToCome
<1>2. PICK i \in Indices(p) : Carries(f, p, i)
  BY <1>1
<1>3. f.piece = <<p, i>> /\ p \in Payloads
  <2>1. PICK g : g = [id |-> f.id, index |-> Place(i), total |-> Total(p), piece |-> <<p, i>>]
    OBVIOUS
  <2>2. g.piece = <<p, i>> /\ f = g
    BY <2>1, <1>2 DEF Carries
  <2> QED BY <2>2 DEF StreamInv, Counters
<1>4. \A q \in Payloads : \A j \in Indices(q) :
        arrived[q][j] \in Nat /\ arrived[q][j] <= arrived'[q][j]
  BY <1>3, ArrivedAfter DEF Comes
<1>5. handed \in [Payloads -> Nat]
  BY DEF StreamInv, Counters
<1>6. \A q \in Payloads : handed[q] \in Nat /\ handed[q] <= handed'[q]
  <2>1. CASE GivenUp(f) \/ Waits(f)
    <3>1. handed' = handed
      BY <2>1 DEF GivenUp, Waits, Keep
    <3> QED BY <3>1, <1>5
  <2>2. CASE Joins(f)
    <3>1. \E whole : handed' = [q \in Payloads |-> handed[q] + IF q \in whole THEN 1 ELSE 0]
      BY <2>2 DEF Joins, Finish, HandOver
    <3> QED BY <3>1, <1>5
  <2> QED BY <2>1, <2>2 DEF Comes
<1> QED BY <1>4, <1>6 DEF Grows, Comes

(* No step of the streams takes anything back.                             *)
LEMMA PiecesGrow ==
  ASSUME IInv, ParallelStep \/ ChunksStep
  PROVE  Grows
<1>1. StreamInv /\ ChunksInv /\ path' = path
  BY DEF IInv, ParallelStep, OnParallel, ChunksStep, OnChunks
<1>2. CASE ParallelStep
  <2>1. Parallel!Next /\ path = "parallel"
    BY <1>2 DEF ParallelStep, OnParallel
  <2>2. ASSUME NEW p \in Payloads, Parallel!Send(p) PROVE Grows
    <3>1. UNCHANGED <<arrived, handed>> /\ (astray => astray')
      BY <2>2 DEF Parallel!Send
    <3> QED BY <1>1, <3>1, RestIsGrowth
  <2>3. ASSUME NEW p \in Payloads, Parallel!Write(p) PROVE Grows
    <3>1. UNCHANGED <<arrived, handed>> /\ (astray => astray')
      BY <2>3 DEF Parallel!Write
    <3> QED BY <1>1, <3>1, RestIsGrowth
  <2>4. ASSUME NEW f \in wire, Parallel!Arrive(f) \/ Parallel!ArriveTwice(f) PROVE Grows
    BY <1>1, <2>1, <2>4, OnChunkComes, FrameIsGrowth
  <2>5. ASSUME Parallel!Mishap PROVE Grows
    <3>1. UNCHANGED <<arrived, handed>> /\ (astray => astray')
      BY <2>5 DEF Parallel!Mishap, Parallel!Lose, Parallel!GrowOld, Parallel!ends
    <3> QED BY <1>1, <3>1, RestIsGrowth
  <2> QED BY <2>1, <2>2, <2>3, <2>4, <2>5 DEF Parallel!Next, Parallel!Works
<1>3. CASE ChunksStep
  <2>1. Chunks!Next /\ path = "chunks"
    BY <1>3 DEF ChunksStep, OnChunks
  <2>2. ASSUME NEW p \in Payloads, Chunks!Send(p) \/ Chunks!WriteFails(p) \/ Chunks!Write(p)
        PROVE  Grows
    <3>1. UNCHANGED <<arrived, handed>> /\ (astray => astray')
      BY <2>2 DEF Chunks!Send, Chunks!WriteFails, Chunks!Write
    <3> QED BY <1>1, <3>1, RestIsGrowth
  <2>3. ASSUME NEW f \in wire, Chunks!Process(f) \/ Chunks!ProcessTwice(f) PROVE Grows
    BY <1>1, <2>1, <2>3, OnFrameComes, FrameIsGrowth
  <2>4. ASSUME NEW p \in Payloads, Chunks!SendSingle(p) \/ Chunks!PassSingle(p) PROVE Grows
    <3>1. UNCHANGED <<arrived, handed>> /\ (astray => astray')
      BY <2>4 DEF Chunks!SendSingle, Chunks!PassSingle, Chunks!streamVars
    <3> QED BY <1>1, <3>1, RestIsGrowth
  <2>5. ASSUME Chunks!CallbackEnds \/ Chunks!CleanupStale \/ Chunks!Mishap PROVE Grows
    <3>1. UNCHANGED <<arrived, handed>> /\ (astray => astray')
      BY <2>5 DEF Chunks!CallbackEnds, Chunks!streamVars, Chunks!CleanupStale,
                  Chunks!Mishap, Chunks!Lose, Chunks!GrowOld, Chunks!ends
    <3> QED BY <1>1, <3>1, RestIsGrowth
  <2> QED BY <2>1, <2>2, <2>3, <2>5, <2>4 DEF Chunks!Next, Chunks!Works
<1> QED BY <1>2, <1>3

(* A server reads and hands over, and takes nothing back.                   *)
Served ==
  /\ seen \in [Frames -> Nat] /\ given \in [Frames -> Nat]
  /\ \A p \in Frames : seen[p] <= seen'[p] /\ given[p] <= given'[p]

(* No step of the server takes anything back.                              *)
LEMMA ServerServes ==
  ASSUME IInv, ServerStep
  PROVE  Served
<1>1. ServerFits /\ Server!Next
  BY ServerMeans DEF IInv, ServerStep, OnServer
<1>2. /\ seen \in [Frames -> Nat] /\ given \in [Frames -> Nat]
      /\ \A p \in Frames : Num(inbox, p) \in Nat
  BY <1>1, ServerTypes DEF Server!TypeOK
<1>3. CASE UNCHANGED <<seen, given>>
  BY <1>2, <1>3 DEF Served
<1>4. CASE Server!Drain
  <2>1. /\ seen' = seen
        /\ given' = [p \in Frames |-> given[p] + Num(inbox, p)]
    BY <1>4, SameCount DEF Server!Drain
  <2> QED BY <2>1, <1>2 DEF Served
<1>5. ASSUME NEW c \in Clients, Server!ReadFrame(c) PROVE Served
  <2>1. given' = given /\ seen' = [seen EXCEPT ![Head(pipe[c])] = @ + 1]
    BY <1>5 DEF Server!ReadFrame, Server!Collect
  <2> QED BY <2>1, <1>2 DEF Served
<1>6. ASSUME ~ Server!Drain, \A c \in Clients : ~ Server!ReadFrame(c)
      PROVE  UNCHANGED <<seen, given>>
  <2>1. ASSUME NEW c \in Clients, Server!Connect(c) \/ Server!Close(c) \/ Server!Break(c)
                                   \/ Server!Accept(c) \/ Server!ReadEnd(c)
        PROVE  UNCHANGED <<seen, given>>
    BY <2>1 DEF Server!Connect, Server!Close, Server!Break, Server!Accept, Server!ReadEnd
  <2>2. ASSUME NEW c \in Clients, NEW p \in Frames,
               Server!SendFrame(c, p) \/ Server!SendInVain(c, p)
        PROVE  UNCHANGED <<seen, given>>
    BY <2>2 DEF Server!SendFrame, Server!SendInVain
  <2>3. ASSUME Server!Stop \/ Server!Stopped PROVE UNCHANGED <<seen, given>>
    BY <2>3 DEF Server!Stop, Server!Stopped
  <2> QED BY <1>1, <1>6, <2>1, <2>2, <2>3 DEF Server!Next, Server!Works
<1> QED BY <1>3, <1>4, <1>5, <1>6

(* No step of the adapter takes anything back.                             *)
LEMMA AdapterServes ==
  ASSUME IInv, AdapterStep
  PROVE  Served
<1>1. Sorts /\ Adapter!Next
  BY DEF IInv, AdapterInv, AdapterStep, OnAdapter
<1>2. seen \in [Frames -> Nat] /\ given \in [Frames -> Nat]
  BY <1>1 DEF Sorts
<1>3. ASSUME UNCHANGED <<seen, given>> PROVE Served
  BY <1>2, <1>3 DEF Served
<1>4. ASSUME seen' = seen, NEW x, given' = [given EXCEPT ![x] = @ + 1] PROVE Served
  BY <1>2, <1>4 DEF Served
<1>5. ASSUME NEW h \in Clients, NEW waiters, NEW awake, Adapter!Takes(h, waiters, awake),
             seen' = seen
      PROVE  Served
  <2>1. CASE Adapter!ReadBody(h)
    <3>1. given' = [given EXCEPT ![Head(buffer[from[h]])[2]] = @ + 1]
      BY <2>1 DEF Adapter!ReadBody
    <3> QED BY <3>1, <1>4, <1>5
  <2>2. CASE ~Adapter!ReadBody(h)
    <3>1. given' = given
      BY <2>2, <1>5 DEF Adapter!Takes, Adapter!Reads, Adapter!ReadHeader,
                       Adapter!ReadHeaderAsBody, Adapter!Ends
    <3> QED BY <3>1, <1>3, <1>5
  <2> QED BY <2>1, <2>2
<1>6. ASSUME NEW c \in Clients, Adapter!Arrive(c) PROVE Served
  <2>1. /\ given' = given
        /\ seen' = [p \in Frames |-> seen[p] + IF Head(pipe[c]) = Adapter!BodyOf(p) THEN 1 ELSE 0]
    BY <1>6 DEF Adapter!Arrive, Adapter!handlers
  <2>2. \A p \in Frames : given'[p] = given[p] /\ given[p] \in Nat
    BY <2>1, <1>2
  <2>3. \A p \in Frames : (seen'[p] = seen[p] \/ seen'[p] = seen[p] + 1) /\ seen[p] \in Nat
    BY <2>1, <1>2
  <2> QED BY <2>2, <2>3, <1>2 DEF Served
<1>7. ASSUME NEW h \in Clients, Adapter!Read(h) \/ Adapter!Resume(h) PROVE Served
  <2>1. seen' = seen
    BY <1>7 DEF Adapter!Read, Adapter!Resume
  <2>2. CASE \E waiters, awake : Adapter!Takes(h, waiters, awake)
    BY <2>1, <2>2, <1>5
  <2>3. CASE ~\E waiters, awake : Adapter!Takes(h, waiters, awake)
    <3>1. given' = given
      BY <2>3, <1>7 DEF Adapter!Read, Adapter!Resume, Adapter!Ends
    <3> QED BY <3>1, <2>1, <1>3
  <2> QED BY <2>2, <2>3
<1>8. ASSUME NEW c \in Clients,
             Adapter!Connect(c) \/ Adapter!Disconnect(c) \/ Adapter!Break(c)
               \/ Adapter!Start(c) \/ Adapter!CallbackEnds(c)
      PROVE  UNCHANGED <<seen, given>>
  BY <1>8 DEF Adapter!Connect, Adapter!Disconnect, Adapter!Break, Adapter!Start,
              Adapter!CallbackEnds, Adapter!Ends
<1>9. ASSUME NEW c \in Clients, NEW p \in Frames,
             Adapter!SendFrame(c, p) \/ Adapter!SendInVain(c, p)
      PROVE  UNCHANGED <<seen, given>>
  BY <1>9 DEF Adapter!SendFrame, Adapter!SendInVain
<1>10. ASSUME Adapter!Close \/ Adapter!Closed PROVE UNCHANGED <<seen, given>>
  BY <1>10 DEF Adapter!Close, Adapter!Closed
<1> QED
  BY <1>1, <1>3, <1>6, <1>7, <1>8, <1>9, <1>10 DEF Adapter!Next, Adapter!Works

-----------------------------------------------------------------------------
(* The refinement of PayloadTransfer.                                       *)
(* What the abstract specification is of, on each path.                     *)
Came == IF InFrames THEN OfFrames(seen) ELSE Copies
Gone == IF InFrames THEN OfFrames(given) ELSE handed
Mixed == \E p \in garbled : path = "chunks" \/ Parallel!Fits(p)

Honest ==
  ~Mixed /\ \A p \in Payloads : handed[p] \in Nat /\ Copies[p] \in Nat /\ handed[p] <= Copies[p]

(* Unless the sender went astray, what was handed over had come, and       *)
(* nothing was mixed.                                                      *)
LEMMA OwnedIsHonest == StreamInv /\ ~astray => Honest
<1> SUFFICES ASSUME StreamInv, ~astray PROVE Honest
  OBVIOUS
<1>1. Owned /\ Counters
  BY DEF StreamInv
<1>2. \A p \in garbled : ~(path = "chunks" \/ Parallel!Fits(p))
  BY <1>1 DEF Owned, Fitting, Parallel!Fits
<1>3. ASSUME NEW p \in Payloads
      PROVE  handed[p] \in Nat /\ Copies[p] \in Nat /\ handed[p] <= Copies[p]
  <2>1. arrived[p] \in [Indices(p) -> Nat] /\ handed[p] \in Nat
    BY <1>1 DEF Counters
  <2>2. Copies[p] = Least(p, arrived[p])
    BY DEF Copies, Least
  <2>3. /\ Least(p, arrived[p]) \in Nat
        /\ Pieces[p] # 0 => \E i \in Indices(p) : Least(p, arrived[p]) = arrived[p][i]
    BY <2>1, LeastIs
  <2>4. \A i \in Indices(p) : handed[p] <= arrived[p][i]
    <3> TAKE i \in Indices(p)
    <3>1. handed[p] + (IF Kept(p, i) THEN 1 ELSE 0) <= arrived[p][i]
      BY <1>1 DEF Owned
    <3>2. arrived[p][i] \in Nat
      BY <2>1
    <3> QED BY <3>1, <3>2, <2>1
  <2>5. Pieces[p] = 0 => handed[p] = 0
    BY <1>1 DEF Counters
  <2>6. handed[p] <= Least(p, arrived[p])
    BY <2>1, <2>3, <2>4, <2>5
  <2> QED BY <2>1, <2>2, <2>3, <2>6
<1> QED BY <1>2, <1>3 DEF Honest, Mixed

(* The same of the next state.                                             *)
LEMMA HonestNext == StreamInv' /\ ~astray' => Honest'
BY OwnedIsHonest, PTL

(* What came whole stays so.                                               *)
LEMMA CopiesGrow ==
  ASSUME StreamInv, StreamInv', Grows
  PROVE  \A p \in Payloads : Copies[p] <= Copies'[p]
<1> TAKE p \in Payloads
<1>1. arrived[p] \in [Indices(p) -> Nat] /\ arrived'[p] \in [Indices(p) -> Nat]
  BY DEF StreamInv, Counters
<1>2. Copies[p] = Least(p, arrived[p]) /\ Copies'[p] = Least(p, arrived'[p])
  BY DEF Copies, Least
<1>3. CASE Pieces[p] = 0
  BY <1>2, <1>3 DEF Least
<1>4. CASE Pieces[p] # 0
  <2>1. PICK i \in Indices(p) : Least(p, arrived'[p]) = arrived'[p][i]
    BY <1>1, <1>4, LeastIs
  <2>2. Least(p, arrived[p]) \in Nat /\ Least(p, arrived[p]) <= arrived[p][i]
    BY <1>1, <1>4, LeastIs
  <2>3. arrived[p][i] \in Nat /\ arrived[p][i] <= arrived'[p][i] /\ arrived'[p][i] \in Nat
    BY <1>1 DEF Grows
  <2>4. Least(p, arrived[p]) <= Least(p, arrived'[p])
    BY <2>1, <2>2, <2>3
  <2> QED BY <1>2, <2>4
<1> QED BY <1>3, <1>4

(* Where no stream is used, the frames that were read are the copies.      *)
LEMMA FramesServed ==
  ASSUME InFrames, path' = path, Served, \A p \in Frames : given'[p] <= seen'[p]
  PROVE  \A p \in Payloads : /\ Came[p] <= Came'[p] /\ Gone[p] <= Gone'[p]
                             /\ Gone'[p] <= Came'[p]
<1>1. InFrames'
  BY DEF InFrames
<1>2. Came = OfFrames(seen) /\ Gone = OfFrames(given)
  BY DEF Came, Gone
<1>3. Came' = OfFrames(seen') /\ Gone' = OfFrames(given')
  BY <1>1 DEF Came, Gone, OfFrames
<1> TAKE p \in Payloads
<1>4. CASE p \in Frames
  BY <1>2, <1>3, <1>4 DEF OfFrames, Served
<1>5. CASE p \notin Frames
  BY <1>2, <1>3, <1>5 DEF OfFrames
<1> QED BY <1>4, <1>5

(* A step after which the sender is not astray is one of the abstract      *)
(* specification.                                                          *)
LEMMA HonestStep ==
  ASSUME IInv, IInv', [Next]_vars, ~astray'
  PROVE  /\ Mixed' = Mixed
         /\ \A p \in Payloads : /\ Came[p] <= Came'[p] /\ Gone[p] <= Gone'[p]
                                /\ Gone'[p] <= Came'[p]
<1>1. StreamInv /\ StreamInv'
  BY DEF IInv
<1>2. path' = path /\ path \in Paths
  BY <1>1 DEF StreamInv, Next, ParallelStep, ChunksStep, ServerStep, AdapterStep,
              OnParallel, OnChunks, OnServer, OnAdapter, vars
<1>3. ~astray
  <2>1. CASE ParallelStep \/ ChunksStep
    BY <2>1, PiecesGrow DEF Grows
  <2>2. CASE ServerStep \/ AdapterStep \/ UNCHANGED vars
    BY <2>2 DEF ServerStep, AdapterStep, OnServer, OnAdapter, streamVars, vars
  <2> QED BY <2>1, <2>2 DEF Next
<1>4. ~Mixed
  BY <1>1, <1>3, OwnedIsHonest DEF Honest
<1>5. /\ ~Mixed'
      /\ \A p \in Payloads : handed'[p] <= Copies'[p]
  BY <1>1, HonestNext DEF Honest
<1>6. Mixed' = Mixed
  BY <1>4, <1>5 DEF Mixed
<1>7. CASE ~InFrames
  <2>1. ~InFrames'
    BY <1>2, <1>7 DEF InFrames
  <2>2. Came = Copies /\ Gone = handed /\ Came' = Copies' /\ Gone' = handed'
    BY <1>7, <2>1 DEF Came, Gone
  <2>3. Grows
    <3>1. CASE ParallelStep \/ ChunksStep
      BY <3>1, PiecesGrow
    <3>2. CASE ServerStep \/ AdapterStep
      BY <3>2, <1>7 DEF InFrames, ServerStep, AdapterStep, OnServer, OnAdapter
    <3>3. CASE UNCHANGED vars
      BY <3>3, <1>1, RestIsGrowth DEF vars, streamVars
    <3> QED BY <3>1, <3>2, <3>3 DEF Next
  <2>4. \A p \in Payloads : Copies[p] <= Copies'[p]
    BY <1>1, <2>3, CopiesGrow
  <2> QED BY <1>5, <1>6, <2>2, <2>3, <2>4 DEF Grows
<1>8. CASE InFrames
  <2>1. \A p \in Frames : given'[p] <= seen'[p]
    <3>1. CASE path = "server"
      <4>1. ServerFits'
        BY <3>1, <1>2, ServerMeansNext DEF IInv
      <4>2. \A p \in Frames : seen'[p] = given'[p] + Num(inbox', p)
        BY <4>1 DEF ServerFits
      <4>3. given' \in [Frames -> Nat] /\ inbox' \in Seq(Frames)
        BY <4>1 DEF ServerFits, Server!TypeOK
      <4>4. \A p \in Frames : given'[p] \in Nat /\ Num(inbox', p) \in Nat
        BY <4>3, NumOfParts
      <4> QED BY <4>2, <4>4
    <3>2. CASE path = "adapter"
      <4>1. Sorts' /\ Flows'
        BY <3>2, <1>2 DEF IInv, AdapterInv
      <4>2. \A p \in Frames : given'[p] \in Nat /\ seen'[p] \in Nat
        BY <4>1 DEF Sorts
      <4>3. \A p \in Frames : Held(buffer', Adapter!BodyOf(p)) + given'[p] <= seen'[p]
        BY <4>1 DEF Flows, Body, Adapter!BodyOf
      <4>4. buffer' \in [Clients -> Seq(Tokens)]
        BY <4>1 DEF Sorts, Tokens, Adapter!Tokens
      <4>5. \A x : Held(buffer', x) \in Nat
        <5> TAKE x
        <5>1. PICK g : g = [c \in Clients |-> Num(buffer'[c], x)]
          OBVIOUS
        <5>2. \A c \in Clients : buffer'[c] \in Seq(Tokens)
          BY <4>4
        <5>3. g \in [Clients -> Nat]
          BY <5>1, <5>2, NumOfParts
        <5> QED BY <5>1, <5>3, ClientsAssumption, SumIsNatural DEF Held
      <4> QED BY <4>2, <4>3, <4>5
    <3> QED BY <3>1, <3>2, <1>8 DEF InFrames
  <2>2. Served
    <3>1. CASE ServerStep
      BY <3>1, ServerServes
    <3>2. CASE AdapterStep
      BY <3>2, AdapterServes
    <3>3. CASE ParallelStep \/ ChunksStep
      BY <3>3, <1>8 DEF InFrames, ParallelStep, ChunksStep, OnParallel, OnChunks
    <3>4. CASE UNCHANGED vars
      <4>1. seen' = seen /\ given' = given
        BY <3>4 DEF vars, serverVars
      <4>2. seen \in [Frames -> Nat] /\ given \in [Frames -> Nat]
        BY <1>8, ServerMeans DEF IInv, InFrames, AdapterInv, Sorts, ServerFits, Server!TypeOK
      <4> QED BY <4>1, <4>2 DEF Served
    <3> QED BY <3>1, <3>2, <3>3, <3>4 DEF Next
  <2> QED BY <1>2, <1>6, <1>8, <2>1, <2>2, FramesServed
<1> QED BY <1>7, <1>8

(* The initial states are initial states of PayloadTransfer.               *)
LEMMA AbstractStart == Init => Abstract!Init
<1> SUFFICES ASSUME Init PROVE Abstract!Init
  OBVIOUS
<1>1. /\ arrived = [p \in Payloads |-> [i \in Indices(p) |-> 0]]
      /\ handed = [p \in Payloads |-> 0] /\ garbled = {} /\ astray = FALSE
      /\ seen = [p \in Frames |-> 0] /\ given = [p \in Frames |-> 0]
  BY SameFrames DEF Init, Parallel!Init, Parallel!StreamsInit, Server!Init, Server!None
<1>2. Copies = [p \in Payloads |-> 0]
  <2>1. ASSUME NEW p \in Payloads PROVE Copies[p] = 0
    <3>1. arrived[p] \in [Indices(p) -> Nat] /\ \A i \in Indices(p) : arrived[p][i] = 0
      BY <1>1
    <3>2. /\ Copies[p] = Least(p, arrived[p])
          /\ Pieces[p] = 0 => Least(p, arrived[p]) = 0
      BY DEF Copies, Least
    <3>3. Pieces[p] # 0 => \E i \in Indices(p) : Least(p, arrived[p]) = arrived[p][i]
      BY <3>1, LeastIs
    <3> QED BY <3>1, <3>2, <3>3
  <2> QED BY <2>1 DEF Copies
<1>3. OfFrames(seen) = [p \in Payloads |-> 0] /\ OfFrames(given) = [p \in Payloads |-> 0]
  BY <1>1 DEF OfFrames
<1> QED BY <1>1, <1>2, <1>3 DEF Abstract!Init

(* Every step is one of PayloadTransfer, or changes nothing of it.         *)
LEMMA AbstractStep == IInv /\ IInv' /\ [Next]_vars => [Abstract!Next]_Abstract!vars
<1> SUFFICES ASSUME IInv, IInv', [Next]_vars PROVE [Abstract!Next]_Abstract!vars
  OBVIOUS
<1>1. CASE astray'
  BY <1>1 DEF Abstract!Next
<1>2. CASE ~astray'
  BY <1>2, HonestStep DEF Abstract!Next, Abstract!Transfer, Came, Gone, Mixed
<1> QED BY <1>1, <1>2

(* Every one of the four ways of a payload implements PayloadTransfer: a    *)
(* payload is handed over whole, and never more often than all of it came,  *)
(* for any payloads cut into any number of pieces, any widths of the        *)
(* fields, any number of streams, clients and faults.                       *)
THEOREM Implements == Spec => TransfersPayloads
<1>1. Init => Abstract!Init
  BY AbstractStart
<1>2. IInv /\ IInv' /\ [Next]_vars => [Abstract!Next]_Abstract!vars
  BY AbstractStep
<1> QED BY <1>1, <1>2, Invariance, PTL DEF Spec, TransfersPayloads, Abstract!Spec
=============================================================================
