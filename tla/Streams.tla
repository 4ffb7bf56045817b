------------------------------ MODULE Streams ------------------------------
(***************************************************************************)
(* What the two ways of sending a large payload in pieces have in common:  *)
(* frames that carry one piece each, a network between the ends, a buffer  *)
(* for every stream at the receiver, and a record of what was handed over. *)
(* ParallelStreams and ChunkReassembly are the two ends of each way.       *)
(***************************************************************************)
EXTENDS Naturals, Sequences, FiniteSets, FiniteSetsExt, Functions

CONSTANTS
  Payloads,
  Pieces,     \* how many pieces a payload is cut into
  MaxFaults   \* bound: what the network and the clock may do wrong

ASSUME StreamsAssumption ==
  /\ Pieces \in [Payloads -> Nat]
  /\ MaxFaults \in Nat

VARIABLES
  sent,      \* payloads given to the sender
  todo,      \* for each payload the writes that remain, each a set of frames
  wire,      \* frames that are on their way
  buffers,   \* the open streams of the receiver, by id
  arrived,   \* how often each piece came
  handed,    \* how often each payload was handed over
  garbled,   \* payloads whose pieces were handed over as something else
  faults,    \* losses, repeats, failures and expiries so far
  astray     \* an id was given out while the last stream with it was alive

ends == <<sent, todo, buffers, handed, garbled, astray>>
streamVars == <<sent, todo, wire, buffers, arrived, handed, garbled, faults, astray>>

Indices(p) == {n - 1 : n \in 1..Pieces[p]}
NewBuffer(total) == [total |-> total, got |-> << >>, old |-> FALSE]

StreamsInit ==
  /\ sent = {}
  /\ todo = [p \in Payloads |-> << >>]
  /\ wire = {}
  /\ buffers = << >>
  /\ arrived = [p \in Payloads |-> [i \in Indices(p) |-> 0]]
  /\ handed = [p \in Payloads |-> 0]
  /\ garbled = {}
  /\ faults = 0
  /\ astray = FALSE

Put(f, k, v) == [x \in DOMAIN f \cup {k} |-> IF x = k THEN v ELSE f[x]]
Drop(f, k) == Restrict(f, DOMAIN f \ {k})

(* Frames of a stream that are still to come, written or not.               *)
Unwritten == UNION {UNION Range(todo[p]) : p \in Payloads}
ToCome == wire \cup Unwritten
InUse(id) == id \in DOMAIN buffers \/ \E f \in ToCome : f.id = id

-----------------------------------------------------------------------------
(* The receiver.  The buffer of a frame's stream is opened by its first     *)
(* frame; a piece that came before is replaced.                             *)
BufferOf(f) == IF f.id \in DOMAIN buffers THEN buffers[f.id] ELSE NewBuffer(f.total)
WithPieceOf(f) == [BufferOf(f) EXCEPT !.got = Put(@, f.index, f.piece)]

Complete(b) == Cardinality(DOMAIN b.got) = b.total
Joinable(b) == DOMAIN b.got = {n - 1 : n \in 1..b.total}

(* The pieces of a payload, each at its place.                              *)
Whole(p, got) ==
  /\ DOMAIN got = Indices(p)
  /\ \A i \in DOMAIN got : got[i] = <<p, i>>

HandOver(got) ==
  LET whole == {p \in Payloads : Pieces[p] > 0 /\ Whole(p, got)}
  IN  /\ handed' = [p \in Payloads |-> handed[p] + IF p \in whole THEN 1 ELSE 0]
      /\ garbled' = garbled \cup IF whole = {} THEN {piece[1] : piece \in Range(got)} ELSE {}

Keep(id, b) == buffers' = Put(buffers, id, b) /\ UNCHANGED <<handed, garbled>>
Finish(id, b) == buffers' = Drop(buffers, id) /\ HandOver(b.got)

Take(f) == arrived' = [arrived EXCEPT ![f.piece[1]][f.piece[2]] = @ + 1]

-----------------------------------------------------------------------------
(* The network and the clock.                                               *)
Fault == faults < MaxFaults /\ faults' = faults + 1

Lose(f) ==
  /\ Fault
  /\ wire' = wire \ {f}
  /\ UNCHANGED <<ends, arrived>>

(* A stream has been open for longer than the timeout.                      *)
GrowOld(id) ==
  /\ Fault
  /\ ~buffers[id].old
  /\ buffers' = [buffers EXCEPT ![id].old = TRUE]
  /\ UNCHANGED <<sent, todo, wire, arrived, handed, garbled, astray>>

Mishap ==
  \/ \E f \in wire : Lose(f)
  \/ \E id \in DOMAIN buffers : GrowOld(id)

-----------------------------------------------------------------------------
(* How often all the pieces of a payload came.                              *)
Copies == [p \in Payloads |->
             IF Pieces[p] = 0 THEN 0 ELSE Min({arrived[p][i] : i \in Indices(p)})]

StreamsTypeOK ==
  /\ sent \subseteq Payloads
  /\ \A f \in ToCome : f.piece[1] \in sent /\ f.piece[2] \in Indices(f.piece[1])
  /\ \A id \in DOMAIN buffers :
       /\ buffers[id].total \in Nat
       /\ buffers[id].old \in BOOLEAN
       /\ \A i \in DOMAIN buffers[id].got : buffers[id].got[i][1] \in sent
  /\ \A p \in Payloads : arrived[p] \in [Indices(p) -> Nat]
  /\ handed \in [Payloads -> Nat]
  /\ garbled \subseteq sent
  /\ faults \in 0..MaxFaults
  /\ astray \in BOOLEAN
=============================================================================
