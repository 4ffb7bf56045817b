-------------------------- MODULE ParallelStreams --------------------------
(***************************************************************************)
(* transport/parallel_sender.py: ParallelSender cuts a payload and writes  *)
(* its pieces in several tasks, one for each stream; ParallelReceiver puts *)
(* them together.  A stream id, an index and a total have 16 bits: modulo  *)
(* Width here.                                                             *)
(***************************************************************************)
EXTENDS Streams

CONSTANTS
  Width,      \* 2^16
  IdSpace,    \* 2^16: fewer ids than Width make reuse happen early
  NStreams

VARIABLE counter  \* _stream_counter

vars == <<streamVars, counter>>

Init == StreamsInit /\ counter = 0

Frame(id, p, i) ==
  [id |-> id, index |-> i % Width, total |-> Pieces[p] % Width, piece |-> <<p, i>>]

RoundRobinFromOne(id, p, s) ==                            \* mutant of RoundRobin
  {Frame(id, p, i) : i \in {j \in 1..Pieces[p] : j % NStreams = s}}
(* The pieces of stream s.  An empty stream starts no task: with fewer      *)
(* pieces than streams, those are the last ones.                            *)
RoundRobin(id, p, s) == {Frame(id, p, i) : i \in {j \in Indices(p) : j % NStreams = s}}
Tasks(id, p) ==
  [s \in {n \in 1..NStreams : n <= Pieces[p]} |-> RoundRobin(id, p, s - 1)]

Send(p) ==
  LET id == (counter + 1) % IdSpace
  IN  /\ p \notin sent
      /\ sent' = sent \cup {p}
      /\ counter' = counter + 1
      /\ todo' = [todo EXCEPT ![p] = Tasks(id, p)]
      /\ astray' = (astray \/ InUse(id))
      /\ UNCHANGED <<wire, buffers, arrived, handed, garbled, faults>>

(* A task writes its pieces and waits for the writer to drain.              *)
Write(p) ==
  /\ todo[p] # << >>
  /\ wire' = wire \cup Head(todo[p])
  /\ todo' = [todo EXCEPT ![p] = Tail(@)]
  /\ UNCHANGED <<sent, counter, buffers, arrived, handed, garbled, faults, astray>>

(* on_chunk.  An old stream is given up when its next piece comes, and the  *)
(* piece with it.  A total that wrapped makes a few pieces look complete:   *)
(* they are joined, or an index beyond the total raises KeyError and the    *)
(* buffer stays.                                                            *)
Forget(f) ==
  /\ BufferOf(f).old
  /\ buffers' = Drop(buffers, f.id)
  /\ UNCHANGED <<handed, garbled>>

OnChunkKeepsBuffer(f) ==                               \* mutant of OnChunk
  LET b == WithPieceOf(f)
  IN  \/ Forget(f)
      \/ ~b.old /\ ~(Complete(b) /\ Joinable(b)) /\ Keep(f.id, b)
      \/ ~b.old /\ Complete(b) /\ Joinable(b)
         /\ buffers' = Put(buffers, f.id, b) /\ HandOver(b.got)

OnChunk(f) ==
  LET b == WithPieceOf(f)
  IN  \/ Forget(f)
      \/ ~b.old /\ ~(Complete(b) /\ Joinable(b)) /\ Keep(f.id, b)
      \/ ~b.old /\ Complete(b) /\ Joinable(b) /\ Finish(f.id, b)

Arrive(f) ==
  /\ wire' = wire \ {f}
  /\ Take(f)
  /\ OnChunk(f)
  /\ UNCHANGED <<sent, todo, counter, faults, astray>>

(* The network repeats a frame: the frame that stays may come again.        *)
ArriveTwice(f) ==
  /\ Fault
  /\ Take(f)
  /\ OnChunk(f)
  /\ UNCHANGED <<sent, todo, wire, counter, astray>>

Works == (\E p \in Payloads : Write(p)) \/ (\E f \in wire : Arrive(f))

Next ==
  \/ \E p \in Payloads : Send(p)
  \/ Works
  \/ \E f \in wire : ArriveTwice(f)
  \/ Mishap /\ UNCHANGED counter

-----------------------------------------------------------------------------
(* The payloads whose number of pieces fits the frame.                      *)
Fits(p) == Pieces[p] < Width

TypeOK == StreamsTypeOK /\ counter \in 0..Cardinality(Payloads)

(* While nothing goes wrong, a payload that was not handed over is on its   *)
(* way, none is handed over twice, and a buffer waits only for pieces that  *)
(* will come.                                                               *)
NothingStuck ==
  faults = 0 /\ ~astray =>
    /\ \A p \in sent : Fits(p) /\ Pieces[p] > 0 =>
         handed[p] = IF \E f \in ToCome : f.piece[1] = p THEN 0 ELSE 1
    /\ \A id \in DOMAIN buffers :
         \/ \E f \in ToCome : f.id = id
         \/ \E i \in DOMAIN buffers[id].got : ~Fits(buffers[id].got[i][1])

(* A payload that was sent is due until it is handed over, unless something *)
(* goes wrong on its way.                                                   *)
Due(p) == p \in sent /\ Fits(p) /\ Pieces[p] > 0
Settled(p) == handed[p] > 0 \/ faults > 0 \/ astray
=============================================================================
