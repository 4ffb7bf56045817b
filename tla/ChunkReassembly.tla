-------------------------- MODULE ChunkReassembly --------------------------
(***************************************************************************)
(* AdaptiveChunker (chunking/adaptive_chunker.py) sends a payload as a     *)
(* sequence of batch frames through an adapter; ChunkReassembler           *)
(* (chunking/reassembler.py) puts them together under a lock that it also  *)
(* holds while it awaits its callback.  A stream id is a fresh UUID: the   *)
(* payload itself here.  A frame that waits for the lock is still on the   *)
(* wire: nothing of it is used before.                                     *)
(***************************************************************************)
EXTENDS Streams

CONSTANT NoStream

VARIABLES
  calling,  \* stream whose callback is awaited: the lock is taken
  single    \* payloads sent as one frame: "not", "sent", or "done" for good

vars == <<streamVars, calling, single>>

Init ==
  /\ StreamsInit
  /\ calling = NoStream
  /\ single = [p \in Payloads |-> "not"]

Frame(p, i) == [id |-> p, index |-> i, total |-> Pieces[p], piece |-> <<p, i>>]

(* send() of less than the threshold, by _send_single: one frame, without a *)
(* header.                                                                  *)
SendSingle(p) ==
  /\ p \notin sent /\ single[p] = "not"
  /\ Pieces[p] <= 1
  /\ single' = [single EXCEPT ![p] = "sent"]
  /\ UNCHANGED <<streamVars, calling>>

(* process_subframes looks for the header before it takes the lock, and has *)
(* nothing to hand over; or the frame is lost.                              *)
PassSingle(p) ==
  /\ single[p] = "sent"
  /\ single' = [single EXCEPT ![p] = "done"]
  /\ UNCHANGED <<streamVars, calling>>

(* send() of more: one frame after the other.                               *)
Send(p) ==
  /\ p \notin sent /\ single[p] = "not"
  /\ sent' = sent \cup {p}
  /\ todo' = [todo EXCEPT ![p] = [i \in 1..Pieces[p] |-> {Frame(p, i - 1)}]]
  /\ UNCHANGED <<wire, buffers, arrived, handed, garbled, faults, astray, calling, single>>

(* send_frame() takes the next batch.                                       *)
Write(p) ==
  /\ todo[p] # << >>
  /\ wire' = wire \cup Head(todo[p])
  /\ todo' = [todo EXCEPT ![p] = Tail(@)]
  /\ UNCHANGED <<sent, buffers, arrived, handed, garbled, faults, astray, calling, single>>

(* It returns False, which _send_chunked does not look at, or it raises and *)
(* the batches that remain are never sent.                                  *)
WriteFails(p) ==
  /\ todo[p] # << >>
  /\ Fault
  /\ todo' \in {[todo EXCEPT ![p] = Tail(@)], [todo EXCEPT ![p] = << >>]}
  /\ UNCHANGED <<sent, wire, buffers, arrived, handed, garbled, astray, calling, single>>

(* process_subframes: a complete payload goes to on_complete, which is      *)
(* awaited, or is returned at once where there is none.                     *)
OnFrameEager(f) ==                                        \* mutant of OnFrame
  LET b == WithPieceOf(f)
  IN  \/ /\ Cardinality(DOMAIN b.got) < b.total - 1
         /\ Keep(f.id, b)
         /\ UNCHANGED calling
      \/ /\ Cardinality(DOMAIN b.got) >= b.total - 1
         /\ Finish(f.id, b)
         /\ calling' \in {NoStream, f.id}

OnFrame(f) ==
  LET b == WithPieceOf(f)
  IN  \/ /\ ~Complete(b)
         /\ Keep(f.id, b)
         /\ UNCHANGED calling
      \/ /\ Complete(b)
         /\ Finish(f.id, b)
         /\ calling' \in {NoStream, f.id}

Process(f) ==
  /\ calling = NoStream
  /\ wire' = wire \ {f}
  /\ Take(f)
  /\ OnFrame(f)
  /\ UNCHANGED <<sent, todo, faults, astray, single>>

ProcessTwice(f) ==
  /\ calling = NoStream
  /\ Fault
  /\ Take(f)
  /\ OnFrame(f)
  /\ UNCHANGED <<sent, todo, wire, astray, single>>

(* The callback returns or raises: either way the lock is released.         *)
CallbackEnds ==
  /\ calling # NoStream
  /\ calling' = NoStream
  /\ UNCHANGED <<streamVars, single>>

(* cleanup_stale: all the old streams go.                                   *)
CleanupStale ==
  /\ calling = NoStream
  /\ \E id \in DOMAIN buffers : buffers[id].old
  /\ buffers' = RestrictValues(buffers, LAMBDA b : ~b.old)
  /\ UNCHANGED <<sent, todo, wire, arrived, handed, garbled, faults, astray, calling, single>>

Works ==
  \/ \E p \in Payloads : Write(p) \/ PassSingle(p)
  \/ \E f \in wire : Process(f)
  \/ CallbackEnds

Next ==
  \/ \E p \in Payloads : Send(p) \/ SendSingle(p) \/ WriteFails(p)
  \/ Works
  \/ \E f \in wire : ProcessTwice(f)
  \/ CleanupStale
  \/ Mishap /\ UNCHANGED <<calling, single>>

-----------------------------------------------------------------------------
TypeOK ==
  /\ StreamsTypeOK
  /\ calling \in DOMAIN todo \cup {NoStream}
  /\ single \in [Payloads -> {"not", "sent", "done"}]

(* While nothing goes wrong, a payload in pieces that was not handed over   *)
(* is on its way, none is handed over twice, and a buffer waits only for pieces that  *)
(* will come.                                                               *)
NothingStuck ==
  faults = 0 =>
    /\ \A p \in sent : Pieces[p] > 0 =>
         handed[p] = IF \E f \in ToCome : f.piece[1] = p THEN 0 ELSE 1
    /\ \A id \in DOMAIN buffers : \E f \in ToCome : f.id = id

(* A payload that was sent is due until it is handed over, unless something *)
(* goes wrong on its way.                                                   *)
Due(p) == p \in sent /\ Pieces[p] > 0
Settled(p) == handed[p] > 0 \/ faults > 0
=============================================================================
