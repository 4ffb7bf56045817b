---------------------------- MODULE GhostSession ----------------------------
(***************************************************************************)
(* Two ends of a ghost session (session/ghost_session.py): the sender's    *)
(* window of frames that wait for their implicit acknowledgement, with the *)
(* GhostWindow of the Rust core that mirrors it (qdap_core/src/            *)
(* ghost_session.rs) and the Markov model of the channel (markov.py), and  *)
(* the receiver's set of sequence numbers.  The network loses, repeats and *)
(* reorders frames.  Every method runs without an await.                   *)
(***************************************************************************)
EXTENDS Integers, FiniteSets, SequencesExt

CONSTANTS
  Seqs,         \* sequence numbers the caller uses
  MaxWindow,    \* MAX_WINDOW_SIZE of the window and max_size of its mirror
  MaxReceived,  \* _max_received_seq_window
  MaxClock,     \* bound: ticks of the monotonic clock
  MaxSends      \* bound: calls of send()

ASSUME SeqsAssumption == Seqs \subseteq Nat /\ IsFiniteSet(Seqs)
ASSUME WindowAssumption == MaxWindow \in Nat /\ MaxWindow >= 3
ASSUME ReceivedAssumption == MaxReceived \in Nat \ {0}
ASSUME GhostBoundsAssumption == MaxClock \in Nat /\ MaxSends \in Nat

VARIABLES
  window,    \* ghost_window: the time each entry was sent at, or Absent
  mirror,    \* _rust_window, likewise
  clock,     \* time.monotonic_ns(), which need not advance between calls
  chain,     \* loss_model: current state, and row by row the chance of "bad"
  sent, acked, lost,  \* _total_sent, _total_acked, _total_lost_detected
  received,  \* the receiver's _received_seqs
  network,   \* history: sequence numbers sent so far
  accepted,  \* history: those on_receive() has returned
  resent,    \* history: sends that replaced an entry of the window
  detected,  \* history: those detect_loss() has returned
  tied       \* history: were two entries sent at the same reading?

sender == <<window, mirror, clock, chain, sent, acked, lost, network, resent, detected, tied>>
receiver == <<received, accepted>>
ghostVars == <<sender, receiver>>

Absent == 0
Pending(w) == {s \in Seqs : w[s] # Absent}

GhostInit ==
  /\ window = [s \in Seqs |-> Absent]
  /\ mirror = [s \in Seqs |-> Absent]
  /\ clock = 1
  /\ chain = [state |-> "good", good |-> 50, bad |-> 200]
  /\ sent = 0 /\ acked = 0 /\ lost = 0 /\ resent = 0
  /\ received = {} /\ network = {} /\ accepted = {} /\ detected = {}
  /\ tied = FALSE

-----------------------------------------------------------------------------
(* mutant of Observed: the decayed value is not scaled                      *)
ObservedUnscaled(m, what) ==
  [m EXCEPT ![m.state] = IF what = "bad" THEN @ + (1000 - @) \div 10 ELSE @ * 9,
            !.state = what]

(* AdaptiveMarkovChain: the row of the current state moves by a tenth       *)
(* towards what was observed (in thousandths, rounded down).                *)
BadProbability(m) == m[m.state]
Observed(m, what) ==
  [m EXCEPT ![m.state] = IF what = "bad" THEN @ + (1000 - @) \div 10 ELSE (@ * 9) \div 10,
            !.state = what]

(* The oldest quarter of a window that has grown too large: both sides sort *)
(* by the time of sending and may break a tie differently.                  *)
OldestOf(w, n) ==
  {v \in SUBSET Pending(w) :
     Cardinality(v) = n /\ \A x \in v, y \in Pending(w) \ v : w[x] <= w[y]}
Without(w, gone) == [s \in Seqs |-> IF s \in gone THEN Absent ELSE w[s]]

Victims(w) ==
  IF Cardinality(Pending(w)) > MaxWindow
  THEN OldestOf(w, Cardinality(Pending(w)) \div 4) ELSE {{}}

(* GhostWindow::add and implicit_ack.                                       *)
Added(w, s, at) ==
  LET all == [w EXCEPT ![s] = at] IN {Without(all, evicted) : evicted \in Victims(all)}
Acknowledged(w, s) == [w EXCEPT ![s] = Absent]

(* mutant of GhostSend: what the window evicts stays in its mirror          *)
SendEvictsOnce(s) ==
  LET w == [window EXCEPT ![s] = clock']
      m == [mirror EXCEPT ![s] = clock']
  IN  /\ sent < MaxSends
      /\ clock' \in {clock, clock + 1} /\ clock' <= MaxClock
      /\ mirror' = m
      /\ \E evicted \in Victims(w) :
           /\ window' = Without(w, evicted)
           /\ lost' = lost + Cardinality(evicted)
      /\ sent' = sent + 1
      /\ network' = network \cup {s}
      /\ resent' = IF window[s] # Absent THEN resent + 1 ELSE resent
      /\ tied' = (tied \/ \E x \in Pending(window) \ {s} : window[x] = clock')
      /\ UNCHANGED <<chain, acked, detected, receiver>>

(* send(): the mirror evicts in its own add(), then _cleanup_window evicts  *)
(* here and removes the same numbers from the mirror.                       *)
GhostSend(s) ==
  LET w == [window EXCEPT ![s] = clock']
  IN  /\ sent < MaxSends
      /\ clock' \in {clock, clock + 1} /\ clock' <= MaxClock
      /\ \E evicted \in Victims(w), m \in Added(mirror, s, clock') :
           /\ window' = Without(w, evicted)
           /\ mirror' = Without(m, evicted)
           /\ lost' = lost + Cardinality(evicted)
      /\ sent' = sent + 1
      /\ network' = network \cup {s}
      /\ resent' = IF window[s] # Absent THEN resent + 1 ELSE resent
      /\ tied' = (tied \/ \E x \in Pending(window) \ {s} : window[x] = clock')
      /\ UNCHANGED <<chain, acked, detected, receiver>>

(* mutant of ImplicitAck: every call counts                                 *)
ImplicitAckTwice(s) ==
  /\ s \in accepted
  /\ acked < MaxSends
  /\ window' = [window EXCEPT ![s] = Absent]
  /\ mirror' = [mirror EXCEPT ![s] = Absent]
  /\ chain' = Observed(chain, "good")
  /\ acked' = acked + 1
  /\ UNCHANGED <<clock, sent, lost, network, resent, detected, tied, receiver>>

(* implicit_ack(), called for what the other end has verified.              *)
ImplicitAck(s) ==
  /\ s \in accepted
  /\ window[s] # Absent
  /\ window' = [window EXCEPT ![s] = Absent]
  /\ mirror' = Acknowledged(mirror, s)
  /\ chain' = Observed(chain, "good")
  /\ acked' = acked + 1
  /\ UNCHANGED <<clock, sent, lost, network, resent, detected, tied, receiver>>

(* detect_loss(), with the entries older than 2.5 round trips in `old`.     *)
(* The confidence in a loss is 0.5 and the chance of "bad" together, times  *)
(* a factor below 1 that grows with age; 1 here, so no loss is missed that  *)
(* the code would find.                                                     *)
Examined(found, s) ==
  IF 500 + BadProbability(found.chain) > 850
  THEN [chain |-> Observed(found.chain, "bad"), lost |-> found.lost \cup {s}]
  ELSE found

DetectLoss(old) ==
  LET found == FoldLeft(Examined, [chain |-> chain, lost |-> {}], SetToSeq(old))
  IN  /\ chain' = found.chain
      /\ lost' = lost + Cardinality(found.lost)
      /\ detected' = detected \cup found.lost
      /\ UNCHANGED <<window, mirror, clock, sent, acked, network, resent, tied, receiver>>

-----------------------------------------------------------------------------
(* mutant of Recent: the wrong half is kept                                 *)
RecentLow(seqs) ==
  IF Cardinality(seqs) <= MaxReceived THEN seqs
  ELSE {s \in seqs : Cardinality({x \in seqs : x < s}) < Cardinality(seqs) \div 2}

(* The upper half of a set of received numbers that has grown too large.    *)
Recent(seqs) ==
  IF Cardinality(seqs) <= MaxReceived THEN seqs
  ELSE {s \in seqs : Cardinality({x \in seqs : x < s}) >= Cardinality(seqs) \div 2}

(* on_receive(), for each subframe of a frame that arrives.  The signature  *)
(* is computed and not compared, so nothing depends on it.                  *)
OnReceive(s) ==
  /\ s \in network
  /\ s \notin received
  /\ received' = Recent(received \cup {s})
  /\ accepted' = accepted \cup {s}
  /\ UNCHANGED sender

GhostNext ==
  \/ \E s \in Seqs : GhostSend(s) \/ ImplicitAck(s) \/ OnReceive(s)
  \/ \E old \in SUBSET Pending(window) : DetectLoss(old)

(* detect_loss() is called again and again, with every entry that waits old *)
(* enough in the end.                                                       *)
GhostSpec == GhostInit /\ [][GhostNext]_ghostVars
FairSpec == GhostSpec /\ WF_ghostVars(Pending(window) # {} /\ DetectLoss(Pending(window)))

-----------------------------------------------------------------------------
GhostTypeOK ==
  /\ window \in [Seqs -> 0..MaxClock]
  /\ mirror \in [Seqs -> 0..MaxClock]
  /\ clock \in Nat
  /\ chain \in [state : {"good", "bad"}, good : 0..1000, bad : 0..1000]
  /\ sent \in 0..MaxSends
  /\ acked \in Nat
  /\ lost \in Nat
  /\ received \subseteq Seqs
  /\ network \subseteq Seqs
  /\ accepted \subseteq Seqs
  /\ resent \in Nat
  /\ detected \subseteq Seqs
  /\ tied \in BOOLEAN

(* The window never holds more than MAX_WINDOW_SIZE entries                 *)
(* (test_ghost_session.py:266).  The mirror never keeps an entry that the   *)
(* window has let go, although both evict on their own; and while the clock *)
(* tells all entries apart it is exact: evicting twice evicts the same.     *)
MirrorAgrees ==
  /\ Cardinality(Pending(window)) <= MaxWindow
  /\ \A s \in Seqs : mirror[s] \in {Absent, window[s]}
  /\ ~tied => mirror = window

(* Each frame sent ends in one way: acknowledged, evicted as lost, replaced *)
(* by a retransmission, or still pending; late, repeated and unexpected     *)
(* acknowledgements change nothing.  (detect_loss() counts an entry it      *)
(* leaves in the window; LossIsDetected is why this does not show.)         *)
SendsAccounted == sent = acked + lost + resent + Cardinality(Pending(window))

(* A repeated frame is accepted a second time only behind the replay        *)
(* window: what was accepted and is no longer remembered has at least half  *)
(* a window of remembered numbers above it (ghost_session.py:210).          *)
Remembered == (MaxReceived + 1) - (MaxReceived + 1) \div 2
RepeatsOnlyBehindWindow ==
  \A s \in accepted \ received : Cardinality({r \in received : r > s}) >= Remembered

(* test_ghost_session.py:254, lost packets "should be detected eventually": *)
(* a frame that never arrives is found by detect_loss(), or its entry is    *)
(* evicted as lost.                                                         *)
LossIsDetected ==
  \A s \in Seqs :
    window[s] # Absent /\ s \notin accepted
      ~> (window[s] = Absent \/ s \in detected \/ s \in accepted)

=============================================================================
