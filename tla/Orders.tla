------------------------------- MODULE Orders -------------------------------
(***************************************************************************)
(* What is sent first: of a queue of packets, by QFTScheduler.schedule for *)
(* the spectrum of the traffic with the strategies of                      *)
(* scheduler/strategies.py; and of the subframes of a frame, by their      *)
(* weights (frame/encoder.py, frame/qframe.py; amplitude.rs,               *)
(* _rust_bridge.py).                                                       *)
(***************************************************************************)
EXTENDS Integers, Sequences, SequencesExt

-----------------------------------------------------------------------------
(* A packet has a size and a deadline; energies are in thousandths.         *)

(* sorted() of Python keeps the order of packets with the same key.         *)
Sorted(queue, key) ==
  LET order == SetToSortSeq(DOMAIN queue,
                 LAMBDA i, j : key[i] < key[j] \/ (key[i] = key[j] /\ i < j))
  IN  [n \in DOMAIN queue |-> queue[order[n]]]

BulkTransfer(queue) == Sorted(queue, [i \in DOMAIN queue |-> -queue[i].size])
LatencyFirst(queue) == Sorted(queue, [i \in DOMAIN queue |-> queue[i].deadline])

(* The deadline in the middle, the later one of two.                        *)
MedianDeadline(queue) == LatencyFirst(queue)[Len(queue) \div 2 + 1].deadline

(* The loop that interleaves the halves compares two weights that never     *)
(* change: it takes one half to its end before it turns to the other.       *)
AdaptiveHybridStrict(queue, low, high) ==                 \* mutant of AdaptiveHybrid
  LET Urgent(p) == p.deadline <= MedianDeadline(queue)
      urgent == LatencyFirst(SelectSeq(queue, Urgent))
      bulk == BulkTransfer(SelectSeq(queue, LAMBDA p : ~Urgent(p)))
  IN  IF high > low THEN urgent \o bulk ELSE bulk \o urgent
AdaptiveHybrid(queue, low, high) ==
  IF queue = << >> THEN << >>
  ELSE LET Urgent(p) == p.deadline <= MedianDeadline(queue)
           urgent == LatencyFirst(SelectSeq(queue, Urgent))
           bulk == BulkTransfer(SelectSeq(queue, LAMBDA p : ~Urgent(p)))
       IN  IF high >= low THEN urgent \o bulk ELSE bulk \o urgent

(* current_strategy() once the votes have settled on what is proposed.      *)
IsMixed(bands) == bands.low <= 700 /\ bands.high <= 600
Schedule(bands, queue) ==
  IF IsMixed(bands) THEN AdaptiveHybrid(queue, bands.low, bands.high)
  ELSE IF bands.low > 700 THEN BulkTransfer(queue) ELSE LatencyFirst(queue)

-----------------------------------------------------------------------------
(* A subframe has a deadline in ms, the logarithm of its size plus two, a   *)
(* type and the urgency of its session.  Weights are compared as they are:  *)
(* the norm they are divided by is the same for all.                        *)

(* SubframeType.priority_map, doubled.                                      *)
TypeWeight == [DATA |-> 2, CTRL |-> 4, GHOST |-> 3, PROBE |-> 1, SYNC |-> 6]

(* Deadlines and logarithms whose product divides it.                       *)
Scale == 360
ComputePriority(sf) ==
  (Scale * TypeWeight[sf.type] * sf.urgency) \div (sf.deadline * sf.logSize)

(* A session nobody reported an urgency of has 1; weights of zero are all   *)
(* the same, and so are those of a frame that is made without an encoder.   *)
GetUrgency(urgencies, session) ==
  IF session \in DOMAIN urgencies THEN urgencies[session] ELSE 1
Uniform(subframes) == [i \in DOMAIN subframes |-> 1]
EncodeWeights(subframes) ==
  LET weights == [i \in DOMAIN subframes |-> ComputePriority(subframes[i])]
  IN  IF \A i \in DOMAIN weights : weights[i] = 0 THEN Uniform(subframes) ELSE weights

(* argsort, turned round: the heaviest first, and of equals the last.       *)
DecodeSchedule(weights) ==
  SetToSortSeq(DOMAIN weights,
    LAMBDA i, j : weights[i] > weights[j] \/ (weights[i] = weights[j] /\ i > j))

CreateWithEncoder(subframes) ==
  [subframes |-> subframes, amplitudes |-> EncodeWeights(subframes)]
Create(subframes) == [subframes |-> subframes, amplitudes |-> Uniform(subframes)]
SendOrder(frame) == DecodeSchedule(frame.amplitudes)

(* send_multiframe(): the subframes get numbers that go on, and a deadline  *)
(* of 1000 ms, here five units, where none is given for them; priorities of *)
(* the caller, of which only the ratios count, take the place of weights.   *)
DefaultDeadline == 5
Subframes(payloads, deadlines, next) ==
  [i \in DOMAIN payloads |->
     [deadline |-> IF i \in DOMAIN deadlines THEN deadlines[i] ELSE DefaultDeadline,
      logSize |-> payloads[i], type |-> "DATA", urgency |-> 1, seq |-> next + i - 1]]
SendMultiframe(payloads, priorities, deadlines, next) ==
  LET subframes == Subframes(payloads, deadlines, next)
      encoded == CreateWithEncoder(subframes)
  IN  IF priorities = << >> THEN encoded
      ELSE [encoded EXCEPT !.amplitudes = priorities]

(* compute_deadline_weights, in Rust and in Python: deadlines are in        *)
(* microseconds, of which one at least counts.                              *)
DeadlineWeights(deadlines) ==
  LET Positive(d) == IF d < 1 THEN 1 ELSE d
      least == Positive(CHOOSE d \in {deadlines[i] : i \in DOMAIN deadlines} :
                          \A i \in DOMAIN deadlines : d <= deadlines[i])
  IN  [i \in DOMAIN deadlines |-> (Scale * least) \div Positive(deadlines[i])]
=============================================================================
