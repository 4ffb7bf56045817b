----------------------------- MODULE ChunkPlan -----------------------------
(***************************************************************************)
(* How large the pieces of a payload are and which go together: the choice *)
(* of a chunk size (chunking/strategy.py, QFTScheduler.chunk_size_for), of *)
(* the chunks in a batch (batch_config.py), the batches themselves         *)
(* (chunk_qframe.py, as AdaptiveChunker calls it), and the chunks of each  *)
(* parallel stream (plan_parallel_chunks).  Energies are in thousandths.   *)
(***************************************************************************)
EXTENDS Integers, Sequences, SequencesExt, FiniteSetsExt

KB == 1024
MB == 1024 * KB

Micro == 4 * KB
Small == 16 * KB
Medium == 64 * KB
Large == 256 * KB
Jumbo == MB

PayloadSizeDefault(size) ==
  CASE size < 32 * KB -> Small
    [] size >= 32 * KB /\ size < 512 * KB -> Medium
    [] size >= 512 * KB /\ size < 10 * MB -> Large
    [] OTHER -> Jumbo

FromEnergyBands(low, high, size) ==
  IF high > 500 THEN Micro
  ELSE IF high > 350 THEN Small
  ELSE IF low > 700 THEN
    IF size > 10 * MB THEN Jumbo ELSE IF size > MB THEN Large ELSE Medium
  ELSE IF low > 500 THEN Large
  ELSE IF size < 64 * KB THEN Small ELSE IF size < MB THEN Medium ELSE Large

NoSpectrum == [low |-> 0, high |-> 0]
ChunkSizeFor(bands, size) ==
  IF bands = NoSpectrum THEN PayloadSizeDefault(size)
  ELSE FromEnergyBands(bands.low, bands.high, size)

UpTo(a, b) == IF a < b THEN a ELSE b
AtLeast(a, b) == IF a > b THEN a ELSE b
Chunks(size, chunk) == (size + chunk - 1) \div chunk

ForPayload(size, chunk) ==
  LET batch == (2 * MB) \div chunk
  IN  IF Chunks(size, chunk) <= 4 THEN 1
      ELSE IF batch <= 2 THEN 2
      ELSE IF batch <= 8 THEN 8
      ELSE IF batch <= 16 THEN 16
      ELSE 32

ChunkingThreshold == 32 * KB

(* _send_chunked: a payload that is 28 bytes longer than a benchmark's has  *)
(* those bytes for encryption, and its chunks are longer by as much.        *)
BenchmarkSizes == {KB, 64 * KB, MB, 10 * MB, 100 * MB}
Overhead(size) == IF size >= 28 /\ size - 28 \in BenchmarkSizes THEN 28 ELSE 0

BatchesFloor(chunks, batch) == chunks \div batch          \* mutant of Batches
Batches(chunks, batch) == (chunks + batch - 1) \div batch

(* make_batch_frames.  The cursor of chunks is i * batch at batch i: only    *)
(* the last one is shorter.                                                 *)
MakeBatchFrames(size, chunk, batch) ==
  LET all == Chunks(size, chunk)
  IN  [i \in 0..Batches(all, batch) - 1 |->
         [first |-> i * batch, chunks |-> UpTo(batch, all - i * batch),
          bytes |-> UpTo((i + 1) * batch * chunk, size) - i * batch * chunk]]

(* make_chunk_frames: a frame for each chunk, with the metadata of the      *)
(* chunk in front of it.                                                    *)
ChunkMetadata(stream, index, total) ==
  <<stream, index, total,
    (IF index = 0 THEN 1 ELSE 0) + (IF index = total - 1 THEN 2 ELSE 0)>>
MetadataRead(data) ==
  [stream |-> data[1], index |-> data[2], total |-> data[3],
   first |-> data[4] % 2 = 1, last |-> (data[4] \div 2) % 2 = 1]

MakeChunkFrames(stream, size, chunk, deadline) ==
  LET total == Chunks(size, chunk)
      End(n) == UpTo(n * chunk, size)
  IN  [n \in 1..total |->
         <<[type |-> "CTRL", meta |-> ChunkMetadata(stream, n - 1, total), deadline |-> 2 * deadline],
           [type |-> "DATA", bytes |-> End(n) - End(n - 1), deadline |-> deadline]>>]

SendChunked(bands, size) ==
  LET original == size - Overhead(size)
      chunk == ChunkSizeFor(bands, original)
  IN  MakeBatchFrames(size, chunk + Overhead(size), ForPayload(original, chunk))

(* AdaptiveChunker.send: a payload that is short is sent as it is.  What is *)
(* reported: the chunks by their size, the frames that were sent.           *)
SendSingle(size) == [i \in 0..0 |-> [first |-> 0, chunks |-> 1, bytes |-> size]]
AdaptiveSend(bands, size) ==
  IF size < ChunkingThreshold THEN SendSingle(size) ELSE SendChunked(bands, size)
Report(bands, size) ==
  LET frames == Cardinality(DOMAIN AdaptiveSend(bands, size))
      chunk == ChunkSizeFor(bands, size - Overhead(size)) + Overhead(size)
      chunks == IF size < ChunkingThreshold THEN 1 ELSE Chunks(size, chunk)
  IN  [chunks |-> chunks, batches |-> frames,
       reduction |-> chunks \div AtLeast(frames, 1)]

(* calculate_optimal_chunk_size, in Rust and in Python: a quarter of what   *)
(* is in flight on a path of this bandwidth (Mbit/s) and delay (ms), as a   *)
(* power of two, between 4 KB and 1 MB.                                     *)
NextPowerOfTwoFloor(n) ==
  IF n = 0 THEN 4096
  ELSE 2 ^ (CHOOSE e \in 0..30 : 2 ^ e <= n /\ n < 2 ^ (e + 1))

CalculateOptimalChunkSize(size, rtt, bandwidth) ==
  LET inFlight == bandwidth * 125 * rtt
      quarter == AtLeast(inFlight \div 4, Micro)
  IN  UpTo(AtLeast(NextPowerOfTwoFloor(UpTo(quarter, size)), Micro), Jumbo)

(* plan_parallel_chunks, in Python and in Rust.                             *)
PlanParallelChunks(size, chunk, streams) ==
  IF chunk = 0 \/ streams = 0 THEN << >>
  ELSE [n \in 1..Chunks(size, chunk) |->
          [stream |-> (n - 1) % streams, index |-> n - 1,
           start |-> (n - 1) * chunk, end |-> UpTo(n * chunk, size)]]

-----------------------------------------------------------------------------
(* How the size is chosen from the channel (scheduler/qft_scheduler.py, its *)
(* port qdap_core/src/qft_scheduler.rs and the fallback of                  *)
(* _rust_bridge.py).  Payload size, round trip and loss come scaled to      *)
(* 0..Grid, as the logarithms and the cap of the code scale them to [0, 1]; *)
(* a score is in parts of Unit, before its logarithm.  Strategies are       *)
(* numbered from 1, MICRO, to 5, JUMBO.                                     *)
Grid == 10
Unit == 100 * Grid * Grid
Score == 1..5

Scores(payload, rtt, loss) ==
  LET small == Grid - payload
      kept == Grid - loss
      middle == IF 2 * payload < Grid THEN 2 * payload ELSE 2 * small
  IN  <<Grid * (35 * small + 45 * loss + 20 * rtt),
        40 * small * small + 40 * loss * kept + 20 * Grid * Grid,
        Grid * (50 * middle + 30 * kept + 20 * Grid),
        Grid * (40 * payload + 40 * kept + 20 * rtt),
        50 * payload * payload + 40 * kept * kept + 10 * Grid * (Grid - rtt)>>

(* The logarithms of two scores are 0.03 apart or more: 1.03045 times.      *)
Leads(score, other) == (Unit + score) * 11000 >= (Unit + other) * 11335

FirstOfMost(values) ==
  Min({i \in Score : \A j \in Score : values[j] <= values[i]})

(* Weighted by what was learnt: weights relative to each other, of which    *)
(* the logarithms are added.                                                *)
Weighted(scores, weights) == FirstOfMost([i \in Score |-> weights[i] * (Unit + scores[i])])

(* decide() without the core sorts the scores.                              *)
Decided(scores, weights) ==
  LET ranked == SortSeq(scores, >)
  IN  IF Leads(ranked[1], ranked[2]) THEN SelectInSeq(scores, LAMBDA s : s = ranked[1])
      ELSE Weighted(scores, weights)

(* qft_decide() of the core keeps the best two as it goes; -1 is none.      *)
Ranked(scores) ==
  FoldLeft(LAMBDA rank, i :
             CASE scores[i] > rank.top ->
                    [best |-> i, top |-> scores[i], second |-> rank.top]
               [] scores[i] \in rank.second + 1..rank.top ->
                    [rank EXCEPT !.second = scores[i]]
               [] OTHER -> rank,
           [best |-> 1, top |-> -1, second |-> -1], <<1, 2, 3, 4, 5>>)
QftDecide(scores, weights) ==
  LET rank == Ranked(scores)
  IN  IF Leads(rank.top, rank.second) THEN rank.best ELSE Weighted(scores, weights)

(* The fallback of the bridge learns nothing.                               *)
PythonQftDecide(scores) == FirstOfMost(scores)

-----------------------------------------------------------------------------
(* An emergency, or a deadline that is near, takes small chunks.  Times in  *)
(* ms; a chance in percent.                                                 *)
Pressing(remaining, rtt) == remaining < 2 * rtt \/ remaining < 5
DecideDeadlineAware(scores, remaining, rtt) ==
  IF Pressing(remaining, rtt) THEN 1 ELSE PythonQftDecide(scores)

(* The scheduler without the core names MEDIUM whatever it has decided.     *)
SchedulerDeadlineAware(scores, weights, remaining, rtt) ==
  IF Pressing(remaining, rtt) THEN [chunk |-> 1, named |-> 1, urgent |-> TRUE]
  ELSE [chunk |-> Decided(scores, weights), named |-> 3, urgent |-> FALSE]

Retries(deadline, rtt) ==
  Max({0, deadline \div (IF rtt < 1 THEN 1 ELSE rtt) - 1})
EffectiveLossFactor(loss, retries) ==
  LET Failing[n \in 0..retries] == IF n = 0 THEN 100 ELSE (Failing[n - 1] * loss) \div 100
  IN  Min({65, IF loss = 0 THEN 0 ELSE Failing[retries]})
DecideEmergency(size, loss, deadline, rtt) ==
  [chunk |-> 4096, fragments |-> (size + 4095) \div 4096,
   factor |-> EffectiveLossFactor(loss, Retries(deadline, rtt))]

(* decide_with_streaming(): the streams of the strategy that weighs most    *)
(* after the decision, half as many if more than a tenth is lost.           *)
StreamCounts == <<1, 1, 2, 4, 8>>
StreamsFor(heaviest, loss) ==
  IF loss <= 10 THEN StreamCounts[heaviest] ELSE Max({1, StreamCounts[heaviest] \div 2})

(* The energies of the lower tenth of a spectrum, of the next three tenths  *)
(* and of the rest, in thousandths of all.                                  *)
EnergyBands(magnitudes) ==
  LET n == Len(magnitudes)
      Energy(from, to) == MapThenSumSet(LAMBDA i : magnitudes[i] * magnitudes[i], from + 1..to)
      Portion(from, to) == (1000 * Energy(from, to)) \div Energy(0, n)
  IN  IF Energy(0, n) = 0 THEN [low |-> 330, mid |-> 340, high |-> 330]
      ELSE [low |-> Portion(0, n \div 10), mid |-> Portion(n \div 10, (4 * n) \div 10),
            high |-> Portion((4 * n) \div 10, n)]
=============================================================================
