---------------------------- MODULE MCAlgorithms ----------------------------
(* Every filter of up to three levels over one name, the five profiles of   *)
(* fec.py and two wider codes whose stripes hold several chunks.            *)
EXTENDS Algorithms

MCFilters == UNION {[1..n -> {"a", Plus, Hash}] : n \in 1..3}
MCTopics == UNION {[1..n -> {"a", "b"}] : n \in 1..3}
MCCodes == {<<1, 0>>, <<1, 1>>, <<1, 2>>, <<2, 1>>, <<2, 2>>, <<3, 2>>, <<4, 2>>}
MCPercents == 0..100
MCLinks == [rtt : {0, 1, 20, 200}, bandwidth : {1, 7, 100, 1000}]
MCBands ==
  {b \in [low : {0, 1, 500, 501, 700, 701, 1000}, high : {0, 350, 351, 500, 501, 601}] :
     b.low + b.high <= 1000}
MCEvenBands == {[low |-> 400, high |-> 400]}
MCNeighbours == {0, 1, 2, 5, 50, 93, 94, 95, 160, 170, 187, 188, 206, 207, 208, 300}
MCContentKinds ==
  {<<"audio", "mpeg">>, <<"video", "mp4">>, <<"image", "png">>, <<"text", "html">>}
    \cup {<<"application", kind>> : kind \in {"x-emergency", "json", "xml", "zip"}}
    \cup {<<"font", "woff">>}
MCMessageKinds == DOMAIN MessageTypes \cup {"chat"}
Limits == {32 * KB, 64 * KB, 512 * KB, MB, 10 * MB} \cup BenchmarkSizes
MCSizes ==
  {n + d : n \in Limits, d \in {0, 1, 28}}
    \cup {n - 1 : n \in Limits} \cup {3 * MB + 28, 5 * MB + 7}
=============================================================================
