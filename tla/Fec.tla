-------------------------------- MODULE Fec --------------------------------
(***************************************************************************)
(* The systematic XOR code of the forward error correction: fec_encode and *)
(* fec_decode (the Rust core's fec.rs, and _rust_bridge.py which falls     *)
(* back on the same algorithm), and FECDecoder (transport/fec.py), which   *)
(* decodes the same packets in its own way.  A byte is one bit here: XOR   *)
(* works on each bit alone.  Data chunks and parities are numbered from 0. *)
(***************************************************************************)
EXTENDS Integers, Sequences, FiniteSets, SequencesExt

CONSTANT Lost  \* None in the place of a packet

Bits == {0, 1}
ASSUME LostAssumption == Lost \notin Seq(Bits)
Messages(n) == UNION {[1..m -> Bits] : m \in 0..n}

(* k chunks of equal size; the last ones are padded with zeros.             *)
ChunkSize(data, k) == (Len(data) + k - 1) \div k
Chunk(data, k, i) ==
  [p \in 1..ChunkSize(data, k) |->
     LET at == i * ChunkSize(data, k) + p
     IN  IF at <= Len(data) THEN data[at] ELSE 0]

Stripe(k, r, j) == {i \in 0..k - 1 : i % r = j}

Parity(chunks, is, size) ==
  [p \in 1..size |-> Cardinality({i \in is : chunks[i][p] = 1}) % 2]

(* The k + r packets of a message: one packet and no parity if r is 0, and  *)
(* copies of the message if k is 1.                                         *)
Copied(k, r) == r = 0 \/ k = 1
EncodeCopies(data, r) == [i \in 0..r |-> data]
Encode(data, k, r) ==
  IF Copied(k, r) THEN EncodeCopies(data, r)
  ELSE LET chunks == [i \in 0..k - 1 |-> Chunk(data, k, i)]
       IN  [i \in 0..k + r - 1 |->
              IF i < k THEN chunks[i]
              ELSE Parity(chunks, Stripe(k, r, i - k), ChunkSize(data, k))]

Received(packets, lost) ==
  [i \in DOMAIN packets |-> IF i \in lost THEN Lost ELSE packets[i]]
Missing(got) == {i \in DOMAIN got : got[i] = Lost}

RebuiltBlind(got, k, r, i) ==                       \* mutant of Rebuilt
  LET stripe == Stripe(k, r, i % r)
      parity == got[k + (i % r)]
      gone == {n \in stripe : got[n] = Lost}
  IN  IF got[i] # Lost THEN got[i]
      ELSE IF parity = Lost THEN Lost
      ELSE [p \in 1..Len(parity) |->
              (parity[p]
                 + Cardinality({n \in stripe \ gone : p <= Len(got[n]) /\ got[n][p] = 1})) % 2]

(* A chunk that is missing is rebuilt if it is the only one of its stripe   *)
(* and the parity of the stripe arrived.                                    *)
Rebuilt(got, k, r, i) ==
  LET stripe == Stripe(k, r, i % r)
      parity == got[k + (i % r)]
      gone == {n \in stripe : got[n] = Lost}
  IN  IF got[i] # Lost THEN got[i]
      ELSE IF parity = Lost \/ gone # {i} THEN Lost
      ELSE [p \in 1..Len(parity) |->
              (parity[p]
                 + Cardinality({n \in stripe \ gone : p <= Len(got[n]) /\ got[n][p] = 1})) % 2]

Joined(chunks, k, n) == SubSeq(FlattenSeq([j \in 1..k |-> chunks[j - 1]]), 1, n)

(* fec_decode: the message of length n, or Lost.                            *)
DecodeCopies(got) ==
  IF Missing(got) = DOMAIN got THEN Lost
  ELSE got[CHOOSE i \in DOMAIN got : got[i] # Lost]
Decode(got, k, r, n) ==
  IF Copied(k, r) THEN DecodeCopies(got)
  ELSE LET chunks == [i \in 0..k - 1 |-> Rebuilt(got, k, r, i)]
       IN  IF Cardinality(Missing(got)) > r \/ \E i \in 0..k - 1 : chunks[i] = Lost
           THEN Lost
           ELSE Joined(chunks, k, n)

(* FECDecoder.decode: the data packets, or Lost.  It takes a parity for     *)
(* that of its stripe even when k is 1, where every parity is a copy.       *)
DecodeBlock(got, k, r) ==
  LET chunks == [i \in 0..k - 1 |-> IF r = 0 THEN got[i] ELSE Rebuilt(got, k, r, i)]
  IN  IF Cardinality(Missing(got)) > r \/ \E i \in 0..k - 1 : chunks[i] = Lost
      THEN Lost
      ELSE chunks

(* FECEncoder.encode: the packets of a group, numbered from 0, and behind   *)
(* them their parities; a packet that is alone is cut into k chunks.  The   *)
(* parities of a group are of packets padded to the longest, and FECDecoder *)
(* takes them for stripes of the group, as it does those of a packet.       *)
Padded(packet, size) == [p \in 1..size |-> IF p <= Len(packet) THEN packet[p] ELSE 0]
LongestOf(packets) ==
  LET lengths == {Len(packets[i]) : i \in DOMAIN packets}
  IN  CHOOSE n \in lengths : \A m \in lengths : m <= n
GroupParities(packets, n, k, r) ==
  LET padded == [i \in 0..n - 1 |-> Padded(packets[i], LongestOf(packets))]
  IN  [j \in 0..r - 1 |->
         IF k = 1 THEN packets[0] ELSE Parity(padded, Stripe(n, r, j), LongestOf(packets))]
EncodeGroup(packets, k, r) ==
  LET n == Cardinality(DOMAIN packets)
  IN  IF n = 1 THEN Encode(packets[0], k, r)
      ELSE [i \in 0..n + r - 1 |->
              IF i < n THEN packets[i] ELSE GroupParities(packets, n, k, r)[i - n]]
-----------------------------------------------------------------------------
(* FECProfile: the codes that are chosen from the loss, in percent, the     *)
(* urgency and the overhead allowed, or from the round trip in ms.          *)
Emergency == <<1, 2>>
Aggressive == <<1, 1>>
Balanced == <<2, 2>>
Reliable == <<2, 1>>
Plain == <<1, 0>>

SelectGenerous(loss, urgent, overhead) ==         \* mutant of SelectFecProfile
  CASE urgent -> IF overhead >= 2 THEN Emergency ELSE Aggressive
    [] ~urgent /\ loss >= 20 -> Balanced
    [] ~urgent /\ loss \in 5..19 -> Reliable
    [] OTHER -> Plain

ByLoss(loss) ==
  CASE loss >= 20 -> Balanced [] loss \in 5..19 -> Reliable [] OTHER -> Plain
SelectFecProfile(loss, urgent, overhead) ==
  IF ~urgent THEN ByLoss(loss)
  ELSE IF overhead >= 3 THEN Emergency ELSE Aggressive

SelectBulkFecProfile(loss, rtt) ==
  CASE loss >= 20 /\ rtt >= 150 -> Balanced
    [] loss >= 5 /\ ~(loss >= 20 /\ rtt >= 150) -> Reliable
    [] OTHER -> Plain

Binomial(n, i) == Cardinality({s \in SUBSET (1..n) : Cardinality(s) = i})

(* How likely it is that i given packets of n are lost and no others, in    *)
(* parts of 100^4: no profile has more than four packets.                   *)
Power(b, e) == IF e = 0 THEN 1 ELSE b^e
Chance(loss, i, n) == Power(loss, i) * Power(100 - loss, n - i) * 100^(4 - n)

(* fec_effective_loss: more than r of k + r packets are lost.               *)
EffectiveLoss(loss, k, r) ==
  LET Beyond[i \in 0..k + r] ==
        IF i <= r THEN 0
        ELSE Binomial(k + r, i) * Chance(loss, i, k + r) + Beyond[i - 1]
  IN  Beyond[k + r]

(* AdaptiveFEC: what is sent of a message by what was observed, packet by   *)
(* packet.  An observation moves the estimate, in millionths, by 15 %.      *)
Million == 1000000
EmaUpdate(estimate, report) ==
  IF report.sent = 0 THEN estimate
  ELSE (17 * estimate + 3 * ((Million * report.lost) \div report.sent)) \div 20
ObserveLoss(reports) == FoldLeft(EmaUpdate, 0, reports)

AdaptiveProfile(loss, urgent, overhead, bulk, rtt) ==
  IF bulk THEN SelectBulkFecProfile(loss, rtt) ELSE SelectFecProfile(loss, urgent, overhead)
AdaptiveEncode(data, profile) == EncodeGroup([i \in 0..0 |-> data], profile[1], profile[2])

(* fec_delivery_improvement: losses in 100^4, deliveries in hundredths of a *)
(* percent.                                                                 *)
DeliveryImprovement(loss, urgent, overhead) ==
  LET code == SelectFecProfile(loss, urgent, overhead)
      effective == EffectiveLoss(loss, code[1], code[2])
  IN  [code |-> code,
       factor |-> IF effective = 0 THEN 0 ELSE (loss * Million) \div effective,
       sent |-> code[1] + code[2], carried |-> code[1],
       raw |-> 100 * (100 - loss),
       delivered |-> (100^4 - effective + 5000) \div 10000]
=============================================================================
