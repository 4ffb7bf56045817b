----------------------------- MODULE Algorithms -----------------------------
(***************************************************************************)
(* The algorithms without state, each against what it is for, on every     *)
(* input up to a bound.  A behaviour picks one input.                      *)
(***************************************************************************)
EXTENDS TopicTree, Fec, Framing, ChunkPlan, Orders, Layouts,
        VehicleMessages, Radio, Gateways, Credentials

CONSTANTS
  Topics,      \* topics that are published to
  Codes,       \* the codes <<k, r>>
  MaxLength,   \* bound: length of a message
  MaxBody,     \* bound: length of a body in a stream of bytes
  Bands,       \* [low, high]: energies of a spectrum, and NoSpectrum
  Sizes,       \* of payloads
  MaxPlan,     \* bound: payloads and chunks of parallel streams
  Links,       \* [rtt, bandwidth]: in ms and Mbit/s
  MaxQueue,    \* bound: packets to be scheduled
  Percents,    \* of packets that are lost
  ChannelGrid, \* bound: of what is observed of a channel
  MaxPayload,  \* bound: payload of a frame
  Stations,    \* numbers of vehicles
  Neighbours,  \* how many are in the range of a vehicle
  ContentKinds, MessageKinds   \* of requests, and of messages of web sockets

ASSUME LevelsAssumption ==
  /\ \A f \in Filters : f \in Seq(STRING) /\ f # <<>>
  /\ \A t \in Topics : t \in Seq(STRING)

(* Only a block of a single chunk goes without a parity (FECProfile), and   *)
(* what did not arrive is not a group of messages.                          *)
ASSUME CodesAssumption ==
  /\ \A c \in Codes : c \in (Nat \ {0}) \X Nat /\ (c[2] = 0 => c[1] = 1)
  /\ MaxLength \in Nat
  /\ \A n \in 2..3 : Lost \notin [0..n - 1 -> Seq(Bits)]

(* A length has a digit, and as many as the longest body takes.             *)
ASSUME BodiesAssumption ==
  /\ MaxBody \in Nat
  /\ Digits > 0
  /\ \A n \in 0..MaxBody : Shifted(n, Digits) = 0

(* Payloads are below 2^31 bytes, where the exponents of                    *)
(* NextPowerOfTwoFloor end.                                                 *)
ASSUME PlansAssumption ==
  /\ Sizes \subseteq 0..1024 * MB /\ MaxPlan \in Nat
  /\ \A p \in Links : p.rtt \in Nat /\ p.bandwidth \in Nat

VARIABLE case

NoCase == [of |-> "none"]

Init == case = NoCase

(* Up to two filters of a client with the QoS of each, and a topic.         *)
PickTopic ==
  /\ case = NoCase
  /\ \E t \in Topics, f, g \in Filters, i \in Ids :
       \E q \in [{f, g} -> QoS] :
         case' = [of |-> "topic", topic |-> t, id |-> i, asked |-> q]

(* A code, a message and the packets of it that do not arrive.              *)
PickBlock ==
  /\ case = NoCase
  /\ \E c \in Codes, m \in Messages(MaxLength) :
       \E lost \in SUBSET DOMAIN Encode(m, c[1], c[2]) :
         case' = [of |-> "block", k |-> c[1], r |-> c[2], message |-> m, lost |-> lost]

(* Several packets that share their parities, and those that are lost.      *)
PickGroup ==
  /\ case = NoCase
  /\ \E c \in Codes, n \in 2..3 :
       \E packets \in [0..n - 1 -> Messages(2)] :
         \E lost \in SUBSET DOMAIN EncodeGroup(packets, c[1], c[2]) :
           case' = [of |-> "group", k |-> c[1], r |-> c[2], packets |-> packets, lost |-> lost]

(* What two senders observe, the second losing at least as much each time.  *)
ReportSpace == [sent : {5}, lost : {0, 1, 5}] \cup [sent : {0}, lost : {0}]
PickReports ==
  /\ case = NoCase
  /\ \E n \in 1..3 : \E calm \in [1..n -> ReportSpace] :
       \E worse \in {w \in [1..n -> ReportSpace] :
                     \A i \in 1..n : w[i].sent = calm[i].sent /\ w[i].lost >= calm[i].lost},
          bulk \in BOOLEAN, t \in {149, 150} :
         case' = [of |-> "reports", calm |-> calm, worse |-> worse, bulk |-> bulk, rtt |-> t]

(* The bodies of two messages, read in up to three pieces.                  *)
Bodies == UNION {[1..n -> {b}] : n \in 0..MaxBody, b \in {0, Base, Bad}}
PickStream ==
  /\ case = NoCase
  /\ \E over \in {"mqtt", "quic", "tcp"}, x, y \in Bodies :
       LET Wire(body) == CASE over = "mqtt" -> MqttPacket(body)
                           [] over = "quic" -> QuicMessage(body)
                           [] OTHER -> SendFrame(body)
           stream == Wire(x) \o Wire(y)
       IN  \E i, j \in 0..Len(stream) :
             /\ i <= j
             /\ case' = [of |-> over, bodies |-> <<x, y>>,
                         pieces |-> <<SubSeq(stream, 1, i), SubSeq(stream, i + 1, j),
                                      SubSeq(stream, j + 1, Len(stream))>>]

PickBatches ==
  /\ case = NoCase
  /\ \E b \in Bands, s \in Sizes :
       case' = [of |-> "batches", size |-> s, bands |-> b]

PickStreams ==
  /\ case = NoCase
  /\ \E s, c, n \in 0..MaxPlan :
       case' = [of |-> "streams", size |-> s, chunk |-> c, streams |-> n]

PickPath ==
  /\ case = NoCase
  /\ \E s \in Sizes \cup {0, 1, 4095, 4096}, p \in Links :
       case' = [of |-> "path", size |-> s, path |-> p]

PacketSpace == [size : 1..2, deadline : 1..3]
PickQueue ==
  /\ case = NoCase
  /\ \E n \in 0..MaxQueue, b \in Bands :
       \E q \in [1..n -> PacketSpace] :
         case' = [of |-> "queue", queue |-> q, bands |-> b]

PickProfile ==
  /\ case = NoCase
  /\ \E p \in Percents, o \in {2, 3}, t \in {149, 150} :
       case' = [of |-> "profile", loss |-> p, overhead |-> o, rtt |-> t]

(* What may come of the numbers of a frame: all of them, with another frame *)
(* or the rest of one behind, only the first, or all with one changed.      *)
Arrivals(wire) ==
  {wire \o more : more \in {<< >>, <<0>>, wire}}
    \cup {SubSeq(wire, 1, n) : n \in 0..Len(wire) - 1}
    \cup {[wire EXCEPT ![i] = v] : i \in DOMAIN wire, v \in 0..4}

PayloadBytes == UNION {[1..n -> Bits] : n \in 0..MaxPayload}
PickFrame ==
  /\ case = NoCase
  /\ \E x, y \in PayloadBytes, n \in 1..2, t \in {1, 3} :
       LET subframes == <<[type |-> t, seq |-> 1, payload |-> x],
                          [type |-> 1, seq |-> 2, payload |-> y]>>
           frame == [version |-> Version, type |-> t, flags |-> 0, session |-> 2,
                     amplitudes |-> SubSeq(<<2, 1>>, 1, n),
                     subframes |-> SubSeq(subframes, 1, n)]
       IN  \E data \in Arrivals(Serialize(frame)) :
             case' = [of |-> "frame", frame |-> frame, data |-> data]

PickFlat ==
  /\ case = NoCase
  /\ \E x \in PayloadBytes, t \in {0, 2} :
       LET frame == [type |-> t, priority |-> 1, deadline |-> 3, number |-> 2, payload |-> x]
       IN  \/ \E data \in Arrivals(FlatWire(frame)) :
                case' = [of |-> "flat", frame |-> frame, data |-> data]
           \/ \E data \in Arrivals(ControlWire(t, x)) :
                case' = [of |-> "control", type |-> t, payload |-> x, data |-> data]

(* A packet as a client or the broker builds it, whole or with its end cut  *)
(* off, and what it says.                                                   *)
Packet(packet, says) ==
  \E n \in 0..Len(packet.body) :
    case' = [of |-> "packet", packet |-> packet, body |-> SubSeq(packet.body, 1, n),
             says |-> says]

Texts == {<<7>>, <<7, 8>>}
PickPacket ==
  /\ case = NoCase
  /\ \/ \E version \in {4, 5}, c \in Texts \cup {<< >>}, clean \in BOOLEAN :
          Packet(ConnectPacket(version, c, clean, 60),
                 [ok |-> TRUE, type |-> CONNECT, client |-> c, keepalive |-> 60,
                  clean |-> clean])
     \/ \E t \in Texts, q \in 0..2, r \in BOOLEAN, x \in PayloadBytes :
          LET p == [ok |-> TRUE, type |-> PUBLISH, qos |-> q, retain |-> r, topic |-> t,
                    id |-> IF q > 0 THEN 5 ELSE 0, payload |-> x]
          IN  Packet(BuildPublish(p), p)
     \/ \E type \in {SUBSCRIBE, UNSUBSCRIBE}, n \in 1..2 :
          \E fs \in [1..n -> Texts \X (IF type = SUBSCRIBE THEN 0..2 ELSE {0})] :
            Packet(FilterPacket(type, 5, fs),
                   [ok |-> TRUE, type |-> type, id |-> 5, filters |-> fs])

PickStamp ==
  /\ case = NoCase
  /\ \E s \in [rtt : {0, 9, 25, 655349, 655350, 700000}, loss : {0, 99, 10000},
               strategy : {0, 4}, convergence : {0, 29, 65535, 70000},
               flags : {{}, {0}, {1, 5}, 0..5}], n \in 0..StampSize + 1 :
       case' = [of |-> "stamp", stamp |-> s, data |-> SubSeq(StampWire(s) \o <<9>>, 1, n)]

PickDelta ==
  /\ case = NoCase
  /\ \E changed \in SUBSET (1..4), order \in {<<1>>, <<2, 1>>, <<3, 1, 2>>},
        full \in BOOLEAN, x \in PayloadBytes :
       LET mask == DeltaComputeBitmask(order, changed)
       IN  \E data \in Arrivals(IF full THEN DeltaWrapFull(x) ELSE DeltaWrapDelta(mask, x)) :
             case' = [of |-> "delta", order |-> order, changed |-> changed, full |-> full,
                      payload |-> x, data |-> data]

PickSealed ==
  /\ case = NoCase
  /\ \E text, aad \in PayloadBytes, base \in 0..TimeSpace - 1, counter \in 1..2 * CounterSpace :
       LET nonce == MakeNonce(base, counter)
       IN  \E data \in Arrivals(Pack(1, nonce, aad, text)) :
             case' = [of |-> "sealed", text |-> text, aad |-> aad, base |-> base,
                      counter |-> counter, data |-> data]

(* The salts and ephemeral keys of two ends, and what comes of the hello    *)
(* that the server sends.                                                   *)
Ends == [private : {1, 2}, salt : [1..2 -> Bits]]
PickHello ==
  /\ case = NoCase
  /\ \E client, server \in Ends, type \in {CLIENT_HELLO, SERVER_HELLO} :
       \E data \in Arrivals(BuildHello(type, server.private, 8, server.salt)) :
         case' = [of |-> "hello", client |-> client, server |-> server, data |-> data]

PickTicket ==
  /\ case = NoCase
  /\ \E id, key, expiry \in 1..3, base \in 0..TimeSpace - 1, now \in 1..4 :
       \E data \in Arrivals(CreateTicket(5, id, MakeNonce(base, id), expiry, key)) :
         case' = [of |-> "ticket", ticket |-> CreateTicket(5, id, MakeNonce(base, id), expiry, key),
                  id |-> id, key |-> key, expiry |-> expiry, now |-> now, data |-> data]

PickSignature ==
  /\ case = NoCase
  /\ \E x, y \in PayloadBytes, m, n \in 1..3, k \in 0..2 :
       case' = [of |-> "signature", signed |-> x, got |-> y, number |-> m, claimed |-> n,
                data |-> SubSeq(GhostSign(1, m, x) \o <<0>>, 1, k)]

(* A scheduler that has decided so often, and what it prefers.              *)
PickScheduler ==
  /\ case = NoCase
  /\ \E weights \in [1..5 -> 1..2], n \in {0, 1, 28, 29, 30, 1023, 1024},
        flags \in SUBSET {0, 1, 4} :
       case' = [of |-> "scheduler", weights |-> weights, decisions |-> n, flags |-> flags]

(* The whole of a message, its end cut off, or with a type of another.       *)
Cuts(wire) ==
  {SubSeq(wire, 1, n) : n \in {Len(wire) \div 2, Len(wire) - 1, Len(wire)}}
    \cup {[wire EXCEPT ![1] = 0]}

Speeds == {-2, -1, 0, 1, 2, 3 * 8190 + 1, 3 * 8190 + 2, 30000}
Headings == {-4, 0, 2, Turn - 2, Turn - 1, Turn + 1}
Positions == {[lat |-> 0, lon |-> 0]}
  \cup [lat : {-90 * Degree - 1, 90 * Degree}, lon : {0}]
  \cup [lat : {1}, lon : {-180 * Degree, 180 * Degree + 1}]
PickBsm ==
  /\ case = NoCase
  /\ \E at \in Positions, s \in Speeds, h \in Headings, st \in Stations,
        braking, vru \in BOOLEAN, count \in {0, 127, 128}, a \in {-400, 4}, e \in {-3, 98303} :
       LET b == [BsmMake(st, at.lat, at.lon, s, h, braking) EXCEPT
                   !.count = count, !.accel = a, !.elev = e]
           frame == BsmFrame(b, vru)
       IN  \E data \in IF frame.ok THEN Cuts(frame.wire) ELSE {<< >>} :
             case' = [of |-> "bsm", station |-> st, said |-> b, ok |-> frame.ok, data |-> data]

PickDenm ==
  /\ case = NoCase
  /\ \E at \in Positions, s \in Speeds, h \in Headings, st \in Stations,
        cause \in {6, 14}, v \in {60, 65535, 65536} :
       LET d == [MakeEmergency(st, 5, at.lat, at.lon, s, h, cause) EXCEPT !.validity = v]
           frame == DenmEncode(d)
       IN  \E data \in IF frame.ok THEN Cuts(frame.wire) ELSE {<< >>} :
             case' = [of |-> "denm", said |-> d, ok |-> frame.ok, data |-> data]

(* What a radio meets, and what a sender has observed of its losses.        *)
PickRadio ==
  /\ case = NoCase
  /\ \E p \in Percents, n \in Neighbours,
        o \in Percents \cap {0, 1, 4, 5, 14, 15, 19, 20, 29, 30, 100} :
       case' = [of |-> "radio", per |-> p, observed |-> o, neighbours |-> n]

(* A request with some of these headers.                                    *)
Named == {"Content-Type", "content-type", "X-QDAP-Priority", "x-qdap-priority",
          "X-QDAP-Deadline-Ms"}
PickRequest ==
  /\ case = NoCase
  /\ \E named \in SUBSET Named, type \in ContentKinds, p \in {Number(7), Word("high")},
        d \in {Number(80), Word("soon")}, odd \in BOOLEAN, x \in PayloadBytes :
       LET value == [name \in Named |->
                       CASE name \in {"Content-Type", "content-type"} -> type
                         [] name = "X-QDAP-Deadline-Ms" -> d
                         [] OTHER -> p]
           headers == [name \in named \cup {"Host"} |->
                         IF name # "Host" THEN value[name]
                         ELSE IF odd THEN Unreadable ELSE Word("h")]
       IN  case' = [of |-> "http", type |-> type,
                    request |-> [method |-> "PUT", path |-> "/", headers |-> headers, body |-> x]]

PickMessage ==
  /\ case = NoCase
  /\ \/ \E type \in MessageKinds : case' = [of |-> "message", type |-> type]
     \/ \E n \in 1..2, sizes \in {<<0, 63>>, <<64, 1023>>, <<1024, 1025>>, <<63, 1024>>} :
          \E topic \in [1..n -> {"a", "ems", "alarm", "ALARM", "EMERGENCY"}], x \in PayloadBytes :
            case' = [of |-> "mail", topic |-> topic, sizes |-> sizes, payload |-> x]

(* Subframes of two sessions, one of them of more urgency or of none.       *)
PickSubframes ==
  /\ case = NoCase
  /\ \E n \in 0..MaxQueue, urgency \in {0, 1, 3} :
       \E queue \in [1..n -> [deadline : {1, 3}, logSize : {1, 4}, type : {"DATA", "SYNC"},
                              session : {1, 2}]] :
         case' = [of |-> "subframes", urgencies |-> [s \in {2} |-> urgency], queue |-> queue]

(* A channel, and a strategy that was learnt to be better than the others.  *)
PickChannel ==
  /\ case = NoCase
  /\ \E p, r, l \in 0..ChannelGrid, k \in Score, f \in {1, 2, 5} :
       case' = [of |-> "channel", payload |-> p, rtt |-> r, loss |-> l,
                weights |-> [i \in Score |-> IF i = k THEN f ELSE 1], favoured |-> k]

PickDeadline ==
  /\ case = NoCase
  /\ \E s \in {0, 1, 4096, 4097, 30000}, d \in {4, 5, 9, 10, 40, 499, 500},
        r \in {0, 1, 5, 20, 250, 300}, l \in Percents \cap {0, 1, 10, 11, 50, 100}, h \in Score :
       case' = [of |-> "deadline", size |-> s, remaining |-> d, rtt |-> r, loss |-> l,
                heaviest |-> h]

(* Two peaks in a spectrum of n magnitudes.                                 *)
PickSpectrum ==
  /\ case = NoCase
  /\ \E n \in {9, 10, 16}, x, y \in 0..2 : \E i, j \in 1..n :
       case' = [of |-> "spectrum",
                magnitudes |-> [k \in 1..n |-> IF k = i THEN x ELSE IF k = j THEN y ELSE 0]]

(* One who drives, or brakes; two places in a town; a scene of n agents.    *)
Paces == {0, 50, 99, 100, 101, 1399, 2500, 14000, 36100, 38000}
Kerbs == {0, 9, 10, 100, 180, 181, 200, 220, 395}
PickTraffic ==
  /\ case = NoCase
  /\ \/ \E kind \in {Car, Motorcycle, Pedestrian}, v, w \in Paces, b \in BOOLEAN,
           n \in {0, 1, 2, 9, 33, 91, 100, 182, 260} :
          case' = [of |-> "drive", steps |-> n,
                    agent |-> [kind |-> kind, speed |-> v, target |-> w, braking |-> b,
                               place |-> 39000000]]
     \/ \E x, y, v, w \in Kerbs : case' = [of |-> "sight", p |-> <<x, y>>, q |-> <<v, w>>]
     \/ \E n \in 0..13 \cup 158..163, d \in {9, 14, 29} :
          case' = [of |-> "scene", agents |-> n, draws |-> [i \in 1..n |-> (d + i) % 100]]

Next ==
  \/ PickTopic \/ PickBlock \/ PickGroup \/ PickReports \/ PickStream \/ PickBatches \/ PickStreams
  \/ PickPath \/ PickQueue \/ PickProfile \/ PickFrame \/ PickFlat
  \/ PickPacket \/ PickStamp \/ PickDelta \/ PickSealed
  \/ PickBsm \/ PickDenm \/ PickRadio \/ PickTraffic
  \/ PickRequest \/ PickMessage \/ PickSubframes
  \/ PickHello \/ PickTicket \/ PickSignature \/ PickScheduler
  \/ PickChannel \/ PickDeadline \/ PickSpectrum
Spec == Init /\ [][Next]_case

-----------------------------------------------------------------------------
(* match() finds exactly the clients one of whose filters means the topic,  *)
(* with the highest QoS among those filters (topic_tree.py).                *)
DeliversWhatFiltersMean ==
  case.of = "topic" =>
    LET asked == case.asked
        trie == Subscribed(EmptyTrie,
                  [f \in Filters |-> IF f \in DOMAIN asked THEN asked[f] ELSE NotSub], case.id)
        meant == {f \in DOMAIN asked : Means(f, case.topic)}
    IN  /\ case.id \in Subscribers(trie, case.topic) <=> meant # {}
        /\ meant # {} =>
             GrantedQoS(trie, case.topic, case.id) = Max({asked[f] : f \in meant})

Packets(m) == Encode(m, case.k, case.r)
Got(m) == Received(Packets(m), case.lost)
Decoded == Decode(Got(case.message), case.k, case.r, Len(case.message))

(* Both decoders give what was sent or nothing, whatever is lost, padded or *)
(* split into more chunks than it has bytes (fec.rs, fec_decode; fec.py).   *)
(* As long as at most r packets are lost, fec_decode finds the message      *)
(* whenever the packets that arrived determine it: it gives up only if      *)
(* another message of that length would have looked the same.  Every chunk  *)
(* carries some of the message: a chunk of padding alone is known anyway.   *)
BlocksAreDecoded ==
  case.of = "block" =>
    /\ Decoded \in {Lost, case.message}
    /\ DecodeBlock(Got(case.message), case.k, case.r)
         \in {Lost, [i \in 0..case.k - 1 |-> Packets(case.message)[i]]}
    /\ (/\ Cardinality(case.lost) <= case.r
        /\ (case.k - 1) * ChunkSize(case.message, case.k) < Len(case.message)
        /\ Decoded = Lost) =>
         \E m \in [1..Len(case.message) -> Bits] \ {case.message} :
           Got(m) = Got(case.message)

(* Of a group the packets that arrived are kept as they are; one that is    *)
(* rebuilt is padded to the longest, since its length is not sent, and it   *)
(* is rebuilt if no other of its stripe is lost and the parity is there.    *)
(* With one chunk (k = 1) the parities are copies of the first packet, and  *)
(* what the decoder makes of them for another packet is not it.             *)
GroupsAreDecoded ==
  case.of = "group" =>
    LET packets == case.packets
        n == Cardinality(DOMAIN packets)
        decoded == DecodeBlock(Received(EncodeGroup(packets, case.k, case.r), case.lost),
                               n, case.r)
        gone == case.lost \cap DOMAIN packets
    IN  /\ decoded # Lost =>
             \A i \in DOMAIN packets :
               /\ i \notin gone => decoded[i] = packets[i]
               /\ i \in gone /\ case.k > 1 =>
                    decoded[i] = Padded(packets[i], LongestOf(packets))
        /\ (/\ Cardinality(case.lost) <= case.r
            /\ \A i \in gone : /\ n + (i % case.r) \notin case.lost
                               /\ \A j \in gone \ {i} : i % case.r # j % case.r) =>
             decoded # Lost

(* What a decoder hands on was sent.                                        *)
DecodesWhatWasSent == BlocksAreDecoded /\ GroupsAreDecoded

(* Up to r losses are recovered by FECDecoder.decode: fec.py:263, "Recovers *)
(* original data from a FEC block even when at most r packets are lost."    *)
RecoversUpToParity ==
  case.of = "block" /\ Cardinality(case.lost) <= case.r =>
    DecodeBlock(Got(case.message), case.k, case.r) # Lost

(* How likely fec_decode is to give up on a message, in parts of 100^4.     *)
Failure(loss, code) ==
  LET packets == Encode(<<1, 0>>, code[1], code[2])
      Fatal(n) == {lost \in SUBSET DOMAIN packets :
                     /\ Cardinality(lost) = n
                     /\ Decode(Received(packets, lost), code[1], code[2], 2) = Lost}
      Losing[n \in 0..code[1] + code[2]] ==
        Cardinality(Fatal(n)) * Chance(loss, n, code[1] + code[2])
          + (IF n = 0 THEN 0 ELSE Losing[n - 1])
  IN  Losing[code[1] + code[2]]

(* As long as no more than half of the packets are lost, the profile that   *)
(* is chosen loses no more messages than sending without parities; an       *)
(* urgent message is never protected worse than a normal one, nor a bulk    *)
(* transfer over a slow path worse than over a fast one; none costs more    *)
(* than the overhead allowed.  The model of loss (fec.rs, "exact binomial") *)
(* promises what the decoder keeps, except for BALANCED, where it promises  *)
(* too much: two losses may hit a chunk and its own parity.                 *)
ProfilePays ==
  case.of = "profile" /\ case.loss <= 50 =>
    LET normal == SelectFecProfile(case.loss, FALSE, case.overhead)
        urgent == SelectFecProfile(case.loss, TRUE, case.overhead)
        bulk == SelectBulkFecProfile(case.loss, case.rtt)
        slow == SelectBulkFecProfile(case.loss, 150)
        Fails(code) == Failure(case.loss, code)
    IN  /\ Fails(urgent) <= Fails(normal) /\ Fails(normal) <= Fails(Plain)
        /\ Fails(slow) <= Fails(bulk) /\ Fails(bulk) <= Fails(Plain)
        /\ \A c \in {normal, urgent, bulk} :
             /\ c[1] + c[2] <= case.overhead * c[1]
             /\ EffectiveLoss(case.loss, c[1], c[2]) <= Fails(c)
             /\ c # Balanced => EffectiveLoss(case.loss, c[1], c[2]) = Fails(c)

(* Over the radio that a bare protocol uses, QDAP loses no more packets of  *)
(* any urgency than that protocol, and the code that was chosen for what    *)
(* was observed loses no more emergencies than packets, nor, up to a loss   *)
(* of 50 percent, other messages, however far off the observation was.  It  *)
(* waits no longer for the medium, and whatever the load an emergency can   *)
(* be in time, which over C-V2X alone it may miss by waiting for its slot   *)
(* (protocols_bridge.py:123).                                               *)
BridgePays ==
  case.of = "radio" =>
    LET Loses(protocol, u) == PacketLoss(protocol, u, case.per, case.neighbours)
        Longest(protocol, u) == MediumOf(protocol, u, case.neighbours).wait
        Fails(urgent) == PFail(case.per, case.observed, urgent)
    IN  /\ \A u \in Urgencies :
             /\ Loses("qdap_dsrc", u) <= Loses("dsrc", u)
             /\ Loses("qdap_cv2x", u) <= Loses("cv2x", u)
             /\ Loses("qdap", u) <= Loses("dsrc", u)
             /\ Longest("qdap_dsrc", u) <= Longest("dsrc", u)
             /\ Longest("qdap_cv2x", u) <= Longest("cv2x", u)
        /\ Fails(TRUE) <= case.per * Million
        /\ Fails(TRUE) <= Fails(FALSE)
        /\ case.per <= 50 => Fails(FALSE) <= case.per * Million
        /\ Exponent(case.observed, FALSE) > 10
        /\ Exponent(case.observed, TRUE) > Exponent(case.observed, FALSE)
        /\ \A protocol \in {"qdap", "qdap_dsrc", "qdap_cv2x"} :
             MetDeadline("emergency", Longest(protocol, "emergency")
                                        + MediumOf(protocol, "emergency", case.neighbours).air)
        /\ ~MetDeadline("emergency", Longest("cv2x", "emergency"))

(* The estimate of the losses stays within what was observed.  Whoever      *)
(* observes more of them never protects a message by less, nor sends less   *)
(* for it; what is sent is the message, all packets of it arriving.         *)
EstimatesFollow ==
  case.of = "reports" =>
    LET Rate(report) == IF report.sent = 0 THEN 0 ELSE (Million * report.lost) \div report.sent
        Chosen(reports) ==
          AdaptiveProfile(ObserveLoss(reports) \div 10000, FALSE, 3, case.bulk, case.rtt)
        message == <<1, 0, 1>>
        code == Chosen(case.worse)
    IN  /\ ObserveLoss(case.calm) <= ObserveLoss(case.worse)
        /\ ObserveLoss(case.worse) <= Max({Rate(case.worse[i]) : i \in DOMAIN case.worse})
        /\ Chosen(case.calm)[2] <= code[2]
        /\ Decode(AdaptiveEncode(message, code), code[1], code[2], 3) = message

(* What is reported of a profile: up to a loss of 50 percent it delivers at *)
(* least as much as no profile, for no more than the overhead allowed.      *)
ImprovementsAreReal ==
  case.of = "profile" /\ case.loss \in 1..50 =>
    \A urgent \in BOOLEAN :
      LET report == DeliveryImprovement(case.loss, urgent, case.overhead)
      IN  /\ report.factor >= 1 /\ report.delivered >= report.raw
          /\ report.sent <= case.overhead * report.carried

(* Who brakes stands still for good within the distance that braking takes, *)
(* and who does not reaches the speed that is meant, or the most there is   *)
(* if that is less, and keeps it.                                           *)
VehiclesStop ==
  case.of = "drive" =>
    LET agent == case.agent
        n == case.steps
        road == 20 * HighwayLength
        After[i \in 0..n + 1] ==
          IF i = 0 THEN [agent |-> agent, way |-> 0]
          ELSE LET before == After[i - 1]
                   moved == Update(before.agent, road)
               IN  [agent |-> moved, way |-> before.way + moved.speed]
        now == After[n]
        next == After[n + 1].agent
        meant == Within(Max({agent.speed, agent.target}), agent.kind.most)
    IN  /\ now.agent.place = (agent.place + now.way) % road
        /\ agent.braking /\ agent.speed <= agent.kind.most =>
             /\ 2 * agent.kind.brake * now.way <= agent.speed * agent.speed
             /\ n * agent.kind.brake >= agent.speed => now.agent.speed = 0 /\ next.speed = 0
        /\ ~agent.braking /\ n > 0 =>
             /\ now.agent.speed <= next.speed
             /\ n * agent.kind.gain >= agent.target => now.agent.speed = meant

(* A building stands between two places exactly when they are not all to    *)
(* one side of it and its corners not all to one side of the line through   *)
(* both; so two on one street see each other, however they stand, and one   *)
(* inside of a building sees nobody (channel.py:63).                        *)
SightIsMutual ==
  case.of = "sight" =>
    LET p == case.p
        q == case.q
        Side(x, y) == (q[1] - p[1]) * (y - p[2]) - (q[2] - p[2]) * (x - p[1])
        Hides(box) ==
          LET xs == {box[1], box[1] + box[3]}
              ys == {box[2], box[2] + box[4]}
              Beside(k, low, high) == (p[k] < low /\ q[k] < low) \/ (p[k] > high /\ q[k] > high)
          IN  /\ ~Beside(1, Min(xs), Max(xs)) /\ ~Beside(2, Min(ys), Max(ys))
              /\ ~(\A x \in xs, y \in ys : Side(x, y) > 0)
              /\ ~(\A x \in xs, y \in ys : Side(x, y) < 0)
        Inside(box) == p[1] \in box[1]..box[1] + box[3] /\ p[2] \in box[2]..box[2] + box[4]
        Both(street) == OnStreet(street, p[1], p[2]) /\ OnStreet(street, q[1], q[2])
        Kerb(k) == {p[k], q[k]} \cap {180, 220} # {}
    IN  /\ \A box \in Buildings : SegmentIntersectsBox(p, q, box) <=> Hides(box)
        /\ IsLos(p, q, Buildings) <=> IsLos(q, p, Buildings)
        /\ (Both("horizontal") /\ ~Kerb(2)) \/ (Both("vertical") /\ ~Kerb(1)) =>
             IsLos(p, q, Buildings)
        /\ (\E box \in Buildings : Inside(box)) => ~IsLos(p, q, Buildings)

(* A scene has as many agents as were asked for; up to 160, if they are     *)
(* even, no two of a lane of the highway are nearer to each other than the  *)
(* spacing, also round its end.  Of an odd number the last one stands where *)
(* the first does, and so do some of more than 160 (simulation.py:171).     *)
ScenesHaveRoom ==
  case.of = "scene" =>
    LET n == case.agents
        town == SetupUrbanIntersection(n, case.draws)
        road == SetupHighwayPlatoon(n, case.draws)
        Round(x) == x % HighwayLength
        Apart(i, j) == Min({Round(road[i].x - road[j].x), Round(road[j].x - road[i].x)})
        Crowded == \E i, j \in 1..n :
                     /\ i < j /\ road[i].lane = road[j].lane
                     /\ Apart(i, j) < Spacing(n)
        Count(street) == Cardinality({i \in 1..n : town[i].street = street})
    IN  /\ Crowded <=> n > 2 /\ (n % 2 = 1 \/ n > 160)
        /\ Count("horizontal") = Count("vertical")
        /\ Count("scattered") \in Count("horizontal") \div 2..Count("horizontal") \div 2 + 4
        /\ {i \in 1..n + 1 : ~SetupEmergencyCascade(n, case.draws)[i].kind.radio} = {n + 1}

(* A code is chosen that pays, for a message and for a radio, and the       *)
(* traffic in which the radios are compared moves and sees as it can.       *)
ChosenProfilePays ==
  /\ ProfilePays /\ BridgePays /\ EstimatesFollow /\ ImprovementsAreReal
  /\ VehiclesStop /\ SightIsMutual /\ ScenesHaveRoom

(* A frame is read back exactly when all of it is there, whatever follows;  *)
(* cut short or with a number changed it is refused.  The hash of a flat    *)
(* frame speaks for its payload only, and whoever passes the frame on makes *)
(* a hash that fits again; to_bytes() of a frame that was built from        *)
(* subframes has none of what they carry (qframe.py:311).  The payload of a *)
(* control frame may be cut short.                                          *)
FramesReadBack ==
  /\ case.of = "frame" =>
       Deserialize(case.data) =
         IF IsPrefix(Serialize(case.frame), case.data)
         THEN [ok |-> TRUE, frame |-> case.frame] ELSE Raised
  /\ case.of = "frame" =>
       LET passed == FromBytes(ToBytes(case.frame)).frame
       IN  passed.hash_valid /\ passed.payload = << >> /\ passed.type = case.frame.type
  /\ case.of = "flat" =>
       LET got == FlatRead(case.data)
           peeked == PeekHeader(case.data)
           kept == FromBytes(case.data)
       IN  /\ kept.ok <=> got.ok
           /\ kept.ok =>
                FromBytes(ToBytes(kept.frame)) = [kept EXCEPT !.frame.hash_valid = TRUE]
           /\ IsPrefix(FlatWire(case.frame), case.data) =>
                got = [ok |-> TRUE, valid |-> TRUE, frame |-> case.frame]
           /\ IsStrictPrefix(case.data, FlatWire(case.frame)) => got = Raised
           /\ got.ok => /\ got.valid => got.frame.payload = case.frame.payload
                        /\ peeked.ok /\ peeked.length = Len(got.frame.payload)
  /\ case.of = "control" =>
       LET got == ControlRead(case.data)
       IN  /\ IsPrefix(ControlWire(case.type, case.payload), case.data) =>
                got = [ok |-> TRUE, type |-> case.type, payload |-> case.payload]
           /\ got.ok => IsPrefix(got.payload, SubSeq(case.data, 3, Len(case.data)))

(* Packets of MQTT 5.0 say what was sent.  One that is cut short says no    *)
(* more than that: fewer filters, less of a payload or of the last name.    *)
PacketsReadBack ==
  case.of = "packet" =>
    LET got == ParsePacket(case.packet.first, case.body)
        says == case.says
    IN  /\ case.body = case.packet.body => got = says
        /\ got.ok =>
             CASE got.type = CONNECT -> IsPrefix(got.client, says.client)
               [] got.type = PUBLISH -> /\ got.topic = says.topic /\ got.id = says.id
                                        /\ IsPrefix(got.payload, says.payload)
               [] got.type = SUBSCRIBE -> IsPrefix(got.filters, says.filters)
               [] OTHER ->
                    got.filters # << >> =>
                      LET n == Len(got.filters)
                      IN  /\ IsPrefix(Front(got.filters), says.filters)
                          /\ IsPrefix(got.filters[n][1], says.filters[n][1])

(* A stamp keeps its flags and never promises a higher rate or a later      *)
(* convergence than was measured; what it cannot hold is the most it can.   *)
(* The stamp of a scheduler names a strategy that it prefers to no other    *)
(* less, and says it is done only when no steps remain (the reverse fails:  *)
(* it needs 29 decisions for the one and 1024 for the other).  The chain of *)
(* decisions ranks by urgency alone, however sure the scheduler is, and its *)
(* stamp tells what its other nodes say (decision_dag.py:114).              *)
(* The fields of a delta are those that changed, as far as there are bits,  *)
(* and its payload is read back.                                            *)
HeadersReadBack ==
  /\ case.of = "stamp" =>
       LET s == case.stamp
           got == StampRead(case.data)
       IN  IF Len(case.data) < StampSize THEN got = DefaultStamp
           ELSE /\ got.rtt <= s.rtt /\ (s.rtt < got.rtt + 10 \/ got.rtt = 655350)
                /\ got.loss <= s.loss /\ s.loss < got.loss + 50
                /\ got.convergence = UpTo(s.convergence, 65535)
                /\ got.strategy = s.strategy /\ got.flags = s.flags
  /\ case.of = "scheduler" =>
       LET Said(n) == StampFromScheduler(2000, 100, case.weights, n, case.flags)
           got == StampRead(StampWire(Said(case.decisions)))
       IN  /\ got = Said(case.decisions)
           /\ \A i \in 0..4 : case.weights[i + 1] <= case.weights[got.strategy + 1]
           /\ 5 \in got.flags => got.convergence = 0
           /\ Said(case.decisions + 1).convergence <= got.convergence
           /\ \A urgent, decides \in BOOLEAN, state \in {"ACTIVE", "GHOST"},
                size \in {0, 65535, 65537} :
                LET Dag(n) == SendDag(size, urgent, state, decides, case.weights, n)
                    dag == Dag(case.decisions)
                IN  /\ Dag(1024)[3] = dag[3] /\ dag[3].priority = IF urgent THEN 1000 ELSE 350
                    /\ dag[1].chunk <= size /\ (decides => dag[1].chunk = size)
                    /\ dag[4].stamp.flags \ {5} =
                         {f \in {0, 1} : IF f = 0 THEN dag[2].state = "GHOST"
                                                  ELSE dag[3].priority = 1000}
  /\ case.of = "delta" =>
       LET mask == DeltaComputeBitmask(case.order, case.changed)
           wire == IF case.full THEN DeltaWrapFull(case.payload)
                   ELSE DeltaWrapDelta(mask, case.payload)
           got == DeltaParseHeader(case.data)
       IN  /\ DeltaFieldsFromBitmask(case.order, mask) =
                SelectSeq(SubSeq(case.order, 1, UpTo(Len(case.order), MaskWidth)),
                          LAMBDA f : f \in case.changed)
           /\ IsPrefix(wire, case.data) =>
                /\ got = [ok |-> TRUE, type |-> IF case.full THEN FRAME_FULL ELSE FRAME_DELTA,
                          mask |-> IF case.full THEN 0 ELSE mask]
                /\ IsPrefix(case.payload, DeltaGetPayload(case.data))
           /\ IsStrictPrefix(case.data, wire) /\ got.ok =>
                IsPrefix(DeltaGetPayload(case.data), case.payload)

(* An encrypted payload is given back under its key and its associated data *)
(* exactly when nothing of it was changed, cut off or added; and although   *)
(* the count of a nonce wraps, no two of an encryptor are the same as long  *)
(* as its time does not.                                                    *)
SealedReadBack ==
  case.of = "sealed" =>
    LET sealed == Pack(1, MakeNonce(case.base, case.counter), case.aad, case.text)
    IN  /\ Unpack(1, case.aad, case.data) =
             IF case.data = sealed THEN [verified |-> TRUE, text |-> case.text] ELSE NotVerified
        /\ Unpack(2, case.aad, case.data) = NotVerified
        /\ Unpack(1, Append(case.aad, 0), case.data) = NotVerified
        /\ \A n \in 1..TimeSpace - 1 :
             MakeNonce(case.base, case.counter + n) # MakeNonce(case.base, case.counter)

(* A client accepts exactly the hello its server sent it as a server, whole *)
(* and with the salt it was signed for, and both ends then have the same    *)
(* three keys, no two of them alike.  A ticket gives its key exactly as it  *)
(* was issued, until it expires and to the store that issued it; whatever   *)
(* is added, cut off or changed is refused.  A ghost signature holds for    *)
(* the number it was made for and every payload that begins alike.          *)
CredentialsReadBack ==
  /\ case.of = "hello" =>
       LET client == case.client
           server == case.server
           sent == BuildHello(SERVER_HELLO, server.private, 8, server.salt)
           ours == ClientHandshake(client, 8, server.salt, case.data)
           theirs == ServerHandshake(server, 9, client.salt,
                       BuildHello(CLIENT_HELLO, client.private, 9, client.salt))
       IN  /\ ours.ok <=> IsPrefix(sent, case.data)
           /\ theirs.ok
           /\ ours.ok => /\ ours.keys = theirs.keys
                         /\ Cardinality({ours.keys[k] : k \in DOMAIN ours.keys}) = 3
           /\ \A salt \in [1..2 -> Bits] \ {server.salt} :
                ClientHandshake(client, 8, salt, case.data) = Raised
           /\ ClientHandshake(client, 7, server.salt, case.data) = Raised
           /\ ServerHandshake(client, 8, server.salt, sent) = Raised
  /\ case.of = "ticket" =>
       /\ ReadTicket(5, case.data, case.now) =
            IF case.data = case.ticket /\ case.now <= case.expiry
            THEN [ok |-> TRUE, id |-> case.id, key |-> case.key] ELSE Raised
       /\ ReadTicket(6, case.data, case.now) = Raised
  /\ case.of = "signature" =>
       LET Start(payload) == Slice(payload, 0, SignedBytes)
       IN  GhostVerify(1, case.claimed, case.got, case.data) <=>
             /\ Len(case.data) = 1
             /\ case.claimed = case.number /\ Start(case.got) = Start(case.signed)

(* A vehicle's message is read as it was said, up to rounding and to what   *)
(* its fields hold, or cannot be built: a speed is refused by the receiver  *)
(* exactly when it was too high to be told, a place when there is none such.*)
(* What is cut short is refused.  A DENM that was built is always valid: no *)
(* validity that its field holds is too long.                               *)
VehiclesReadBack ==
  /\ case.of = "bsm" /\ case.ok =>
       LET b == case.said
           got == BsmDecode(case.data)
           whole == Len(case.data) >= BsmFields
           Near(x, y) == x - 1 <= y /\ y <= x + 1
       IN  /\ whole =>
                /\ got.lat = b.lat /\ got.lon = b.lon /\ Near(got.elev, b.elev)
                /\ Near(got.speed, b.speed) \/ (got.speed = 3 * 8191 /\ b.speed > 3 * 8191)
                /\ Near(got.heading, b.heading % Turn) /\ got.heading <= Turn
                /\ Near(got.accel, b.accel) \/ got.accel \in {-381, 381}
                /\ got.braking = b.braking /\ got.braking <=> got.brakes = BRAKE_ALL
                /\ got.id = case.station <=> case.station < StationSpace
           /\ ValidateBsm(case.data) <=>
                /\ whole /\ case.data[1] = MSG_ID_BSM
                /\ b.lat \in -90 * Degree..90 * Degree /\ b.lon \in -180 * Degree..180 * Degree
                /\ Nearest(b.speed) < 8191
  /\ case.of = "denm" /\ case.ok =>
       LET d == case.said
           got == DenmDecode(case.data)
           whole == Len(case.data) >= DenmFields
       IN  /\ whole => \A field \in DOMAIN got : got[field] = d[field]
           /\ ValidateDenm(case.data) <=> whole /\ case.data[1] = MSG_ID_DENM

(* A request reaches the backend as it came, without the headers that are   *)
(* for QDAP, unless one cannot be written; its answer comes back, and no    *)
(* answer is taken for a request; nobody at the other end is 504, or 502    *)
(* (http_bridge.py, proxy_server.py:56).                                    *)
EnvelopesReadBack ==
  /\ case.of = "http" =>
       LET r == case.request
           sent == HttpToQdapPayload(r)
           answer == BuildResponsePayload(404, r.headers, r.body)
       IN  /\ sent.ok <=> r.headers["Host"] # Unreadable
           /\ sent.ok =>
                /\ QdapPayloadToHttp(sent.payload) = [ok |-> TRUE, request |->
                     [r EXCEPT !.headers = [n \in DOMAIN r.headers \
                        {"X-QDAP-Priority", "X-QDAP-Deadline-Ms"} |-> r.headers[n]]]]
                /\ HandleClientRequest(r, answer)
                     = [status |-> 404, headers |-> r.headers, body |-> r.body]
           /\ ~QdapPayloadToHttp(answer).ok
           /\ \A connection \in {"refused", "late"} :
                HandleClientRequest(r, SendQdap(connection).answer).status
                  = IF sent.ok THEN 504 ELSE 502
  /\ case.of = "mail" =>
       LET got == UnwrapQFrame(WrapInQFrame(case.topic, case.payload))
       IN  /\ got.payload = case.payload
           /\ got.priority = TopicToPriority(case.topic, Len(case.payload))

(* Over connections that are there, a gateway passes on something: the      *)
(* client end of the proxy gets an answer, its server end asks a backend,   *)
(* or the web socket adapter sends a message on.  It is the least of what   *)
(* they say of themselves, each that it passes on everything                *)
(* (proxy_server.py:15, 59, 129, ws_adapter.py:4, 32).                      *)
GatewaysForward ==
  case.of = "http" /\ HttpToQdapPayload(case.request).ok =>
    \/ SendQdap("open").answer # NoAnswer
    \/ HandleQdapConnection("open").asked.ok
    \/ \E type \in DOMAIN MessageTypes : HandleWebsocket("open", <<type>>).forwarded # << >>

(* What is written to the wire is read back as it was, or refused, or is    *)
(* the beginning of it, and is never taken for something else               *)
(* (test_fuzzing.py:134, packet_parser.py:69, channel_stamps.py:80).        *)
WiresReadBack ==
  FramesReadBack /\ PacketsReadBack /\ HeadersReadBack /\ SealedReadBack /\ VehiclesReadBack
    /\ EnvelopesReadBack /\ CredentialsReadBack

(* However a stream of bytes is cut by reads, even inside a length, the     *)
(* broker takes exactly its packets from it and the QUIC adapter those of   *)
(* its frames that can be deserialized, each whole and in order, and        *)
(* nothing is left over (broker.py:46, quic/adapter.py:182).  Over a plain  *)
(* socket a call gives the next frame or says that it cannot be read; when  *)
(* the connection breaks, the frames that had arrived whole are given and   *)
(* every call after them fails (tcp_adapter.py:54).                         *)
CutsIntoMessages ==
  /\ case.of = "mqtt" =>
       HandleClient(case.pieces) = [out |-> case.bodies, rest |-> << >>]
  /\ case.of = "quic" =>
       HandleStreamData(case.pieces)
         = [out |-> SelectSeq(case.bodies, Parses), rest |-> << >>]
  /\ case.of = "tcp" =>
       LET Said(body) == IF Parses(body) THEN [result |-> "frame", body |-> body]
                         ELSE [result |-> "unreadable", body |-> << >>]
           closed == [result |-> "closed", body |-> << >>]
           first == Len(SendFrame(case.bodies[1]))
           both == first + Len(SendFrame(case.bodies[2]))
           arrived == Len(case.pieces[1]) + Len(case.pieces[2])
       IN  /\ RecvFrames(case.pieces, 3)
                = <<Said(case.bodies[1]), Said(case.bodies[2]), closed>>
           /\ RecvFrames(SubSeq(case.pieces, 1, 2), 2)
                = <<IF first <= arrived THEN Said(case.bodies[1]) ELSE closed,
                    IF both <= arrived THEN Said(case.bodies[2]) ELSE closed>>

(* The batches of a payload lie end to end, hold as many chunks as their    *)
(* headers say and all of the payload, and none is larger than the 2 MB of  *)
(* batch_config.py:6; what the sender says of them is so; chunks sent one   *)
(* by one are all of it as well, and only the first says it is first, only  *)
(* the last that it is last; no parallel stream gets two chunks more than   *)
(* another; the chunk for a path is more than half of what a quarter of the *)
(* path holds, and no more (chunker.rs:30).                                 *)
PlansTileThePayload ==
  /\ case.of = "batches" =>
       LET plan == AdaptiveSend(case.bands, case.size)
           said == Report(case.bands, case.size)
           chunk == IF case.size < ChunkingThreshold THEN AtLeast(case.size, 1)
                    ELSE ChunkSizeFor(case.bands, case.size - Overhead(case.size))
                           + Overhead(case.size)
           start(i) == plan[i].first * chunk
       IN  /\ 0 \in DOMAIN plan /\ plan[0].first = 0
           /\ \A i \in DOMAIN plan :
                /\ plan[i].chunks > 0
                /\ case.size > 0 => Chunks(plan[i].bytes, chunk) = plan[i].chunks
                /\ start(i) + plan[i].bytes =
                     IF i + 1 \in DOMAIN plan THEN start(i + 1) ELSE case.size
                /\ plan[i].bytes <= 2 * MB + plan[i].chunks * Overhead(case.size)
           /\ said.chunks = MapThenSumSet(LAMBDA i : plan[i].chunks, DOMAIN plan)
           /\ said.batches * said.reduction <= said.chunks
           /\ case.size >= ChunkingThreshold /\ said.chunks > 4 => said.batches < said.chunks
  /\ case.of = "streams" =>
       LET plan == PlanParallelChunks(case.size, case.chunk, case.streams)
           Load(s) == Cardinality({n \in DOMAIN plan : plan[n].stream = s})
       IN  /\ \A at \in 0..case.size - 1 :
                plan # << >> =>
                  Cardinality({n \in DOMAIN plan : plan[n].start <= at /\ at < plan[n].end}) = 1
           /\ \A s, t \in 0..case.streams - 1 : Load(s) <= Load(t) + 1
           /\ plan = << >> <=> case.chunk = 0 \/ case.streams = 0 \/ case.size = 0
  /\ case.of = "streams" /\ case.chunk > 0 =>
       LET frames == MakeChunkFrames(7, case.size, case.chunk, 100)
           Says(n) == MetadataRead(frames[n][1].meta)
       IN  /\ MapThenSumSet(LAMBDA n : frames[n][2].bytes, DOMAIN frames) = case.size
           /\ \A n \in DOMAIN frames :
                /\ frames[n][2].bytes \in 1..case.chunk
                /\ frames[n][2].deadline < frames[n][1].deadline
                /\ Says(n) = [stream |-> 7, index |-> n - 1, total |-> Len(frames),
                              first |-> n = 1, last |-> n = Len(frames)]
  /\ case.of = "path" =>
       LET chunk == CalculateOptimalChunkSize(case.size, case.path.rtt, case.path.bandwidth)
           useful == UpTo((case.path.rtt * case.path.bandwidth * 125) \div 4, case.size)
       IN  /\ Micro <= chunk /\ chunk <= Jumbo
           /\ chunk <= useful \/ chunk = Micro
           /\ useful < 2 * chunk \/ chunk = Jumbo

(* What must arrive earlier is never less important: among the kinds of a   *)
(* gateway, but for emergencies over HTTP, which rank below sound and films *)
(* that may take longer, and what no rule names, in which case a deadline   *)
(* of half a second goes with a low priority.  What a header says counts    *)
(* only if all of it is a number.  A topic of an emergency has the highest  *)
(* priority whatever it carries, and others the less the more they carry.   *)
GatewaysServeTheUrgent ==
  /\ case.of = "http" /\ HttpToQdapPayload(case.request).ok =>
       LET headers == case.request.headers
           mine == HttpToQdapPayload(case.request).urgency
           Given(name) == name \in DOMAIN headers /\ IsNumber(headers[name])
       IN  IF Given("X-QDAP-Priority")
                /\ ("X-QDAP-Deadline-Ms" \in DOMAIN headers => Given("X-QDAP-Deadline-Ms"))
           THEN mine.priority = 7
           ELSE IF "Content-Type" \notin DOMAIN headers THEN mine = DefaultUrgency
           ELSE \A other \in ContentKinds \ {<<"application", "x-emergency">>} :
                  LET theirs == ByContent(other)
                  IN  /\ mine.deadline < theirs.deadline /\ case.type # <<"application", "x-emergency">>
                           => mine.priority >= theirs.priority
                      /\ case.type = <<"application", "x-emergency">> =>
                           mine.deadline < theirs.deadline
  /\ case.of = "message" =>
       \A other \in MessageKinds \cap DOMAIN MessageTypes :
         LET mine == MessageToPriority(case.type)
             theirs == MessageToPriority(other)
         IN  /\ mine.deadline < theirs.deadline /\ case.type \in DOMAIN MessageTypes
                  => mine.priority > theirs.priority
             /\ theirs.deadline < mine.deadline => theirs.priority >= mine.priority
  /\ case.of = "mail" =>
       LET first == TopicToPriority(case.topic, case.sizes[1])
           second == TopicToPriority(case.topic, case.sizes[2])
       IN  /\ first >= second /\ first <= 1000
           /\ \E n \in DOMAIN case.topic : case.topic[n] \in {"EMERGENCY", "alarm"}
                => second = 1000

(* Every subframe of a frame is sent once.  None goes after another that is *)
(* due no earlier, is no smaller, of no higher type and of a session no     *)
(* more urgent, unless they are alike; by deadlines alone, the earliest is  *)
(* first and those in the past are the same.  Payloads sent together keep   *)
(* their numbers whatever order they are sent in, which is that of the      *)
(* priorities if the caller gives any, whatever the deadlines are, and else *)
(* one in which no payload without a deadline goes before a shorter one     *)
(* with one (server.py:339).                                                *)
AmplitudesServeTheUrgent ==
  case.of = "subframes" =>
    LET frames == [i \in DOMAIN case.queue |->
                     [deadline |-> case.queue[i].deadline, logSize |-> case.queue[i].logSize,
                      type |-> case.queue[i].type,
                      urgency |-> GetUrgency(case.urgencies, case.queue[i].session)]]
        order == SendOrder(CreateWithEncoder(frames))
        AsUrgent(x, y) ==
          /\ x.deadline <= y.deadline /\ x.logSize <= y.logSize
          /\ TypeWeight[x.type] >= TypeWeight[y.type] /\ x.urgency >= y.urgency
        weights == DeadlineWeights([i \in DOMAIN frames |-> frames[i].deadline - 2])
    IN  /\ \A sent \in {order, SendOrder(Create(frames))} :
             ToSet(sent) = DOMAIN frames /\ Len(sent) = Len(frames)
        /\ (\A i \in DOMAIN frames : frames[i].urgency > 0) =>
             \A m, n \in DOMAIN order :
               m < n /\ AsUrgent(frames[order[n]], frames[order[m]]) =>
                 AsUrgent(frames[order[m]], frames[order[n]])
        /\ \A i, j \in DOMAIN frames :
             frames[i].deadline <= frames[j].deadline => weights[i] >= weights[j]
        /\ \A n \in 0..Len(frames) :
             LET sizes == [i \in DOMAIN frames |-> frames[i].logSize]
                 deadlines == SubSeq([i \in DOMAIN frames |-> frames[i].deadline], 1, n)
                 ranks == [i \in DOMAIN frames |-> TypeWeight[frames[i].type]]
                 Sent(priorities) == SendMultiframe(sizes, priorities, deadlines, 7)
                 told == SendOrder(Sent(ranks))
                 found == SendOrder(Sent(<< >>))
             IN  /\ [i \in DOMAIN frames |-> Sent(ranks).subframes[i].seq]
                       = [i \in DOMAIN frames |-> 6 + i]
                 /\ \A i, j \in DOMAIN told : i < j => ranks[told[i]] >= ranks[told[j]]
                 /\ \A i, j \in DOMAIN found :
                      found[i] > n /\ found[j] <= n /\ sizes[found[j]] <= sizes[found[i]] => j < i

(* A schedule holds every packet of the queue once.  Unless low frequencies *)
(* outweigh high ones, the packet with the earliest deadline goes first.    *)
(* Latencies rule all of urgent traffic and sizes all of bulk traffic; of   *)
(* mixed traffic, latencies rule the urgent half and sizes the other one    *)
(* (strategies.py:49, 77, 86), whatever comes between.                      *)
QueuesServeTheUrgent ==
  case.of = "queue" /\ case.queue # << >> =>
    LET sent == Schedule(case.bands, case.queue)
        bands == case.bands
        median == MedianDeadline(case.queue)
        Of(q, p) == Cardinality({n \in DOMAIN q : q[n] = p})
        Urgent(n) == sent[n].deadline <= median
        Soonest(m, n) == sent[m].deadline <= sent[n].deadline
        Largest(m, n) == sent[m].size >= sent[n].size
    IN  /\ \A p \in PacketSpace : Of(sent, p) = Of(case.queue, p)
        /\ bands.high >= bands.low => \A n \in DOMAIN sent : Soonest(1, n)
        /\ \A m, n \in DOMAIN sent : m < n =>
             /\ bands.low > 700 => Largest(m, n)
             /\ bands.high > 600 => Soonest(m, n)
             /\ IsMixed(bands) /\ Urgent(m) /\ Urgent(n) => Soonest(m, n)
             /\ IsMixed(bands) /\ ~Urgent(m) /\ ~Urgent(n) => Largest(m, n)

(* The halves of mixed traffic are interleaved: with packets enough in both *)
(* and energy in both bands, neither half is sent to its end before the     *)
(* other begins (the docstring of AdaptiveHybridStrategy.sort, and the      *)
(* comments in its loop, strategies.py:97).                                 *)
HalvesInterleave ==
  case.of = "queue" /\ case.queue # << >> =>
    LET sent == Schedule(case.bands, case.queue)
        urgent == {n \in DOMAIN sent : sent[n].deadline <= MedianDeadline(case.queue)}
        bulk == DOMAIN sent \ urgent
    IN  IsMixed(case.bands) /\ case.bands.low > 0 /\ case.bands.high > 0
          /\ Cardinality(urgent) > 1 /\ Cardinality(bulk) > 1 =>
            /\ \E u \in urgent, b \in bulk : u < b
            /\ \E u \in urgent, b \in bulk : b < u

(* The port in Rust and the scheduler in Python choose the same chunks, and *)
(* while nothing was learnt the fallback of the bridge does too; what was   *)
(* learnt in favour of a strategy never moves the choice to a third.        *)
(* While nothing was learnt more loss never makes the chunks larger, but    *)
(* for payloads of tens of megabytes over short paths, and what loses a     *)
(* fifth or more has no large ones.  A frame whose deadline leaves no time  *)
(* to send it again goes in small chunks; its retries are over in time, and *)
(* less loss or more time never makes it worse off.  The streams share the  *)
(* chunks of any choice evenly, and the bands hold the whole spectrum.      *)
ChunksFitTheChannel ==
  /\ case.of = "channel" =>
       LET Now(loss) == Scores(case.payload, case.rtt, loss)
           even == [i \in Score |-> 1]
           fresh == Decided(Now(case.loss), even)
       IN  /\ QftDecide(Now(case.loss), case.weights) = Decided(Now(case.loss), case.weights)
           /\ PythonQftDecide(Now(case.loss)) = fresh
           /\ Decided(Now(case.loss), case.weights) \in {fresh, case.favoured}
           /\ case.payload <= 8 \/ case.rtt > 5 =>
                /\ case.loss < Grid => Decided(Now(case.loss + 1), even) <= fresh
                /\ case.loss = Grid => fresh <= 3
  /\ case.of = "deadline" =>
       LET Frame(loss, remaining) == DecideEmergency(case.size, loss, remaining, case.rtt)
           now == Frame(case.loss, case.remaining)
           retries == Retries(case.remaining, case.rtt)
           chosen == DecideDeadlineAware(Scores(Grid \div 2, 0, 0), case.remaining, case.rtt)
           plan == PlanParallelChunks(case.size, now.chunk, StreamsFor(case.heaviest, case.loss))
           Load(s) == Cardinality({n \in DOMAIN plan : plan[n].stream = s})
           fallback == SchedulerDeadlineAware(Scores(Grid \div 2, 0, 0), [i \in Score |-> 1],
                                              case.remaining, case.rtt)
       IN  /\ retries = 0 => chosen = 1
           /\ fallback.chunk = chosen
           /\ fallback.urgent => fallback.named = fallback.chunk
           /\ retries > 0 => (retries + 1) * case.rtt <= case.remaining
           /\ now.factor <= Frame(case.loss + 1, case.remaining).factor
           /\ Frame(case.loss, case.remaining + 100).factor <= now.factor
           /\ now.fragments = Len(plan)
           /\ \A s, t \in 0..StreamsFor(case.heaviest, case.loss) - 1 : Load(s) <= Load(t) + 1
  /\ case.of = "spectrum" =>
       LET bands == EnergyBands(case.magnitudes)
       IN  bands.low + bands.mid + bands.high \in 998..1000

(* What is urgent goes first, in a queue, in a frame and through a gateway, *)
(* and in chunks that fit the channel and the deadline.                     *)
SchedulesServeTheUrgent ==
  /\ QueuesServeTheUrgent
  /\ AmplitudesServeTheUrgent
  /\ GatewaysServeTheUrgent
  /\ ChunksFitTheChannel
=============================================================================
