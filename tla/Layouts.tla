------------------------------ MODULE Layouts -------------------------------
(***************************************************************************)
(* What the small messages look like on the wire, written and read: MQTT   *)
(* packets (broker/packet_parser.py), channel stamps (protocol/            *)
(* channel_stamps.py), the frame of a delta (delta.rs, _rust_bridge.py)    *)
(* and encrypted payloads (security/encrypted_frame.py).  As in QFrame a   *)
(* field is one number of the wire; data[p + 1] is what Python calls       *)
(* data[p].                                                                *)
(***************************************************************************)
EXTENDS QFrame, FiniteSets

CONSTANTS
  MaskWidth,        \* bits of a bitmask of fields
  CounterSpace,     \* 2^32, and 2^64: what the parts of a nonce hold
  TimeSpace

(* Sums of powers of two, and back.                                         *)
MaskOf(positions) == FoldSet(LAMBDA i, sum : sum + 2 ^ i, 0, positions)
PositionsIn(mask, width) == {i \in 0..width - 1 : (mask \div 2 ^ i) % 2 = 1}

-----------------------------------------------------------------------------
(* MQTT packets: type and flags in one byte, then the body that the         *)
(* remaining length speaks of (Framing models that length).                 *)
CONNECT == 1
PUBLISH == 3
SUBSCRIBE == 8
UNSUBSCRIBE == 10

WithLength(text) == <<Len(text)>> \o text
NoProperties == <<0>>

Text(data, at) == Slice(data, at + 1, data[at + 1])
AfterText(data, at) == at + 1 + data[at + 1]
AfterProperties(data, at) == at + 1 + data[at + 1]
Has(data, at) == at < Len(data)

ParseConnect(body) ==
  LET version == 1 + body[1]
      flags == body[version + 2]
      id == IF body[version + 1] = 5 THEN AfterProperties(body, version + 3) ELSE version + 3
  IN  IF Has(body, 0) /\ Has(body, version + 2) /\ Has(body, version + 3) /\ Has(body, id)
      THEN [ok |-> TRUE, type |-> CONNECT, client |-> Text(body, id),
            keepalive |-> body[version + 3], clean |-> 1 \in PositionsIn(flags, 8)]
      ELSE Raised

(* A publish is read as one of MQTT 5.0, with properties, whatever version  *)
(* the connection named.                                                    *)
ParsePublish(flags, body) ==
  LET qos == (flags \div 2) % 4
      id == AfterText(body, 0)
      properties == IF qos > 0 THEN id + 1 ELSE id
  IN  IF Has(body, 0) /\ Has(body, properties)
      THEN [ok |-> TRUE, type |-> PUBLISH, qos |-> qos, retain |-> flags % 2 = 1,
            topic |-> Text(body, 0), id |-> IF qos > 0 THEN body[id + 1] ELSE 0,
            payload |-> LET from == AfterProperties(body, properties)
                        IN  Slice(body, from, Len(body))]
      ELSE Raised

(* One round of the loop over the filters of a SUBSCRIBE or UNSUBSCRIBE.    *)
NextFilter(type, body, read) ==
  LET qos == AfterText(body, read.at)
  IN  IF ~read.ok \/ ~Has(body, read.at) THEN read
      ELSE IF type = UNSUBSCRIBE
      THEN [read EXCEPT !.at = qos, !.got = Append(@, <<Text(body, read.at), 0>>)]
      ELSE IF ~Has(body, qos) THEN [read EXCEPT !.ok = FALSE]
      ELSE [read EXCEPT !.at = qos + 1,
                        !.got = Append(@, <<Text(body, read.at), body[qos + 1] % 4>>)]

ParseFilters(type, body) ==
  IF Len(body) < 2 THEN Raised
  ELSE LET read == FoldLeft(LAMBDA r, n : NextFilter(type, body, r),
                            [ok |-> TRUE, at |-> AfterProperties(body, 1), got |-> << >>],
                            body)
       IN  IF read.ok THEN [ok |-> TRUE, type |-> type, id |-> body[1], filters |-> read.got]
           ELSE Raised

ParsePacket(first, body) ==
  LET type == first \div 16
      flags == first % 16
  IN  CASE type = CONNECT -> ParseConnect(body)
        [] type = PUBLISH -> ParsePublish(flags, body)
        [] type \in {SUBSCRIBE, UNSUBSCRIBE} -> ParseFilters(type, body)
        [] OTHER -> [ok |-> TRUE, type |-> type]

(* What the broker sends to a subscriber.                                   *)
PublishFlags(qos, retain) == 2 * qos + (IF retain THEN 1 ELSE 0)
BuildPublish(p) ==
  [first |-> 16 * PUBLISH + PublishFlags(p.qos, p.retain),
   body |-> WithLength(p.topic) \o (IF p.qos > 0 THEN <<p.id>> ELSE << >>)
              \o NoProperties \o p.payload]

(* What clients send.                                                       *)
Properties(version) == IF version = 5 THEN NoProperties ELSE << >>
ConnectPacket(version, client, clean, keepalive) ==
  [first |-> 16 * CONNECT,
   body |-> WithLength(<<9, 9>>) \o <<version, IF clean THEN 2 ELSE 0, keepalive>>
              \o Properties(version) \o WithLength(client)]
FilterPacket(type, id, filters) ==
  [first |-> 16 * type + 2,
   body |-> <<id>> \o NoProperties
              \o FlattenSeq([i \in DOMAIN filters |->
                   WithLength(filters[i][1])
                     \o (IF type = SUBSCRIBE THEN <<filters[i][2]>> ELSE << >>)])]

-----------------------------------------------------------------------------
(* Channel stamps.  An RTT is in hundredths of a ms, a loss in parts of ten *)
(* thousand; on the wire they have tenths and halves of a percent.          *)
UpToBits(n, bits) == IF n < 2 ^ bits THEN n ELSE 2 ^ bits - 1
StampSize == 5
DefaultStamp == [rtt |-> 2000, loss |-> 100, strategy |-> 2, convergence |-> 29, flags |-> {}]

StampWire(s) ==
  <<UpToBits(s.rtt \div 10, 16), UpToBits(s.loss \div 50, 8), s.strategy % 256,
    UpToBits(s.convergence, 16), MaskOf(s.flags)>>

StampRead(data) ==
  IF Len(data) < StampSize THEN DefaultStamp
  ELSE [rtt |-> 10 * data[1], loss |-> 50 * data[2], strategy |-> data[3],
        convergence |-> data[4], flags |-> PositionsIn(data[5], 6)]

(* stamp_from_scheduler: what a scheduler knows after so many decisions,    *)
(* with the flags the caller sets; the first of the largest weights counts. *)
ConvergenceSteps == 29
WarmedUp(decisions) == decisions >= 1024
StampFromScheduler(rtt, loss, weights, decisions, flags) ==
  [rtt |-> rtt, loss |-> loss,
   strategy |-> CHOOSE i \in 0..4 :
                  \A j \in 0..4 : /\ weights[j + 1] <= weights[i + 1]
                                  /\ weights[j + 1] = weights[i + 1] => i <= j,
   convergence |-> IF decisions < ConvergenceSteps THEN ConvergenceSteps - decisions ELSE 0,
   flags |-> flags \cup (IF WarmedUp(decisions) THEN {5} ELSE {})]

(* build_send_dag: a node for each step.  A decision is a size and has none *)
(* of the attributes that are looked for, so that the payload stays whole;  *)
(* one that raises leaves at most 64 KB of it.  Confidence in thousandths.  *)
SendDag(size, urgent, state, decides, weights, decisions) ==
  LET qft == [name |-> "QFT", chunk |-> IF decides \/ size < 65536 THEN size ELSE 65536,
              strategy |-> "MEDIUM", confidence |-> 500]
      usual == qft.confidence \div 2 + 100
      flags == (IF state = "GHOST" THEN {0} ELSE {}) \cup (IF urgent THEN {1} ELSE {})
  IN  <<qft,
        [name |-> "Ghost", state |-> state],
        [name |-> "Priority",
         priority |-> IF urgent THEN 1000 ELSE IF usual < 999 THEN usual ELSE 999],
        [name |-> "Stamp", stamp |-> StampFromScheduler(2000, 100, weights, decisions, flags)]>>

-----------------------------------------------------------------------------
(* Frames of a delta: the bitmask says which fields of the order changed.   *)
FRAME_FULL == 0
FRAME_DELTA == 1

DeltaWrapFull(payload) == <<FRAME_FULL>> \o payload
DeltaWrapDelta(mask, payload) == <<FRAME_DELTA, mask>> \o payload

DeltaParseHeader(data) ==
  IF data = << >> THEN Raised
  ELSE IF data[1] = FRAME_FULL THEN [ok |-> TRUE, type |-> FRAME_FULL, mask |-> 0]
  ELSE IF data[1] = FRAME_DELTA /\ Len(data) >= 2
  THEN [ok |-> TRUE, type |-> FRAME_DELTA, mask |-> data[2]]
  ELSE Raised

DeltaGetPayload(data) ==
  Slice(data, IF data[1] = FRAME_FULL THEN 1 ELSE 2, Len(data))

DeltaComputeBitmask(order, changed) ==
  MaskOf({i \in 0..MaskWidth - 1 : Has(order, i) /\ order[i + 1] \in changed})
DeltaFieldsFromBitmask(order, mask) ==
  LET wanted == SetToSortSeq(PositionsIn(mask, MaskWidth) \cap 0..Len(order) - 1, <)
  IN  [n \in DOMAIN wanted |-> order[wanted[n] + 1]]

-----------------------------------------------------------------------------
(* Encrypted payloads.  AES-GCM is given: a cipher text of the length of    *)
(* the text that depends on key and nonce, and a tag over everything.       *)
Cipher(key, nonce, text) == [i \in DOMAIN text |-> (text[i] + key + nonce[1] + i) % 256]
Clear(key, nonce, cipher) == [i \in DOMAIN cipher |-> (cipher[i] + 768 - key - nonce[1] - i) % 256]
Tag(key, nonce, aad, cipher) == Sha3(<<key>> \o nonce \o WithLength(aad) \o cipher)

(* A nonce is a time that counts on, and the count.                         *)
MakeNonce(base, counter) == <<(base + counter) % TimeSpace, counter % CounterSpace>>

(* encrypt, with the nonce of its count, and decrypt; what is given for a   *)
(* text that does not fit its tag is empty.                                 *)
Encrypt(key, nonce, aad, text) ==
  LET cipher == Cipher(key, nonce, text)
  IN  [nonce |-> nonce, tag |-> Tag(key, nonce, aad, cipher), cipher |-> cipher]

NotVerified == [verified |-> FALSE, text |-> << >>]
Decrypt(key, aad, sealed) ==
  IF sealed.tag # Tag(key, sealed.nonce, aad, sealed.cipher) THEN NotVerified
  ELSE [verified |-> TRUE, text |-> Clear(key, sealed.nonce, sealed.cipher)]

(* On the wire: nonce, tag, cipher text.                                    *)
Pack(key, nonce, aad, text) ==
  LET sealed == Encrypt(key, nonce, aad, text)
  IN  sealed.nonce \o <<sealed.tag>> \o sealed.cipher
Unpack(key, aad, data) ==
  IF Len(data) < 3 THEN NotVerified
  ELSE Decrypt(key, aad, [nonce |-> SubSeq(data, 1, 2), tag |-> data[3],
                          cipher |-> Slice(data, 3, Len(data))])
=============================================================================
