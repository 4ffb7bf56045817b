----------------------------- MODULE DeltaCodec -----------------------------
(***************************************************************************)
(* DeltaEncoder and DeltaDecoder (compression/delta_encoder.py) at the two *)
(* ends of a channel that keeps the order of the frames and may lose some. *)
(* A reading is a function from its fields to values.  A DELTA frame       *)
(* carries a bitmask over the first MaxFields fields, in the order of the  *)
(* last FULL frame, and the fields that changed; the decoder only asks     *)
(* whether the bitmask is 0.                                               *)
(***************************************************************************)
EXTENDS Integers, Sequences, FiniteSets

CONSTANTS
  Schemas,    \* sets of fields a device sends readings of
  Values,     \* values of a field
  MaxFields,  \* MAX_FIELDS
  MaxWire,    \* bound: frames on their way at once
  Lossy,      \* may the channel lose a frame?
  NoReading     \* None

ASSUME SchemasAssumption == \A s \in Schemas : IsFiniteSet(s)
ASSUME MaxFieldsAssumption == MaxFields \in Nat
ASSUME LossyAssumption == Lossy \in BOOLEAN
Readings == UNION {[s -> Values] : s \in Schemas}
(* what a decoder may hold after a loss: values of any of the fields        *)
Partials == UNION {[fs -> Values] : fs \in SUBSET UNION Schemas}
ASSUME NoReadingAssumption == NoReading \notin Partials

VARIABLES
  baseline,    \* the encoder's _baseline
  fieldOrder,  \* the encoder's _field_order
  wire,        \* frames on their way, each with the reading it was made of
  known,       \* the decoder's _baseline
  shown,       \* what decode() returned last
  gap          \* history: a frame was lost since the last FULL that arrived

vars == <<baseline, fieldOrder, wire, known, shown, gap>>

Orders(s) ==
  {o \in [1..Cardinality(s) -> s] : \A f \in s : \E i \in 1..Cardinality(s) : o[i] = f}

DeltaInit ==
  /\ baseline = NoReading
  /\ fieldOrder = <<>>
  /\ wire = <<>>
  /\ known = NoReading
  /\ shown = NoReading
  /\ gap = FALSE

-----------------------------------------------------------------------------
Changed(r) == {f \in DOMAIN r : r[f] # baseline[f]}

(* mutant of TooManyChanges: the bitmask is thought to be wide enough       *)
TooManyChangesOnly(r) ==
  DOMAIN r = {} \/ 2 * Cardinality(Changed(r)) > Cardinality(DOMAIN r)

(* delta_change_ratio: more than DELTA_THRESHOLD = 0.5 of the fields, or    *)
(* more fields than the bitmask has bits.                                   *)
TooManyChanges(r) ==
  \/ DOMAIN r = {}
  \/ 2 * Cardinality(Changed(r)) > Cardinality(DOMAIN r)
  \/ Cardinality(DOMAIN r) > MaxFields

NeedsFull(r) ==
  baseline = NoReading \/ DOMAIN r # DOMAIN baseline \/ TooManyChanges(r)

(* mutant of Bitmask: the bits are counted from 0                           *)
BitmaskFromZero(r) == {i - 1 : i \in {j \in 1..Len(fieldOrder) : fieldOrder[j] \in Changed(r)}}

Bitmask(r) == {i \in 1..Len(fieldOrder) : i <= MaxFields /\ fieldOrder[i] \in Changed(r)}

Full(r) == [type |-> "FULL", mask |-> {}, body |-> r]
Delta(r) ==
  [type |-> "DELTA", mask |-> Bitmask(r), body |-> [f \in Changed(r) |-> r[f]]]

EncodeFull(r) ==
  /\ baseline' = r
  /\ fieldOrder' \in Orders(DOMAIN r)
  /\ wire' = Append(wire, [frame |-> Full(r), reading |-> r])

(* mutant of EncodeDelta: changes are taken against the last FULL frame     *)
EncodeDeltaToFull(r) ==
  /\ UNCHANGED <<baseline, fieldOrder>>
  /\ wire' = Append(wire, [frame |-> Delta(r), reading |-> r])

EncodeDelta(r) ==
  /\ baseline' = r
  /\ UNCHANGED fieldOrder
  /\ wire' = Append(wire, [frame |-> Delta(r), reading |-> r])

EncodeReading ==
  /\ Len(wire) < MaxWire
  /\ \E r \in Readings : IF NeedsFull(r) THEN EncodeFull(r) ELSE EncodeDelta(r)
  /\ UNCHANGED <<known, shown, gap>>

-----------------------------------------------------------------------------
(* changed fields over the decoder's baseline, dict.update()                *)
Updated(old, changes) ==
  [f \in DOMAIN old \cup DOMAIN changes |->
     IF f \in DOMAIN changes THEN changes[f] ELSE old[f]]

(* bitmask 0 is "nothing changed" and its body is not read                  *)
Applied(old, d) == IF d.mask = {} THEN old ELSE Updated(old, d.body)

DecodeFull(r) ==
  /\ known' = r
  /\ shown' = r
  /\ gap' = FALSE

(* mutant of DecodeDelta: the changes are shown but not remembered          *)
DecodeDeltaForgets(d) ==
  /\ shown' = IF known = NoReading THEN NoReading ELSE Applied(known, d)
  /\ UNCHANGED <<known, gap>>

DecodeDelta(d) ==
  /\ IF known = NoReading
     THEN shown' = NoReading /\ UNCHANGED known
     ELSE /\ known' = Applied(known, d)
          /\ shown' = known'
  /\ UNCHANGED gap

DecodeFrame ==
  /\ wire # <<>>
  /\ LET d == Head(wire).frame
     IN  IF d.type = "FULL" THEN DecodeFull(d.body) ELSE DecodeDelta(d)
  /\ wire' = Tail(wire)
  /\ UNCHANGED <<baseline, fieldOrder>>

Lose ==
  /\ Lossy
  /\ wire # <<>>
  /\ wire' = Tail(wire)
  /\ gap' = TRUE
  /\ UNCHANGED <<baseline, fieldOrder, known, shown>>

(* reset() of either end, when its process starts anew or by hand, and of   *)
(* both for a new session over a new connection.                            *)
EncoderReset ==
  /\ baseline' = NoReading
  /\ fieldOrder' = <<>>
  /\ UNCHANGED <<wire, known, shown, gap>>

DecoderReset ==
  /\ known' = NoReading
  /\ UNCHANGED <<baseline, fieldOrder, wire, shown, gap>>

RenewSession ==
  /\ baseline' = NoReading
  /\ fieldOrder' = <<>>
  /\ wire' = <<>>
  /\ known' = NoReading
  /\ gap' = FALSE
  /\ UNCHANGED shown

DeltaNext == EncodeReading \/ DecodeFrame \/ Lose \/ EncoderReset \/ DecoderReset \/ RenewSession
DeltaSpec == DeltaInit /\ [][DeltaNext]_vars

-----------------------------------------------------------------------------
Frames == [type : {"FULL", "DELTA"}, mask : SUBSET (1..MaxFields), body : Partials]

TypeOK ==
  /\ baseline \in Readings \cup {NoReading}
  /\ fieldOrder \in Seq(UNION Schemas)
  /\ wire \in Seq([frame : Frames, reading : Readings])
  /\ known \in Partials \cup {NoReading}
  /\ shown \in Partials \cup {NoReading}
  /\ gap \in BOOLEAN

(* Decoding promises what ReadingStream says: as long as no frame is lost,  *)
(* what the decoder rebuilds from bitmasks and changed fields is exactly    *)
(* the reading that was encoded, whatever the sizes of the changes, the     *)
(* number of fields, the changes of schema and the resets of either end.    *)
Stream == INSTANCE ReadingStream WITH
  queue <- [i \in 1..Len(wire) |-> wire[i].reading],
  ready <- (known # NoReading),
  Nothing <- NoReading
ShowsReadings == Stream!Spec

(* With nothing on its way and nothing lost, the two baselines are equal.   *)
BaselinesAgree ==
  wire = <<>> /\ ~gap /\ known # NoReading /\ baseline # NoReading => known = baseline

=============================================================================
