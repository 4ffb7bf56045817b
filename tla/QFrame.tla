------------------------------- MODULE QFrame -------------------------------
(***************************************************************************)
(* The three layouts of a frame (frame/qframe.py): a QFrame with its       *)
(* subframes, the flat frame of to_bytes() (qframe.rs, and _rust_bridge.py *)
(* which falls back on the same layout), and a control frame.  A field is  *)
(* one number of the wire whatever its width, and so is a hash.            *)
(***************************************************************************)
EXTENDS Integers, Sequences, SequencesExt

Kinds == 1..5        \* FrameType and SubframeType: any other number raises
HeaderSize == 5      \* version, type, subframe count, flags; session id
SubframeHeader == 3  \* length, type, sequence number
FlatHeader == 8      \* magic, version, type, priority, deadline, number, length, hash
ControlHeader == 2   \* type, length
Version == 1
Magic == 77
Raised == [ok |-> FALSE]

(* data[from : from + n] of Python: short, or empty, behind the end.        *)
Slice(data, from, n) ==
  SubSeq(data, from + 1, IF from + n < Len(data) THEN from + n ELSE Len(data))

(* Stands for SHA3-256: no field has such a value, and two inputs that      *)
(* differ in one place never have the same.                                 *)
Sha3(data) == 256 + FoldLeft(LAMBDA h, b : (31 * h + b + 1) % 65521, 0, data)

-----------------------------------------------------------------------------
SubframeWire(sf) == <<Len(sf.payload), sf.type, sf.seq>> \o sf.payload

Raw(f) ==
  <<f.version, f.type, Len(f.subframes), f.flags, f.session>> \o f.amplitudes
    \o FlattenSeq([i \in DOMAIN f.subframes |-> SubframeWire(f.subframes[i])])
Serialize(f) == Append(Raw(f), Sha3(Raw(f)))

(* One round of the loop over the subframes: a header that is cut short or  *)
(* of an unknown type raises, a payload that is cut short does not.         *)
NextSubframe(data, read) ==
  LET header == Slice(data, read.at, SubframeHeader)
      sound == read.ok /\ Len(header) = SubframeHeader /\ header[2] \in Kinds
  IN  IF ~sound THEN [read EXCEPT !.ok = FALSE]
      ELSE [ok |-> TRUE,
            at |-> read.at + SubframeHeader + header[1],
            got |-> Append(read.got,
              [type |-> header[2], seq |-> header[3],
               payload |-> Slice(data, read.at + SubframeHeader, header[1])])]

ReadSubframes(data) ==
  FoldLeft(LAMBDA read, i : NextSubframe(data, read),
           [ok |-> TRUE, at |-> HeaderSize + data[3], got |-> << >>],
           [i \in 1..data[3] |-> i])

FrameOf(data, subframes) ==
  [version |-> data[1], type |-> data[2], flags |-> data[4], session |-> data[5],
   amplitudes |-> Slice(data, HeaderSize, data[3]), subframes |-> subframes]

DeserializeFromEnd(data) ==                           \* mutant of Deserialize
  IF Len(data) <= HeaderSize \/ data[2] \notin Kinds THEN Raised
  ELSE LET read == ReadSubframes(data)
           sound == Last(data) = Sha3(Front(data))
       IN  IF read.ok /\ sound THEN [ok |-> TRUE, frame |-> FrameOf(data, read.got)]
           ELSE Raised

(* The hash is looked for behind the last subframe and taken over all that  *)
(* was read before it, so that what follows a frame does not matter.        *)
Deserialize(data) ==
  IF Len(data) < HeaderSize \/ data[2] \notin Kinds THEN Raised
  ELSE LET read == ReadSubframes(data)
           sound == Slice(data, read.at, 1) = <<Sha3(Slice(data, 0, read.at))>>
       IN  IF read.ok /\ sound THEN [ok |-> TRUE, frame |-> FrameOf(data, read.got)]
           ELSE Raised

-----------------------------------------------------------------------------
FlatHeaderOf(f) ==
  <<Magic, Version, f.type, f.priority, f.deadline, f.number, Len(f.payload), Sha3(f.payload)>>
FlatWire(f) == FlatHeaderOf(f) \o f.payload

(* A payload that does not fit its hash is handed over, and marked.         *)
HasFlatHeader(data) == Len(data) >= FlatHeader /\ data[1] = Magic
FlatFields(data) ==
  LET payload == Slice(data, FlatHeader, data[7])
  IN  [ok |-> TRUE, valid |-> Sha3(payload) = data[8],
       frame |-> [type |-> data[3], priority |-> data[4], deadline |-> data[5],
                  number |-> data[6], payload |-> payload]]
FlatRead(data) ==
  IF ~HasFlatHeader(data) THEN Raised
  ELSE IF Len(data) < FlatHeader + data[7] THEN Raised ELSE FlatFields(data)

PeekHeader(data) ==
  IF ~HasFlatHeader(data) THEN Raised
  ELSE [ok |-> TRUE, length |-> data[7], priority |-> data[4],
        deadline |-> data[5], type |-> data[3]]

(* to_bytes() knows the attributes that from_bytes() gives a frame; one     *)
(* that was built from subframes has none of them but its type.             *)
OrElse(frame, name, default) == IF name \in DOMAIN frame THEN frame[name] ELSE default
ToBytes(frame) ==
  FlatWire([type |-> frame.type, payload |-> OrElse(frame, "payload", << >>),
            priority |-> OrElse(frame, "priority", 0), number |-> OrElse(frame, "number", 0),
            deadline |-> OrElse(frame, "deadline", 500)])
FromBytes(data) ==
  LET read == FlatRead(data)
  IN  IF read.ok THEN [ok |-> TRUE, frame |-> read.frame @@ [hash_valid |-> read.valid]]
      ELSE Raised

-----------------------------------------------------------------------------
ControlWire(type, payload) == <<type, Len(payload)>> \o payload

(* A payload that is cut short is handed over as it is.                     *)
ControlRead(data) ==
  IF Len(data) < ControlHeader THEN Raised
  ELSE [ok |-> TRUE, type |-> data[1], payload |-> Slice(data, ControlHeader, data[2])]
=============================================================================
