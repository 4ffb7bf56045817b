------------------------------ MODULE Framing ------------------------------
(***************************************************************************)
(* How a receiver cuts a stream of bytes into messages when it reads it in *)
(* pieces of any size: the loop of QDAPBroker.handle_client over packets   *)
(* with a remaining length of one digit or more (packet_parser.py),        *)
(* QDAPQUICAdapter._handle_stream_data over a length of fixed size, and    *)
(* QDAPOverTCP.recv_frame, which asks a socket for as much as it needs.  A *)
(* digit has the base 128 in the code, and a length two or four of them.   *)
(***************************************************************************)
EXTENDS Naturals, Sequences, SequencesExt

CONSTANTS
  Base,    \* 128, and 256 for QUIC
  Digits,  \* 4: the digits of a QUIC length
  Bad      \* a byte that no frame has: QFrame.deserialize raises

ASSUME FramingAssumption == Base \in Nat \ {0, 1} /\ Digits \in Nat /\ Bad \in Nat

Type == 0  \* the first byte of a packet, of which the loop knows nothing

(* n without its k least digits.                                            *)
Shifted(n, k) ==
  LET Rest[i \in 0..k] == IF i = 0 THEN n ELSE Rest[i - 1] \div Base
  IN  Rest[k]

Remaining(digits) ==
  LET Read[i \in 0..Len(digits)] ==
        IF i = 0 THEN [value |-> 0, multiplier |-> 1]
        ELSE LET last == Read[i - 1]
             IN  [value |-> last.value + (digits[i] % Base) * last.multiplier,
                  multiplier |-> last.multiplier * Base]
  IN  Read[Len(digits)].value

(* encode_remaining_length: as many digits as it takes, the least first, all *)
(* but the last marked.                                                      *)
EncodeRemainingLength(n) ==
  LET last == Min({d \in 1..n + 1 : Shifted(n, d) = 0})
  IN  [i \in 1..last |-> (Shifted(n, i - 1) % Base) + (IF i < last THEN Base ELSE 0)]

FixedLength(n) == [i \in 1..Digits |-> Shifted(n, Digits - i) % Base]

MqttPacket(body) == <<Type>> \o EncodeRemainingLength(Len(body)) \o body
QuicMessage(body) == FixedLength(Len(body)) \o body

(* The header and the body of the first message in a buffer, as positions;  *)
(* Incomplete where the code breaks out of its loop to read more.           *)
Incomplete == [from |-> 0, to |-> 0]
Cut(buffer, header, length) ==
  IF Len(buffer) < header + length THEN Incomplete
  ELSE [from |-> header + 1, to |-> header + length]

MqttCutEager(buffer) ==                                   \* mutant of MqttCut
  LET ends == {k \in 2..Len(buffer) : buffer[k] < Base}
      last == IF ends = {} THEN Len(buffer) ELSE Min(ends)
  IN  IF Len(buffer) < 2 THEN Incomplete
      ELSE Cut(buffer, last, Remaining(SubSeq(buffer, 2, last)))

(* decode_remaining_length raises IndexError when the digits are cut off.   *)
MqttCut(buffer) ==
  LET ends == {k \in 2..Len(buffer) : buffer[k] < Base}
  IN  IF ends = {} THEN Incomplete
      ELSE Cut(buffer, Min(ends), Remaining(SubSeq(buffer, 2, Min(ends))))

QuicCut(buffer) ==
  IF Len(buffer) < Digits THEN Incomplete
  ELSE Cut(buffer, Digits, Remaining(Reverse(SubSeq(buffer, 1, Digits))))

(* One piece is read: the messages that are complete now, and the rest.     *)
Handled(state, piece, CutOf(_)) ==
  LET buffer == state.rest \o piece
      Loop[n \in 0..Len(buffer)] ==
        LET rest == SubSeq(buffer, n + 1, Len(buffer))
            cut == CutOf(rest)
        IN  IF cut = Incomplete THEN [out |-> << >>, rest |-> rest]
            ELSE LET after == Loop[n + cut.to]
                 IN  [out |-> <<SubSeq(rest, cut.from, cut.to)>> \o after.out,
                      rest |-> after.rest]
  IN  [out |-> state.out \o Loop[0].out, rest |-> Loop[0].rest]

NothingRead == [out |-> << >>, rest |-> << >>]
HandleClient(pieces) == FoldLeft(LAMBDA s, p : Handled(s, p, MqttCut), NothingRead, pieces)

(* A message that cannot be deserialized is skipped.                        *)
Parses(body) == Bad \notin Range(body)
HandleStreamData(pieces) ==
  LET all == FoldLeft(LAMBDA s, p : Handled(s, p, QuicCut), NothingRead, pieces)
  IN  [all EXCEPT !.out = SelectSeq(@, Parses)]

-----------------------------------------------------------------------------
(* QDAPOverTCP: a magic number and a version, each one byte here, in front  *)
(* of a length of fixed size.                                               *)
TcpMagic == 1
TcpVersion == 1
TcpHeader == 2 + Digits
SendFrame(body) == <<TcpMagic, TcpVersion>> \o FixedLength(Len(body)) \o body

(* _recv_exactly: a socket gives what has arrived, at most what is asked    *)
(* for and at most one piece at a time; the rest of a piece stays there.    *)
(* Fewer than n bytes are got only when the connection is closed.           *)
RecvExactly(socket, n) ==
  FoldLeft(LAMBDA s, piece :
             LET lacking == n - Len(s.got)
                 taken == IF lacking < Len(piece) THEN lacking ELSE Len(piece)
             IN  [got |-> s.got \o SubSeq(piece, 1, taken),
                  socket |-> Append(s.socket, SubSeq(piece, taken + 1, Len(piece)))],
           [got |-> << >>, socket |-> << >>], socket)

(* recv_frame: ConnectionError, ProtocolError, or ValueError of deserialize,*)
(* after which all of the frame has been read nevertheless.                 *)
Failing(why, socket) == [result |-> why, body |-> << >>, socket |-> socket]
RecvFrame(socket) ==
  LET header == RecvExactly(socket, TcpHeader)
      data == RecvExactly(header.socket,
                Remaining(Reverse(SubSeq(header.got, 3, TcpHeader))))
  IN  IF Len(header.got) < TcpHeader THEN Failing("closed", header.socket)
      ELSE IF header.got[1] # TcpMagic \/ header.got[2] # TcpVersion
      THEN Failing("protocol", header.socket)
      ELSE IF Len(data.got) < Remaining(Reverse(SubSeq(header.got, 3, TcpHeader)))
      THEN Failing("closed", data.socket)
      ELSE IF ~Parses(data.got) THEN Failing("unreadable", data.socket)
      ELSE [result |-> "frame", body |-> data.got, socket |-> data.socket]

(* What n calls give, one after the other, whatever the earlier ones raise. *)
RecvFrames(socket, n) ==
  LET Call[i \in 0..n] ==
        IF i = 0 THEN [got |-> << >>, socket |-> socket]
        ELSE LET next == RecvFrame(Call[i - 1].socket)
             IN  [got |-> Append(Call[i - 1].got, [result |-> next.result, body |-> next.body]),
                  socket |-> next.socket]
  IN  Call[n].got
=============================================================================
