\* Three payloads, of which wide has more pieces than the frame of a parallel
\* stream can count; the third stream takes the id of the first.
SPECIFICATION Spec
CONSTANTS
  two = two
  one = one
  wide = wide
  Payloads = {two, one, wide}
  Pieces <- MCPieces
  Width = 3
  IdSpace = 2
  NStreams = 2
  MaxFaults = 1
  NoStream = NoStream
  Frames = {two, one}
  Clients = {c1, c2}
  Profiles = {1, 3}
  Eof = Eof
  Torn = Torn
  NoOne = NoOne
INVARIANTS
  TypeOK
  NothingStuck
PROPERTIES
  TransfersPayloads
  Delivered
CHECK_DEADLOCK FALSE
