\* One frame of one client, with error correction and without.
SPECIFICATION Spec
CONSTANTS
  two = two
  one = one
  wide = wide
  Payloads = {two, one, wide}
  Pieces <- MCPieces
  Width = 3
  IdSpace = 2
  NStreams = 2
  MaxFaults = 0
  NoStream = NoStream
  Frames = {one}
  Clients = {c1}
  Profiles = {1, 3}
  Eof = Eof
  Torn = Torn
  NoOne = NoOne
INVARIANTS
  FramesComeOnce
CHECK_DEADLOCK FALSE
