\* Two tasks that rotate keys, three connections of a device over time, three
\* hybrid handshakes with one responder, a sender with six network profiles and
\* four spectra, two schedulers of a device.
\* Four sequence numbers, so that a window of three evicts and a receiver
\* that remembers two forgets; five sends, so that one is a retransmission.
SPECIFICATION LifeSpec
CONSTANTS
  Tasks = {t1, t2}
  NoRotation = NoRotation
  Interval = 2
  Window = 1
  MaxCount = 5
  MaxKeys = 4
  Conns = {c1, c2, c3}
  NoTicket = NoTicket
  NoKeys = NoKeys
  Measured <- MCMeasured
  Every = 4
  Enough = 3
  Spectra <- MCSpectra
  Unset = Unset
  Threshold = 3
  Gaps <- MCGaps
  MaxTransitions = 5
  Schedulers = {s1, s2}
  Devices = {d1}
  NoDevice = NoDevice
  NoProfile = NoProfile
  Chunks = {micro, medium}
  Micro = micro
  MaxLearnt = 3
  MaxCore = 4
  Initiators = {i1, i2, i3}
  NoMessage = NoMessage
  NoSecret = NoSecret
  MaxPairs = 3
  MaxRadios = 2
  TotalSteps = 6
  ClearAfter = 2
  Trigger = 1
  NoLead = NoLead
  Seqs = {1, 2, 3, 4}
  MaxWindow = 3
  MaxReceived = 2
  MaxClock = 4
  MaxSends = 5
INVARIANTS
  TypeOK
  KeysAreFound
  KeysAgree
  TicketsAreSingleUse
  LearningIsCounted
  GhostTypeOK
  MirrorAgrees
  SendsAccounted
  RepeatsOnlyBehindWindow
PROPERTY
  ChangesAreEarned
CHECK_DEADLOCK FALSE
