\* All inputs up to two filters on topics of three levels, and messages of up
\* to four bits, some shorter than the number of chunks; two messages of up to
\* four bytes in three reads; payloads at and beside every limit of the sizes.
\* Readings of two schemas, one of them wider than the bitmask; two frames on
\* their way.
SPECIFICATION CodecsSpec
CONSTANTS
  Ids = {x}
  Filters <- MCFilters
  Topics <- MCTopics
  QoS = {0, 1}
  NotSub = NotSub
  Lost = Lost
  Codes <- MCCodes
  MaxLength = 4
  Base = 2
  Digits = 3
  Bad = 3
  MaxBody = 4
  Bands <- MCBands
  Sizes <- MCSizes
  MaxPlan = 9
  Links <- MCLinks
  MaxQueue = 3
  Percents <- MCPercents
  MaskWidth = 2
  CounterSpace = 2
  TimeSpace = 6
  StationSpace = 2
  Stations = {0, 1, 2}
  Neighbours <- MCNeighbours
  ContentKinds <- MCContentKinds
  MessageKinds <- MCMessageKinds
  ChannelGrid = 10
  MaxPayload = 2
  heat = heat
  wear = wear
  tilt = tilt
  Schemas <- MCSchemas
  Values = {v1, v2}
  MaxFields = 2
  MaxWire = 2
  Lossy = TRUE
  NoReading = NoReading
INVARIANTS
  DeliversWhatFiltersMean
  DecodesWhatWasSent
  CutsIntoMessages
  PlansTileThePayload
  SchedulesServeTheUrgent
  ChosenProfilePays
  WiresReadBack
  TypeOK
  BaselinesAgree
PROPERTY
  ShowsReadings
CHECK_DEADLOCK FALSE
