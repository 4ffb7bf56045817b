\* Queues of up to five packets, with as much energy in the low band as in the
\* high one.
SPECIFICATION Spec
CONSTANTS
  Ids = {}
  Filters = {}
  Topics = {}
  QoS = {0, 1}
  NotSub = NotSub
  Lost = Lost
  Codes = {}
  MaxLength = 2
  Base = 2
  Digits = 3
  Bad = 3
  MaxBody = 0
  Bands <- MCEvenBands
  Sizes = {}
  MaxPlan = 0
  Links = {}
  MaxQueue = 5
  Percents = {}
  MaskWidth = 2
  CounterSpace = 2
  TimeSpace = 6
  StationSpace = 1
  Stations = {}
  Neighbours = {}
  ContentKinds = {}
  MessageKinds = {}
  ChannelGrid = 0
  MaxPayload = 0
INVARIANTS
  HalvesInterleave
CHECK_DEADLOCK FALSE
