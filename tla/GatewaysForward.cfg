\* Requests for every kind of content, over open connections.
SPECIFICATION Spec
CONSTANTS
  Ids = {}
  Filters = {}
  Topics = {}
  QoS = {0, 1}
  NotSub = NotSub
  Lost = Lost
  Codes = {}
  MaxLength = 2
  Base = 2
  Digits = 3
  Bad = 3
  MaxBody = 0
  Bands = {}
  Sizes = {}
  MaxPlan = 0
  Links = {}
  MaxQueue = 0
  Percents = {}
  MaskWidth = 2
  CounterSpace = 2
  TimeSpace = 6
  StationSpace = 1
  Stations = {}
  Neighbours = {}
  ContentKinds <- MCContentKinds
  MessageKinds = {}
  ChannelGrid = 0
  MaxPayload = 0
INVARIANTS
  GatewaysForward
CHECK_DEADLOCK FALSE
