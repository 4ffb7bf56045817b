\* The five profiles of fec.py and two more codes, every loss of up to r packets.
SPECIFICATION Spec
CONSTANTS
  Ids = {}
  Filters = {}
  Topics = {}
  QoS = {0, 1}
  NotSub = NotSub
  Lost = Lost
  Codes <- MCCodes
  MaxLength = 2
  Base = 2
  Digits = 3
  Bad = 3
  MaxBody = 0
  Bands = {}
  Sizes = {}
  MaxPlan = 0
  Links = {}
  MaxQueue = 0
  Percents = {}
  MaskWidth = 2
  CounterSpace = 2
  TimeSpace = 6
  StationSpace = 1
  Stations = {}
  Neighbours = {}
  ContentKinds = {}
  MessageKinds = {}
  ChannelGrid = 0
  MaxPayload = 0
INVARIANTS
  RecoversUpToParity
CHECK_DEADLOCK FALSE
