\* One client comes and goes: is its profile saved when it goes?
SPECIFICATION Spec
CONSTANTS
  Conns = {c1}
  Clients = {x}
  NoConn = NoConn
  NoClient = NoClient
  NotSub = NotSub
  Filters <- MCFilters
  Topics <- MCTopics
  QoS = {1}
  PidLimit = 2
PROPERTY
  DisconnectSavesProfile
CHECK_DEADLOCK FALSE
