\* Three connections over two client ids: a reconnect under the same id while
\* a third connection is in the middle of publishing to it.
SPECIFICATION Spec
CONSTANTS
  Conns = {c1, c2, c3}
  Clients = {x, y}
  NoConn = NoConn
  NoClient = NoClient
  NotSub = NotSub
  Filters <- MCFilters
  Topics <- MCTopics
  QoS = {1}
  PidLimit = 2
SYMMETRY Symmetry
INVARIANTS
  TypeOK
  SessionFollowsConnection
  SubscriptionsLeadSomewhere
  SchedulerFollowsConnection
PROPERTIES
  WritesReachOthers
  PersistentIdsGoOn
CHECK_DEADLOCK FALSE
