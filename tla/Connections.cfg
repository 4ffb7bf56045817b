\* Four tasks compete for two connections, of which one is kept idle: two
\* tasks can sleep while two hold, connects fail, callers are cancelled.
\* Four senders share two slots of one connection, which one of them may close
\* and the peer may reset: two can wait while two drain.
SPECIFICATION ConnectionsSpec
CONSTANTS
  Tasks = {t1, t2, t3, t4}
  Conns = {c1, c2}
  NoConn = NoConn
  MinSize = 1
  MaxSize = 2
  ConnectMayFail = TRUE
  MayCancel = TRUE
  Senders = {s1, s2, s3, s4}
  High = 2
  BufferMax = 1
  MayTimeOut = TRUE
  MayReset = TRUE
  MayRaise = TRUE
INVARIANTS
  TypeOK
  Capacity
  ExclusiveUse
  HeldAreCounted
  WakeupAccounting
  AdapterTypeOK
  SlotsConserved
  SleepersOnlyWhenFull
  ReturnsOnlyIfTaken
PROPERTY
  WaitingEnds
