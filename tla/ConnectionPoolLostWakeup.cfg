\* The server goes down while two tasks sleep; nobody is cancelled.
SPECIFICATION Spec
CONSTANTS
  Tasks = {t1, t2, t3}
  Conns = {c1}
  NoConn = NoConn
  MinSize = 0
  MaxSize = 1
  ConnectMayFail = TRUE
  MayCancel = FALSE
INVARIANT
  WaitsOnlyWhileFull
