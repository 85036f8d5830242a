SPECIFICATION Spec
CONSTANTS
  Clients = {c1}
  Threads = {t1}
  Recv = Recv
  MaxConns = 2
  MaxCalls = 1
  MaxPushes = 1
  MaxStops = 0
INVARIANTS PushIgnoresWriteErrors
CHECK_DEADLOCK FALSE
