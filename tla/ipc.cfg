SPECIFICATION FairSpec
CONSTANTS
  Clients = {c1}
  Threads = {t1, t2}
  Recv = Recv
  MaxConns = 2
  MaxCalls = 2
  MaxPushes = 1
  MaxStops = 1
INVARIANTS TypeOK OwnAnswer HandlerCallUnanswered  
PROPERTIES DisconnectReturns
CHECK_DEADLOCK FALSE
