SPECIFICATION FairSpec
CONSTANTS
  Frames = {f1, f2}
  PassThrough = {f2}
  Inboxes = {i1}
  MaxTime = 4
  MaxNet = 2
  Broadcasts = {f2}
  Direct = Direct
  Ttl = 2
  RetryWindow = 3
  MaxRetries = 3
  MaxCrashes = 1
  PassThroughTimeout = 1
  Retentions = {1, 2}
  Known = {}
  DefaultRetention = 1
  MaxChanges = 1
  LastEnqueue = 1
  MaxQueued = 1
INVARIANTS TypeOK NoLoss DeliveredWasReceived OnlyRecipientsReceive 
PROPERTIES NoRevival KeptUntilTaken ImplementsMailbox Settled
CHECK_DEADLOCK FALSE
