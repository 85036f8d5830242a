SPECIFICATION Spec
CONSTANTS
  Frames = {f1}
  PassThrough = {}
  Inboxes = {i1, i2}
  MaxTime = 2
  MaxNet = 1
  Broadcasts = {}
  Direct = Direct
  Ttl = 3
  RetryWindow = 1
  MaxRetries = 1
  MaxCrashes = 0
  PassThroughTimeout = 1
  Retentions = {1}
  Known = {i1}
  DefaultRetention = 1
  MaxChanges = 1
  LastEnqueue = 1
  MaxQueued = 1
INVARIANTS NoLoss 
PROPERTIES KeptUntilTaken ImplementsMailbox
CHECK_DEADLOCK FALSE
