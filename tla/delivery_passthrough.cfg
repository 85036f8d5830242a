SPECIFICATION Spec
CONSTANTS
  Frames = {f1}
  PassThrough = {f1}
  Inboxes = {i1, i2}
  MaxTime = 2
  MaxNet = 2
  Broadcasts = {}
  Direct = Direct
  Ttl = 1
  RetryWindow = 1
  MaxRetries = 2
  MaxCrashes = 0
  PassThroughTimeout = 1
  Retentions = {1}
  Known = {}
  DefaultRetention = 1
  MaxChanges = 0
  LastEnqueue = 1
  MaxQueued = 1
INVARIANTS PassThroughNotReplicated
CHECK_DEADLOCK FALSE
