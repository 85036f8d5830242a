SPECIFICATION Spec
CONSTANTS
  Frames = {f1}
  PassThrough = {}
  Inboxes = {i1}
  MaxTime = 2
  MaxNet = 3
  Broadcasts = {}
  Direct = Direct
  Ttl = 1
  RetryWindow = 1
  MaxRetries = 2
  MaxCrashes = 0
  PassThroughTimeout = 1
  Retentions = {1}
  Known = {i1}
  DefaultRetention = 1
  MaxChanges = 1
  LastEnqueue = 1
  MaxQueued = 1
INVARIANTS PollFetchesMessages
CHECK_DEADLOCK FALSE
