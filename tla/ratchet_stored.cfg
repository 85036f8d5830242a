SPECIFICATION Spec
CONSTANTS
  Alice = Alice
  Bob = Bob
  NoCt = NoCt
  MAX_SKIPPED_KEYS = 8
  MaxEpoch = 1
  MaxMsgs = 2
  MaxDups = 0
  MaxRestarts = 0
INVARIANTS StoredStateComplete
CHECK_DEADLOCK FALSE
