SPECIFICATION Spec
CONSTANTS
  Alice = Alice
  Bob = Bob
  NoCt = NoCt
  MAX_SKIPPED_KEYS = 2
  MaxEpoch = 1
  MaxMsgs = 3
  MaxDups = 1
  MaxRestarts = 1
INVARIANTS TypeOK SkippedWithinCapacity NoReplay KemStepsAlternate SkippedKeysGenuine
CHECK_DEADLOCK FALSE
