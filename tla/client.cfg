SPECIFICATION Spec
CONSTANTS
  Contacts = {c1}
  Groups = {g1, g2}
  Passphrases = {p1, p2}
  None = None
  Devices = {"outbox"}
  Lifetime = 2
  Threshold = 1
  MaxTime = 2
  MaxStarts = 2
  MaxRequests = 3
  MaxFaults = 1
INVARIANTS
  TypeOK  IdentityKept NoKeyReuse DeviceHoldsRecordedKey
   RowBeforeFrame  
CHECK_DEADLOCK FALSE
SYMMETRY Symmetry
