SPECIFICATION Spec
CONSTANTS
  a = a
  b = b
  None = None
  Nodes <- TwoNodes
  Bootstrap <- AtoB
  MaxIds = 2
  MaxAccepts = 2
  MaxSends = 2
  MaxStarts = 3
  MaxRequests = 4
  MaxNet = 2
INVARIANTS TypeOK   
PROPERTIES CloseIsFinal
CHECK_DEADLOCK FALSE
