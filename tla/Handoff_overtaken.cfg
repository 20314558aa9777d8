SPECIFICATION FairSpec
CONSTANTS
  Conns = {c1}
  None = None
  Envelopes = {e1}
  Extension = x1
  MaxOperations = 2
  MaxDeliveries = 1
  MaxCodes = 1
  MaxSuspended = 1
  MaxEffort = 4
CHECK_DEADLOCK FALSE
PROPERTIES
  OperationSettles
