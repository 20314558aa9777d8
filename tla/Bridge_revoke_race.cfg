SPECIFICATION Spec
CONSTANTS
  Conns = {c1}
  Extensions = {x1}
  None = None
  Envelopes = {e1}
  MaxCodes = 1
  MaxDeliveries = 0
  MaxRequests = 0
  MaxCalls = 2
INVARIANTS
  RevokeClearsBoth
