SPECIFICATION Spec
CONSTANTS
  Conns = {c1, c2}
  Extensions = {x1, x2}
  None = None
  Envelopes = {e1}
  MaxCodes = 2
  MaxDeliveries = 0
  MaxRequests = 0
  MaxCalls = 3
SYMMETRY BridgeSymmetry
INVARIANTS
  TypeOK
  RevokedBrowserStaysOut
  CodeSpentOnce
  OneBrowser
