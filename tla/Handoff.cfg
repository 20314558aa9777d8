SPECIFICATION Spec
CONSTANTS
  Conns = {c1, c2}
  None = None
  Envelopes = {e1, e2}
  Extension = x1
  MaxOperations = 3
  MaxCodes = 2
  MaxSuspended = 2
  MaxEffort = 5
  MaxDeliveries = 2
CONSTRAINT Explored
SYMMETRY HandoffSymmetry
CHECK_DEADLOCK FALSE
INVARIANTS
  TypeOK
  DisconnectedStaysOff
  EndsAgree
  StoredReviewBelongs
  ResolvedWasAccepted
