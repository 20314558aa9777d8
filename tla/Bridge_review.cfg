SPECIFICATION FairSpec
CONSTANTS
  Conns = {c1, c2}
  Extensions = {x1}
  None = None
  Envelopes = {e1, e2}
  MaxCodes = 1
  MaxDeliveries = 2
  MaxRequests = 2
  MaxCalls = 1
INVARIANTS
  DeliveryTracked
  ReviewBelongsToLastDelivery
PROPERTIES
  DecisionIsFinal
  DeliverySettles
  UnauthenticatedEnds
