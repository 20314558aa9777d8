SPECIFICATION Spec
CONSTANTS
  Runs = {r1, r2}
  Cancels = {c1, c2}
  NoRun = NoRun
SYMMETRY CallSymmetry
CHECK_DEADLOCK FALSE
INVARIANTS
  TypeOK
  ExclusiveRun
  QueuedCancelReachesTurn
  CancelStaysWithItsRun
  AtMostOneInterrupt
  RequestedMeansCancelled
  NothingLeftBehind
