SPECIFICATION FairSpec
CONSTANTS
  Runs = {r1, r2}
  Cancels = {c1}
  NoRun = NoRun
CHECK_DEADLOCK FALSE
PROPERTIES
  LockReleased
  CancelAnswered
  ImplementsExactRun
