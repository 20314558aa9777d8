SPECIFICATION Spec
CONSTANTS
  Runs = {r1}
  Cancels = {c1}
  NoRun = NoRun
CHECK_DEADLOCK FALSE
INVARIANTS
  CancellationRemainsAvailable
