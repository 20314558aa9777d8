SPECIFICATION Spec
CONSTANTS
  Base = 4
  HeaderLength = 2
  MaxFrame = 2
  Text <- MCText
  Calls = {discover, interrupt}
  MaxSockets = 2
  MaxFrames = 3
CHECK_DEADLOCK FALSE
INVARIANTS
  TypeOK
  FramesIntact
  OwnAnswer
  NoRequestStranded
  DisposedHoldsOnlyLate
PROPERTIES
  EverythingSettles
