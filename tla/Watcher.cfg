SPECIFICATION SessionSpec
CONSTANTS
  TurnIds <- MCTurnIds
  Texts <- MCTexts
  SamePrompt <- MCSamePrompt
  NoTurn = NoTurn
  NoText = NoText
  ExactPrompt = ExactPrompt
  Bootstrap = Bootstrap
  Real = Real
  SameForeign = SameForeign
  OtherForeign = OtherForeign
  MaxRecords = 6
  Old = {o1}
  New = {n1, n2}
  MaxEvidence = 3
  MaxOdd = 1
SYMMETRY NewSymmetry
CHECK_DEADLOCK FALSE
INVARIANTS
  SessionTypeOK
  InspectionMatchesReference
  ReportsExactTurn
  BootstrapCorrelated
  NoFalseAlarm
PROPERTIES
  OneTurnAnnounced
