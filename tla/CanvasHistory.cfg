SPECIFICATION Spec
CONSTANTS
  EditTypes <- TwoTypes
  Strokes <- OneStroke
  Limit = 3
  MaxEdits = 6
CHECK_DEADLOCK FALSE
INVARIANTS HistoryInv OneStrokeEach
