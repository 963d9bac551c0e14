SPECIFICATION Spec
CONSTANTS
  Boxes = {6, 8}
  Numbers = {6, 8, 7}
  Amounts = {5, 38}
  Start = 40
  LineMin = 2
  PlaceMin = 3
  MaxBets = 4
  MaxCalls = 3
  TableCounts = FALSE
CHECK_DEADLOCK FALSE
INVARIANTS StopJustified StrategyKeepsPhase
PROPERTIES SevensReported  TakesWhatIsAsked
