SPECIFICATION MCSpec
CONSTANTS
  x = x
  Labels <- FourLabels
  Leq <- Diamond
  Pins <- MCPins
  Wires <- MCWires
  LastRank = 3
  Name <- Rank
  Directions <- Directed
  Levels <- FourLabels
  FlowsTo <- Diamond
  LH <- MCFamily
  IndexVars <- MCVars
  Family <- MCFamily
  Written <- MCWritten
  MaxSteps = 3
INVARIANTS
  MeaningKept
  DependsOnCollected
  AcceptedConnects
  SameLabelAccepted
PROPERTIES
  EndsUnmixed
CHECK_DEADLOCK FALSE
