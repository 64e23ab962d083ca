SPECIFICATION MCSpec
CONSTANTS
  u = u
  w = w
  h = h
  NoVar = NoVar
  Vars <- MCVars
  Dep <- MCDep
  Size <- MCSize
  GetRange <- MCRange
  Numbers <- MCNumbers
  Labels <- MCLabels
  Leq <- MCLeq
  LH <- MCLH
  Gamma <- MCGamma
  Targets <- WholeTargets
  Exprs <- SomeExprs
  Branches <- SomeBranches
  Selections <- SomeSelections
  Cases <- HighCase
  CaseFacts = FALSE
  MaxDepth = 2
  MaxSteps = 6
INVARIANTS
  TypeOK
  PredicateHolds
PROPERTIES
  AcceptedFlows
  UnwrittenInIfsWasAlive
CHECK_DEADLOCK FALSE
