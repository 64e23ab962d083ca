SPECIFICATION MCSpec
CONSTANTS
  u = u
  w = w
  h = h
  NoVar = NoVar
  Vars <- MCVars
  Dep <- MCDep
  Size <- MCSize
  GetRange <- MCRange
  Numbers <- MCNumbers
  Labels <- MCLabels
  Leq <- MCLeq
  LH <- MCLH
  Gamma <- MCGamma
  Targets <- WholeTargets
  Exprs <- SomeExprs
  Branches <- SomeBranches
  Selections <- SomeSelections
  Cases <- NoCase
  CaseFacts = FALSE
  MaxDepth = 2
  MaxSteps = 6
PROPERTIES
  ValueFlows
CHECK_DEADLOCK FALSE
