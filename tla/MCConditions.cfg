SPECIFICATION MCSpec
CONSTANTS
  u = u
  w = w
  h = h
  h1 = h1
  h2 = h2
  h3 = h3
  h4 = h4
  Hypotheses <- MCHypotheses
  Text <- MCText
  Vars <- MCVars
  Dep <- MCDep
  Numbers = {0, 1}
  Values = {0, 1}
  MaxOps = 3
  MaxDepth = 3
INVARIANTS
  PlainImplied
  OnlyDependent
  KeptWhole
  OnlyCommon
  OrderedMerge
CHECK_DEADLOCK FALSE
