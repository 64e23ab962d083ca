SPECIFICATION Spec
CONSTANTS
  Addr <- MCAddr
  d1 = d1
  d2 = d2
  Data = {d1, d2}
  Tag <- MCTag
  Unknown = Unknown
  NoMsg = NoMsg
  Core = {c1}
  DmaDomain = 1
  DmaTag = "dma"
  InitMem <- MCInitMem
  DebugInsts <- MCDebugInsts
INVARIANTS
  TypeOK
  RunningIsChecked
  HoldQueueCarries
PROPERTIES
  WritesAreRequested
