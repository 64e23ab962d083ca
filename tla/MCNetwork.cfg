SPECIFICATION MCSpec
CONSTANTS
  NumMsgs = 3
  PtrRange = 4
  PipeEn = TRUE
  BypassEn = TRUE
  a = a
  b = b
  Msg = {a, b}
  NoMsg = NoMsg
  NoNetMsg = NoNetMsg
  Sends <- MCSends
  Endless <- MCEndless
INVARIANTS
  CountsRight
  DomainsApart
PROPERTIES
  QueueIsFifo
  PairsInOrder
  EveryMessageArrives
