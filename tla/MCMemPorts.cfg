SPECIFICATION FairSpec
CONSTANTS
  Addr <- MCAddr
  Data = {d1, d2}
  Tag <- MCTag
  Unknown = Unknown
  NoMsg = NoMsg
  InitialPar = 1
  SecureBase = 1
  InitData = d1
  MemDomain = 1
  DmaTag = "own"
INVARIANTS
  TypeOK
  NothingLost
  ResponseMatches
  InsecureIsForL2
PROPERTIES
  WritesAreOwned
  ServiceSpec
  HeldRequestsServed
  DirectServedWhenIdle
