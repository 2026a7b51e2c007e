SPECIFICATION FairSpec
CONSTANTS
  m1 = m1
  m2 = m2
  a1 = a1
  a2 = a2
  chat = chat
  serial = serial
  None = None
  Jobs <- Pair
  Sync <- PairSync
  Sessions <- MCSessions
  SessionOf <- PairSessionOf
  ReqId <- PairReqId
  LongSessions <- NoLong
  ReqDepth = 2
  RspDepth = 1
  CancelIds = {}
  MaxIter = 1
  AllocFails = TRUE
INVARIANTS OwnAnswer ResponseOnce
PROPERTIES AcceptedServed
