SPECIFICATION Spec
CONSTANTS
  m1 = m1
  m2 = m2
  a1 = a1
  a2 = a2
  chat = chat
  serial = serial
  None = None
  Jobs <- Mixed
  Sync <- MixedSync
  Sessions <- MCSessions
  SessionOf <- MixedSessionOf
  ReqId <- MixedReqId
  LongSessions <- NoLong
  ReqDepth = 2
  RspDepth = 1
  CancelIds = {0, 1}
  MaxIter = 3
  AllocFails = FALSE
INVARIANTS AbortOnlyTargeted CancelReachesFlight OneRoundAfterAbort CheckpointFinalized
