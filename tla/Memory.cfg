SPECIFICATION MemorySpec
CONSTANTS
  Absent = Absent
  Torn = Torn
  None = None
  engine = engine
  extract = extract
  tea = tea
  milk = milk
  Parts = {"facts", "history", "tasks"}
  MaxItems = 2
  Texts = {tea}
  Tasks = {engine, extract}
  MaxId = 4
  Faults = {"print", "write", "unlink", "torn"}
  MaxTurns = 3
  ProtectLast = 1
  MaxRequests = 4
  MaxBoots = 2
  MaxClears = 1
  Notes = {}
  AllocFails = TRUE
  TornWrites = {"append", "compact"}
  WriteFails = {"append"}
  RenameReplaces = FALSE
  Sessions = {1, 2, 3, 4}
  QueueLen = 2
  ExtractLen = 2
INVARIANTS  IdsIncrease SlotsMatch
 
CHECK_DEADLOCK FALSE
