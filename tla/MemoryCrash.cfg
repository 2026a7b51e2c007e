SPECIFICATION MemorySpec
CONSTANTS
  Absent = Absent
  Torn = Torn
  None = None
  engine = engine
  extract = extract
  tea = tea
  milk = milk
  Parts = {"facts", "history"}
  MaxItems = 2
  Texts = {tea, milk}
  Tasks = {engine}
  MaxId = 4
  Faults = {"print", "write"}
  MaxTurns = 3
  ProtectLast = 1
  MaxRequests = 4
  MaxBoots = 2
  MaxClears = 1
  Notes = {}
  AllocFails = FALSE
  TornWrites = {}
  WriteFails = {"append", "compact"}
  RenameReplaces = TRUE
  Sessions = {1, 2, 3, 4}
  QueueLen = 2
  ExtractLen = 2
INVARIANTS  TurnIsOneRequest
PROPERTIES AtomicStore 
CHECK_DEADLOCK FALSE
