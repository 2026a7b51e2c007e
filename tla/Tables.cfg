SPECIFICATION TablesSpec
CONSTANTS
  Torn = Torn
  Unset = Unset
  t1 = t1
  c1 = c1
  c2 = c2
  r1 = r1
  q = q
  NoRun = NoRun
  Published = {"message", "wake"}
  Templates <- Edits
  InboxLen = 1
  MaxRules = 2
  MaxMatch = 2
  MaxDepth = 1
  ClockMod = 16
  NoMemory = TRUE
  MaxEvents = 1
  MaxEdits = 3
  MaxTime = 1
  RuleFaults = {"read", "write", "rename"}
  MaxBoots = 1
  Groups <- Tools
  CapsOf <- ToolsOf
  Home <- ToolsHome
  HtSize = 5
  MaxGroups = 3
  MaxDescs = 4
  Admins = {t1}
  Callers = {c1, c2}
  MaxOps = 5
  Launchers = {t1}
  Syncs = {r1}
  Names = {q}
  SlotCount = 2
  MaxRunning = 2
  MaxObjects = 1
  MaxJobs = 2
  MaxCreated = 1
INVARIANTS ConsumerIsLast  AllFound CallsHoldGroup NothingFreedIsUsed NothingLeftOver
CHECK_DEADLOCK FALSE
