SPECIFICATION ServicesSpec
CONSTANTS
  Torn = Torn
  r1 = r1
  r2 = r2
  s1 = s1
  s2 = s2
  c1 = c1
  NoStream = NoStream
  Parts = {"scheduler", "sends", "wifi", "stream"}
  Definitions <- Reminders
  MaxJobs = 2
  Grace = 1
  FileFaults = {"short"}
  MaxNow = 4
  MaxCalls = 2
  MaxReboots = 1
  Replies = {r1, r2}
  Sends = {s1, s2}
  MaxTasks = 1
  CanFail = TRUE
  Callbacks = {c1}
  MaxCbs = 1
  MaxDrops = 2
  MaxManual = 1
  Answers <- Asked
  Digits <- Ternary
  MaxChunks = 2
  ReadSize = 3
  HttpRetries = 2
  MaxTries = 2
INVARIANTS FiresOnce PendingIsWork ConnectionTold 
PROPERTIES   Reconnects
CHECK_DEADLOCK FALSE
