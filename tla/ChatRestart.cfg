SPECIFICATION SessionsSpec
CONSTANTS
  Absent = Absent
  dispatcher = dispatcher
  http = http
  home = home
  work = work
  play = play
  t1 = t1
  NoSkill = NoSkill
  drawing = drawing
  poems = poems
  notes = notes
  paint = paint
  write = write
  k1 = k1
  k2 = k2
  Nothing = Nothing
  Parts = {"chat"}
  Aliases = {home, work, play}
  Default = home
  Tasks = {dispatcher}
  Programs <- Everything
  ReadLimit = 4
  MaxCalls = 4
  Faults = {"write", "rename", "power"}
  Pair = {dispatcher, http}
  PairLimit = 2
  PairCalls = 3
  PairFaults = {"read", "write", "rename", "power"}
  SkillSessions = {1, 2}
  SkillTasks = {t1}
  Engine = t1
  MaxActive = 2
  MaxScopes = 2
  MaxRestored = 1
  SkillFaults = {"list", "dir", "script"}
  MaxSkillOps = 5
  Sockets = {k1, k2}
  MaxConn = 1
  RingSize = 2
  Chats = {home, work}
  Nothing = Nothing
  MaxMessages = 2
  MaxStored = 2
  MaxMoves = 2
  MaxRestarts = 1
INVARIANTS SystemVisible
SYMMETRY AnySocket
CHECK_DEADLOCK FALSE
