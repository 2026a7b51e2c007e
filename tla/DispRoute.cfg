SPECIFICATION RouteSpec
CONSTANTS
  Unset = Unset
  a1 = a1
  a2 = a2
  m1 = m1
  m2 = m2
  m3 = m3
  b1 = b1
  b2 = b2
  Published = {"slash", "message", "wake", "trigger"}
  InboxLen = 2
  MaxMatch = 2
  MaxDepth = 2
  ClockMod = 16
  MaxEvents = 2
  MaxEdits = 3
  Templates <- Routed
  MaxRules = 3
  NoMemory = FALSE
  MaxTime = 3
  MaxUpdate = 2
  Starters = {"save", "wifi"}
  MaxStarts = 3
  TokenSaves = 1
  MaxReboots = 1
  Apps = {a1, a2}
  Messages = {m1, m2, m3}
  CacheSize = 2
  AppSaves = 3
  AppFaults = 2
  MaxHandled = 4
  Bots = {b1, b2}
  BotSaves = 2
  BotFaults = 3
INVARIANTS  FeishuOnce QqIdentity
PROPERTIES MessageAnswered  Quiesces ChannelsReconnect
CHECK_DEADLOCK FALSE
