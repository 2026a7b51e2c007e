SPECIFICATION Spec
CONSTANTS
  Absent = Absent
  Torn = Torn
  None = None
  MaxTurns = 3
  ProtectLast = 1
  MaxRequests = 4
  MaxBoots = 1
  MaxClears = 0
  Notes = {}
  AllocFails = FALSE
  TornWrites = {}
  WriteFails = {}
  RenameReplaces = TRUE
PROPERTIES CompactionKept
CHECK_DEADLOCK FALSE
