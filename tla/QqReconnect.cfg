SPECIFICATION FairSpec
CONSTANTS
  None = None
  b1 = b1
  b2 = b2
  Bots = {b1, b2}
  MaxSaves = 0
  MaxFaults = 3
PROPERTIES QqReconnects
CHECK_DEADLOCK FALSE
