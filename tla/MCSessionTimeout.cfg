CONSTANTS
  MaxData = 0
  MaxOut = 2
  Chunk = 1
  MsgUnits = 1
SPECIFICATION FairSpec
PROPERTIES
  TimeoutDestroys
CHECK_DEADLOCK FALSE
