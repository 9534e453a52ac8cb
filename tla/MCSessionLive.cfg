CONSTANTS
  MaxData = 2
  MaxOut = 1
  Chunk = 1
  MsgUnits = 2
SPECIFICATION FairSpec
PROPERTIES
  PeerGoneDestroys
  InputIsRead
  OutputIsSent
  DisconnectDestroys
CHECK_DEADLOCK FALSE
