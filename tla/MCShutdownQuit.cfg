CONSTANTS
  Clients = {c1}
  MaxTests = 1
  MaxConns = 1
SPECIFICATION FairSpec
PROPERTIES
  QuitEnds
CHECK_DEADLOCK FALSE
