CONSTANTS
  Clients = {c1, c2}
  MaxTests = 1
  MaxConns = 2
SPECIFICATION FairSpec
INVARIANTS
  OrderlyExit
  DeletedIsUnwatched
PROPERTIES
  ListenerCloses
  QuietQuitEnds
CHECK_DEADLOCK FALSE
