CONSTANTS
  Slots = {s1, s2}
  MaxConns = 2
  MaxPackets = 2
SPECIFICATION FairSpec
INVARIANTS
  TypeOK
  OwnerIsAlive
  OnePlace
  InOrder
PROPERTIES
  RespectsLifecycle
  PacketsAreHandled
CHECK_DEADLOCK FALSE
