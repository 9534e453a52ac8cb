CONSTANTS
  MaxBuffer = 2
  Hdr = 2
  MinPacket = 1
  MaxPacket = 4
  Lengths = {0, 1, 3, 4, 12}
  MaxBytes = 12
SPECIFICATION Spec
INVARIANTS
  TypeOK
  PushedArePackets
  PushedAreComplete
  InBounds
  CapacityBounded
CHECK_DEADLOCK FALSE
