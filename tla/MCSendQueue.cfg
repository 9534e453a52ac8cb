CONSTANTS
  MaxBuffer = 3
  Hdr = 2
  DataLens = {1, 2, 4}
  MaxBytes = 16
SPECIFICATION Spec
INVARIANTS
  TypeOK
  NothingLost
  OneHolder
PROPERTIES
  ImplementsByteStream
  OrderlyShutdownFlushes
CHECK_DEADLOCK FALSE
