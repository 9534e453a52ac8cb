CONSTANTS
  MaxBuffer = 3
  Hdr = 1
  DataLens = {1, 2, 4}
  MaxBytes = 8
SPECIFICATION Spec
INVARIANTS
  EchoIsWhatWasSent
CHECK_DEADLOCK FALSE
