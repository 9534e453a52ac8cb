CONSTANTS
  MaxData = 1
  MaxOut = 0
  Chunk = 1
  MsgUnits = 1
SPECIFICATION Spec
INVARIANTS
  CompletedMeansCallbackDone
CHECK_DEADLOCK FALSE
