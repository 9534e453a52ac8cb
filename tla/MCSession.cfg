CONSTANTS
  MaxData = 3
  MaxOut = 2
  Chunk = 2
  MsgUnits = 2
SPECIFICATION Spec
INVARIANTS
  TypeOK
  NoLostWakeup
  ClosesPromptly
  AllReadBeforeClose
PROPERTIES
  NoEventOverwritten
  ImplementsLifecycle
CHECK_DEADLOCK FALSE
