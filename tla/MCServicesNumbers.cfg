SPECIFICATION Spec
CONSTANTS
  Owners = {o1, o2}
  Intervals = {0}
  MaxTimers = 3
  MaxTick = 1
  Workers = {w1, w2}
  MaxTasks = 3
  MaxEvents = 3
  HourTicks = 4
  Throttle = 2
  DayHours = 2
  WeekDays = 2
  MonthDays = 3
  YearDays = 12
  MaxTime = 100
  MaxPause = 2
  Elements = {e1, e2}
  QMAX = 3
  Nil = nil
  H8 = 2
  H16 = 8
  H32 = 32
  H64 = 128
  MAX_DEPTH = 3
  Capacity = 16
  StrBytes = 3
  CodecData = {"a", "b", "f", "t", "x"}
  CodecTables <- Tables
  MaxSend = 2
SYMMETRY Symmetry
INVARIANT NumbersArrive
CHECK_DEADLOCK FALSE
