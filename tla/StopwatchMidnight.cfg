\* The clock passes midnight.
CONSTANTS
  MinutesPerDay = 3
  SecondsPerMinute = 2
  TicksPerSecond = 2
  Base = 2
  WordModulus = 4096
  BufferDigits = 12
  MaxRequest = 3
  MaxLoops = 3
  MaxText = 1
  MaxDays = 2
SPECIFICATION WatchSpec
INVARIANT ElapsedExact
CHECK_DEADLOCK FALSE
