\* Memory: three chip cells and one fast cell, enough for a hole, and for the
\* largest piece to be of either kind.  Clock: days of 3 minutes of 2 seconds of
\* 2 ticks, 12 ticks.  A word of 16 wraps within a day, and numerals of 5 binary
\* digits exceed it.
CONSTANTS
  ChipCells = 3
  FastCells = 1
  LongModulus = 64
  MaxSamples = 2
  MinutesPerDay = 3
  SecondsPerMinute = 2
  TicksPerSecond = 2
  Base = 2
  WordModulus = 16
  BufferDigits = 4
  MaxRequest = 3
  MaxLoops = 13
  MaxText = 5
  MaxDays = 1
SPECIFICATION Spec
INVARIANTS FiguresFit RequestIsTyped ElapsedExactWithinDay
CHECK_DEADLOCK FALSE
