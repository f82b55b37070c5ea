\* One sample of Mem on a machine where other tasks free memory.
CONSTANTS
  ChipCells = 2
  FastCells = 1
  LongModulus = 64
  MaxSamples = 1
SPECIFICATION MemSpec
INVARIANT LargestNeverExceedsFree
CHECK_DEADLOCK FALSE
