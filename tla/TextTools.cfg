\* Files of up to 5 characters through a read buffer of 2 and a text buffer
\* of 2 (and its terminator); an address space of 4, which a file can exceed.
CONSTANTS
  ReadSize = 2
  StringBytes = 3
  SeekSpace = 4
  MaxFile = 5
  MaxNumber = 4
  MaxGrow = 1
SPECIFICATION Spec
INVARIANTS TypeOK NothingHeldAtExit OutputIsRightSoFar ZeroMeansWhole
  DifferencesExact
CHECK_DEADLOCK FALSE
