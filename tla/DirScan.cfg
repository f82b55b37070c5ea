\* Trees of up to 5 nodes, 2 levels of which are scanned, 3 entries a
\* directory; sizes that exceed the word together.
CONSTANTS
  NumNodes = 4
  MaxDepth = 1
  MaxEntries = 3
  Sizes = {0, 2}
  MaxWord = 3
SPECIFICATION Spec
INVARIANTS PathsIntact NothingHeldAtExit ReturnCodeIsTrue
CHECK_DEADLOCK FALSE
