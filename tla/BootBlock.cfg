\* Two CLIs share a drive and a file.
CONSTANTS
  Procs = {p1, p2}
  NoProc = NoProc
  Units = {df0}
  NoUnit = NoUnit
  Files = {f}
  Blocks = {b1, b2}
  NoBlock = NoBlock
  MaxRuns = 3
SPECIFICATION Spec
INVARIANTS TypeOK NothingHeldAtExit OnlyWholeFilesReachDisks
PROPERTIES SavedMeansWhole RestoredUnlessBuffered
