\* One drive; the verify read may be served from the buffer.
CONSTANTS
  Procs = {p1}
  NoProc = NoProc
  Units = {df0}
  NoUnit = NoUnit
  Files = {f}
  Blocks = {b1, b2}
  NoBlock = NoBlock
  MaxRuns = 1
SPECIFICATION Spec
PROPERTY RestoredMeansRecorded
