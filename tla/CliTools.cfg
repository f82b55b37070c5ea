\* Lines of up to 6 characters for a buffer of 6, of which 5 are looked at,
\* and 2 arguments; paths of up to 3 components of which 2 are visited;
\* names of which some are too long for C:.  A table of 2 fields.
CONSTANTS
  MaxArgs = 2
  CmdLineLen = 6
  MaxLine = 6
  ShortLine = 2
  MaxPathEntries = 2
  CandidateLen = 4
  MaxPath = 3
  Figures = {0, 1, 512, 1760, 1953, 1954, 3520}
  MaxWord = 1000000
  TableSize = 2
  MaxUpsets = 2
SPECIFICATION Spec
INVARIANTS ArgvIsWords RunsLoadedCode NothingHeldAtExit WhichIsRight FiguresAreTrue
  TableIsOneMoment
PROPERTIES CommandReturns
CHECK_DEADLOCK FALSE
