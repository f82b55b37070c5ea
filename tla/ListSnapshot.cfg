\* Lists of up to 4 entries against 2 rows and 3 visits: shorter, exact and
\* longer than either limit.
CONSTANTS
  MaxRows = 2
  MaxVisits = 3
  MaxLength = 4
  MaxChanges = 1
  MaxSamples = 2
SPECIFICATION Spec
INVARIANTS RowsAreOneMoment NoSilentLoss NothingHeldAtExit
CHECK_DEADLOCK FALSE
