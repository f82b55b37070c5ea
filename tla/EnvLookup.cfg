\* Lists of up to 3 entries of which 2 are visited; texts longer than the
\* buffer of 3 characters.
CONSTANTS
  Locks = {l1, l2}
  NoLock = NoLock
  MaxDosEntries = 2
  ValueLen = 3
  MaxEntries = 3
  MaxFile = 3
  MaxChanges = 1
SPECIFICATION EnvSpec
INVARIANTS NothingHeldAtExit ValueIsFirstLine
CHECK_DEADLOCK FALSE
