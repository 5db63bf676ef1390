\* The clock runs past the timeout of a buffer started at 1, and of its successor.
CONSTANTS
  OffsetRange = 16
  HeaderLen = 60
  FragmentTimeout = 2
  MaxTime = 4
SPECIFICATION Spec
INVARIANTS
  ReassemblerTypeOK
  NothingCompleteHeld
  NoHole
  HeaderOfFirst
  AssembledFresh
CHECK_DEADLOCK FALSE
