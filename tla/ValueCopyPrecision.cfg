SPECIFICATION Spec
CONSTANTS
  Cells <- MCUnsizedCells
  Documents <- MCDocuments
  Wide <- MCWide
  Large <- MCLarge
  ReadAs <- MCReadAs
  HighBytes <- MCHighBytes
  MaxCells = 2
CHECK_DEADLOCK FALSE
INVARIANTS NothingLostSilently
