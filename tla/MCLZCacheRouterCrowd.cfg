SPECIFICATION Spec
CONSTANTS
  Requests = {r1, r2, r3}
  LastByte = 2
  Wanted <- Overlapping
  FileLength = 1
  PreLen = 2
  StatusBody = TRUE
  MaxRestarts = 0
  NoRange = NoRange
  NoRow = NoRow
SYMMETRY RequestSymmetry
INVARIANTS
  CompletionHeldOnce
  PendingIsLoading
  OneFetchPerPending
  IndexBacked
  RowBacked
CHECK_DEADLOCK FALSE
