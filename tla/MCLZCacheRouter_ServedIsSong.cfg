SPECIFICATION Spec
CONSTANTS
  Requests = {r1, r2}
  LastByte = 5
  Wanted <- Seek
  FileLength = 3
  PreLen = 2
  StatusBody = FALSE
  MaxRestarts = 0
  NoRange = NoRange
  NoRow = NoRow
INVARIANTS
  ServedIsSong
CHECK_DEADLOCK FALSE
