SPECIFICATION Spec
CONSTANTS
  Requests = {r1, r2}
  LastByte = 4
  Wanted <- Overlapping
  FileLength = 3
  PreLen = 2
  StatusBody = FALSE
  MaxRestarts = 1
  NoRange = NoRange
  NoRow = NoRow
INVARIANTS
  TypeOK
  ServedIsBacked
PROPERTIES
  SongBytesStay
  Answered
CHECK_DEADLOCK FALSE
