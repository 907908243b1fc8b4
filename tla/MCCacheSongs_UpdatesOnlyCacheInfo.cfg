SPECIFICATION Spec
CONSTANTS
  Songs = {s1}
  Chunks = {c1}
  MaxSize = 1
  MaxPlays = 2
  MaxRestarts = 0
  NoRow = NoRow
PROPERTIES
  UpdatesOnlyCacheInfo
CHECK_DEADLOCK FALSE
