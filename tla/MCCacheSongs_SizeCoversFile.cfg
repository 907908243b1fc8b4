SPECIFICATION Spec
CONSTANTS
  Songs = {s1}
  Chunks = {c1, c2}
  MaxSize = 1
  MaxPlays = 2
  MaxRestarts = 1
  NoRow = NoRow
PROPERTIES
  SizeCoversFile
CHECK_DEADLOCK FALSE
