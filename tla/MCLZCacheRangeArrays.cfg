SPECIFICATION ArraySpec
CONSTANTS
  Song = Song
  LastByte = 7
  NoLength = NoLength
INVARIANTS
  ReadersAgree
PROPERTIES
  SetIndexSpec
