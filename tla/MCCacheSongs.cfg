SPECIFICATION Spec
CONSTANTS
  Songs = {s1, s2, s3}
  Chunks = {c1}
  MaxSize = 1
  MaxPlays = 4
  MaxRestarts = 1
  NoRow = NoRow
SYMMETRY SongSymmetry
INVARIANTS
  TypeOK
  EvictsOldestEnough
  StreamedHasRow
  OrphansAreStrays
CHECK_DEADLOCK FALSE
