CONSTANTS
  s1 = s1
  u1 = u1
  u2 = u2
  Songs = {s1}
  URLs = {u1, u2}
  NoURL = NoURL
  SongOf <- Offers
  TaskIds = {t1, t2, t3}
  NoTask = NoTask
  MaxInterrupts = 1
SPECIFICATION Spec
INVARIANTS
  TypeOK
  RowHasFile
  FileHasRow
  AnsweredOnce
  DataTakenOnce
SYMMETRY Symmetry
