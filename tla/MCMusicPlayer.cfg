SPECIFICATION Spec
CONSTANTS
  Songs = {s1, s2}
  NoSong = NoSong
  Objects = {o1, o2, o3, o4}
  NoObject = NoObject
  MaxHeld = 3
  Pages = {p1, p2}
  NoPage = NoPage
  SongLists <- MCSongLists
  MaxFetches = 2
  MaxTouches = 3
SYMMETRY Symmetry
CHECK_DEADLOCK FALSE
INVARIANTS
  TypeOK
  IndexInRange
  OneAdvancePerEnd
PROPERTIES
  StartsCurrent
