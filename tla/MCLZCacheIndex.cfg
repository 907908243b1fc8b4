SPECIFICATION Spec
CONSTANTS
  Keys = {k1}
  LastByte = 4
  Unknown = Unknown
INVARIANTS
  TypeOK
  CachedSeparated
  LoadingDisjoint
  CachedAnswerExact
  LengthAnswerExact
PROPERTIES
  UpdatesExact
  CachedBytesSpec
