SPECIFICATION Spec
CONSTANTS
  PageSize = 2
  MaxTracks = 5
  Limit = 2
  Comments = 4
  HotComments = 1
  FirstLimit = 2
  LimitStep = 1
  Offered = 4
  Keywords = {k1, k2}
  NoKeyword = NoKeyword
  MaxSearches = 2
CHECK_DEADLOCK FALSE
INVARIANTS
  SongsInOrder
  CommentsInOrder
PROPERTIES
  SearchesTypedText
  LoadingEnds
