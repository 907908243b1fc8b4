--------------------------- MODULE BrowsingPages ----------------------------
(***************************************************************************)
(* The three pages that load as the user scrolls.  They share nothing but  *)
(* the main thread, so that an execution follows one of them.              *)
(***************************************************************************)
EXTENDS Naturals, Sequences

CONSTANTS PageSize, MaxTracks, Limit, Comments, HotComments,
          FirstLimit, LimitStep, Offered, Keywords, NoKeyword, MaxSearches

VARIABLES page,
  detailPending, listed, allTrackIds, currentIndex, listLoading, slices, withheld,
  commentsArray, offset, moreComments, commentsLoading, requests,
  index, moreSongs, songsLoading, songs, fetches, inserting,
  text, typed, searchTimers, searches, searchResultSongs

List == INSTANCE SongListViewController WITH songs <- listed, isLoading <- listLoading

Comment == INSTANCE CommentViewController WITH
  hasMore <- moreComments, isLoading <- commentsLoading

Search == INSTANCE SearchPageController WITH hasMore <- moreSongs, isLoading <- songsLoading

ASSUME BrowsingAssumption ==
  List!SongListAssumption /\ Comment!CommentsAssumption /\ Search!SearchAssumption

listVars == <<detailPending, listed, allTrackIds, currentIndex, listLoading, slices, withheld>>
commentVars == <<commentsArray, offset, moreComments, commentsLoading, requests>>
searchVars == <<index, moreSongs, songsLoading, songs, fetches, inserting,
                text, typed, searchTimers, searches, searchResultSongs>>

vars == <<page, listVars, commentVars, searchVars>>

Init ==
  /\ page \in {"list", "comments", "search"}
  /\ List!Init /\ Comment!Init /\ Search!Init

Scrolls ==
  \/ page = "list" /\ List!Next /\ UNCHANGED <<commentVars, searchVars>>
  \/ page = "comments" /\ Comment!Next /\ UNCHANGED <<listVars, searchVars>>
  \/ page = "search" /\ Search!Next /\ UNCHANGED <<listVars, commentVars>>

Next == Scrolls /\ UNCHANGED page

(* The page shown has the fairness of its own module. *)
Fairness ==
  \/ page = "list" /\ List!Fairness
  \/ page = "comments" /\ Comment!Fairness
  \/ page = "search" /\ Search!Fairness

Spec == Init /\ [][Next]_vars /\ Fairness

(* List!SongsInOrder: the rows of a playlist are its songs, each once and  *)
(* in order, but for those whose own answer came without them.             *)
SongsInOrder == List!SongsInOrder

(* Comment!CommentsInOrder: the comments shown are the server's, from the  *)
(* first to the offset's, each once and in order, after the hot ones.      *)
CommentsInOrder == Comment!CommentsInOrder

(* Search!SearchesTypedText: no search is sent for a word typed over, even *)
(* after the page has been left and its bar emptied.                       *)
SearchesTypedText == Search!SearchesTypedText

(* A page that is loading stops loading, on every way through its          *)
(* completions: an answer, a failure, an early return, an animation or its *)
(* exception.  A flag left set would block the page for good.              *)
LoadingEnds ==
  /\ (page = "list" /\ listLoading) ~> ~listLoading
  /\ (page = "comments" /\ commentsLoading) ~> ~commentsLoading
  /\ (page = "search" /\ songsLoading) ~> ~songsLoading
=============================================================================
