----------------------- MODULE CommentViewController ------------------------
(***************************************************************************)
(* The comments of a song, fetched page by page at an offset.  Everything  *)
(* runs on the main thread.  A comment is its number in the server's list, *)
(* which stays as it is while the page is shown; a hot comment is Hot.     *)
(***************************************************************************)
EXTENDS Naturals, Sequences

CONSTANTS
  Limit,        (* comments asked for at a time *)
  Comments,     (* bound: how many the server has *)
  HotComments   (* how many hot ones come with the first page *)

CommentsAssumption ==
  Limit \in Nat \ {0} /\ Comments \in Nat /\ HotComments \in Nat

VARIABLES
  commentsArray, offset, hasMore, isLoading,
  requests      (* the offsets asked for and not answered *)

vars == <<commentsArray, offset, hasMore, isLoading, requests>>

Hot == 0

(* createPager, and the loadComments of viewDidLoad. *)
Init ==
  /\ commentsArray = <<>>
  /\ offset = 0
  /\ hasMore = TRUE
  /\ isLoading = TRUE
  /\ requests = <<0>>

(* A slip: scrolling on while a page is being fetched fetches it again. *)
LoadWhileLoading ==
  /\ hasMore
  /\ isLoading' = TRUE
  /\ requests' = Append(requests, offset)
  /\ UNCHANGED <<commentsArray, offset, hasMore>>

(* loadComments, by a scroll near the bottom. *)
LoadComments ==
  /\ ~isLoading /\ hasMore
  /\ isLoading' = TRUE
  /\ requests' = Append(requests, offset)
  /\ UNCHANGED <<commentsArray, offset, hasMore>>

(* What the server may answer at offset o: the comments after it, and hot  *)
(* ones at the beginning; or the nil of a failure, which has nothing.      *)
Answers(o) ==
  [hot : IF o = 0 THEN 0..HotComments ELSE {0},
   comments : {n \in 0..Limit : o + n <= Comments},
   more : BOOLEAN]

Failed == [hot |-> 0, comments |-> 0, more |-> FALSE]

Page(o, n) == [i \in 1..n |-> o + i]

(* handleFirstResponse starts anew, handleMoreResponse goes on.  Which of  *)
(* the two is called depends on the offset at the time of the answer.      *)
Shown(o, r) ==
  IF offset = 0 THEN [i \in 1..r.hot |-> Hot] \o Page(o, r.comments)
                ELSE commentsArray \o Page(o, r.comments)

Without(s, i) == SubSeq(s, 1, i - 1) \o SubSeq(s, i + 1, Len(s))

(* The completion of loadComments, for the i-th request. *)
CommentsArrived(i) ==
  \E r \in Answers(requests[i]) \cup {Failed} :
    /\ isLoading' = FALSE
    /\ commentsArray' = Shown(requests[i], r)
    /\ offset' = offset + r.comments
    /\ hasMore' = r.more
    /\ requests' = Without(requests, i)

Next ==
  \/ LoadComments
  \/ \E i \in DOMAIN requests : CommentsArrived(i)

(* The session answers every request, by data or by a timeout. *)
Fairness == WF_vars(\E i \in DOMAIN requests : CommentsArrived(i))

Spec == Init /\ [][Next]_vars /\ Fairness

TypeOK ==
  /\ commentsArray \in Seq(0..Comments)
  /\ offset \in 0..Comments
  /\ hasMore \in BOOLEAN /\ isLoading \in BOOLEAN
  /\ requests \in Seq(0..Comments)

(* After the hot ones the page shows the comments of the server from the   *)
(* first to the offset's, each once and in order: the offset read when an  *)
(* answer comes (line 99) is the one it was asked at, short pages, failed  *)
(* ones and a first page fetched twice included.                           *)
CommentsInOrder ==
  LET hot == Len(commentsArray) - offset IN
  /\ hot \in 0..HotComments
  /\ \A i \in 1..hot : commentsArray[i] = Hot
  /\ \A i \in 1..offset : commentsArray[hot + i] = i

(* isLoading, which blocks all further scrolling, is taken back by every   *)
(* answer, the failed ones too.                                            *)
LoadingEnds == isLoading ~> ~isLoading
=============================================================================
