----------------------- MODULE SongListViewController -----------------------
(***************************************************************************)
(* The page of a playlist.  Its detail brings the ids of all songs and the *)
(* first songs themselves; scrolling fetches the others, a slice of the    *)
(* ids at a time.  Everything runs on the main thread.  A song is the      *)
(* number of its id in the playlist.                                       *)
(***************************************************************************)
EXTENDS Naturals, Sequences, Functions

CONSTANTS
  PageSize,   (* ids in a slice *)
  MaxTracks   (* bound: songs in a playlist *)

SongListAssumption == PageSize \in Nat \ {0} /\ MaxTracks \in Nat

VARIABLES
  detailPending,  (* the answer of requestData has not come *)
  songs,          (* the rows of the page *)
  allTrackIds,    (* how many ids the playlist has *)
  currentIndex, isLoading,
  slices,         (* the slices asked for and not answered *)
  withheld        (* history: songs whose answer came without them *)

vars == <<detailPending, songs, allTrackIds, currentIndex, isLoading, slices, withheld>>

(* The songs from the a-th to the b-th; none when b = a - 1. *)
Run(a, b) == [i \in 1..(b + 1 - a) |-> a + i - 1]

Init ==
  /\ detailPending = TRUE
  /\ songs = <<>>
  /\ allTrackIds = 0
  /\ currentIndex = 0
  /\ isLoading = FALSE
  /\ slices = <<>>
  /\ withheld = {}

(* handleResponse of a playlist of n ids that comes with its first k songs; *)
(* a failure is a playlist without either.                                  *)
HandleResponse ==
  /\ detailPending
  /\ detailPending' = FALSE
  /\ \E n \in 0..MaxTracks : \E k \in 0..n :
       /\ songs' = Run(1, k)
       /\ allTrackIds' = n
       /\ currentIndex' = k
  /\ UNCHANGED <<isLoading, slices, withheld>>

AtMost(a, b) == IF a < b THEN a ELSE b

(* The bounds of nextTrackIdSlice when there is one. *)
NextSlice == [from |-> currentIndex + 1, to |-> AtMost(currentIndex + PageSize, allTrackIds)]

(* A slip: scrolling on while a slice is being fetched fetches it again. *)
LoadMoreWhileLoading ==
  /\ currentIndex < allTrackIds
  /\ isLoading' = TRUE
  /\ slices' = Append(slices, NextSlice)
  /\ UNCHANGED <<detailPending, songs, allTrackIds, currentIndex, withheld>>

(* loadMoreSongs, by a scroll near the bottom.  Without a next slice it     *)
(* leaves everything as it is.                                              *)
LoadMoreSongs ==
  /\ ~isLoading
  /\ currentIndex < allTrackIds
  /\ isLoading' = TRUE
  /\ slices' = Append(slices, NextSlice)
  /\ UNCHANGED <<detailPending, songs, allTrackIds, currentIndex, withheld>>

Without(s, i) == SubSeq(s, 1, i - 1) \o SubSeq(s, i + 1, Len(s))

(* The completion of loadMoreSongs: the i-th request is answered with a run *)
(* of the songs asked for, which after a failure is empty.  The index moves *)
(* past the slice either way.                                               *)
SongsArrived(i) ==
  LET slice == slices[i] IN
  \E a \in slice.from..slice.to : \E b \in (a - 1)..slice.to :
    /\ songs' = songs \o Run(a, b)
    /\ currentIndex' = currentIndex + (slice.to + 1 - slice.from)
    /\ isLoading' = FALSE
    /\ slices' = Without(slices, i)
    /\ withheld' = withheld \cup ((slice.from..slice.to) \ (a..b))
    /\ UNCHANGED <<detailPending, allTrackIds>>

Next ==
  \/ HandleResponse
  \/ LoadMoreSongs
  \/ \E i \in DOMAIN slices : SongsArrived(i)

(* The session answers every request, by data or by a timeout. *)
Fairness == WF_vars(\E i \in DOMAIN slices : SongsArrived(i))

Spec == Init /\ [][Next]_vars /\ Fairness

TypeOK ==
  /\ detailPending \in BOOLEAN /\ isLoading \in BOOLEAN
  /\ songs \in Seq(1..allTrackIds)
  /\ allTrackIds \in 0..MaxTracks
  /\ currentIndex \in 0..allTrackIds
  /\ slices \in Seq([from : 1..allTrackIds, to : 1..allTrackIds])
  /\ withheld \subseteq 1..allTrackIds

(* The rows show each song of the playlist at most once and in its order,  *)
(* however scrolls and answers interleave; and a song below the index that *)
(* is missing is one whose own answer came without it: advancing the index *)
(* at the answer rather than at the request (line 243) skips nothing else. *)
SongsInOrder ==
  /\ \A i, j \in DOMAIN songs : i < j => songs[i] < songs[j]
  /\ Range(songs) = (1..currentIndex) \ withheld

(* isLoading, which blocks all further scrolling, is taken back by every   *)
(* answer, the failed ones too.                                            *)
LoadingEnds == isLoading ~> ~isLoading
=============================================================================
