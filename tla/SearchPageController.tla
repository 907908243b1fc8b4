------------------------ MODULE SearchPageController ------------------------
(***************************************************************************)
(* The search page: recommended songs, fetched anew with a higher limit    *)
(* when the user scrolls down, and the search by keyword, which waits      *)
(* until the text has not changed for a while.  Everything runs on the     *)
(* main thread.                                                            *)
(***************************************************************************)
EXTENDS Naturals, Sequences

CONSTANTS
  FirstLimit,   (* the limit of the first fetch, 30 in the code *)
  LimitStep,    (* what each page adds to it, 15 in the code *)
  Offered,      (* bound: songs the server ever recommends *)
  Keywords, NoKeyword,   (* NoKeyword is the empty text *)
  MaxSearches   (* bound: searches under way at a time *)

SearchAssumption ==
  /\ FirstLimit \in Nat \ {0} /\ LimitStep \in Nat \ {0}
  /\ Offered \in Nat /\ MaxSearches \in Nat
  /\ NoKeyword \notin Keywords

VARIABLES
  index, hasMore, isLoading,
  songs,        (* how many songs mutableArrayOfSongs holds *)
  fetches,      (* the limits of the fetches not answered *)
  inserting,    (* the batch of new cells is being animated *)
  text,         (* of the search bar *)
  typed,        (* the text last typed into it (history) *)
  searchTimers, (* the keywords whose timer is running *)
  searches,     (* the keywords searched for and not answered *)
  searchResultSongs  (* the keyword whose songs are listed *)

pageVars == <<index, hasMore, isLoading, songs, fetches, inserting>>
searchVars == <<text, typed, searchTimers, searches, searchResultSongs>>
vars == <<pageVars, searchVars>>

(* viewDidLoad, with its fetchCurrentPageData. *)
Init ==
  /\ index = FirstLimit
  /\ hasMore = TRUE
  /\ isLoading = TRUE
  /\ songs = 0
  /\ fetches = <<FirstLimit>>
  /\ inserting = FALSE
  /\ text = NoKeyword
  /\ typed = NoKeyword
  /\ searchTimers = {}
  /\ searches = <<>>
  /\ searchResultSongs = NoKeyword

Without(s, i) == SubSeq(s, 1, i - 1) \o SubSeq(s, i + 1, Len(s))

---------------------------------------------------------------------------
(* The recommended songs. *)

(* loadMoreData, by a scroll near the bottom or by the block that          *)
(* tryLoadMoreIfCollectionViewNearBottom is dispatched in.                 *)
LoadMoreData ==
  /\ ~isLoading /\ hasMore
  /\ isLoading' = TRUE
  /\ fetches' = Append(fetches, index)
  /\ UNCHANGED <<index, hasMore, songs, inserting, searchVars>>

FetchFailed(i) ==
  /\ isLoading' = FALSE
  /\ fetches' = Without(fetches, i)
  /\ UNCHANGED <<index, hasMore, songs, inserting, searchVars>>

(* No song, or no more than before. *)
Exhausted(new) == new = 0 \/ (songs > 0 /\ new <= songs)

(* A slip: the early returns leave the page loading. *)
FetchedNothingNewStillLoading(i, new) ==
  /\ Exhausted(new)
  /\ songs' = new
  /\ hasMore' = FALSE
  /\ fetches' = Without(fetches, i)
  /\ UNCHANGED <<index, isLoading, inserting, searchVars>>

FetchedNothingNew(i, new) ==
  /\ Exhausted(new)
  /\ songs' = new
  /\ hasMore' = FALSE
  /\ isLoading' = FALSE
  /\ fetches' = Without(fetches, i)
  /\ UNCHANGED <<index, inserting, searchVars>>

(* The first songs are shown at once, later ones inserted by an animated   *)
(* batch, which keeps the page loading.  The batch may throw.              *)
FetchedMore(i, new) ==
  /\ ~Exhausted(new)
  /\ songs' = new
  /\ hasMore' = (hasMore /\ new >= fetches[i])
  /\ index' = index + LimitStep
  /\ fetches' = Without(fetches, i)
  /\ \/ isLoading' = FALSE /\ UNCHANGED inserting
     \/ songs > 0 /\ inserting' = TRUE /\ UNCHANGED isLoading
  /\ UNCHANGED searchVars

(* The block of the i-th fetch's completion. *)
PageArrived(i) ==
  \/ FetchFailed(i)
  \/ \E new \in 0..fetches[i] :
       /\ new <= Offered
       /\ FetchedNothingNew(i, new) \/ FetchedMore(i, new)

(* The completion of the batch, with the load it may go on to. *)
Inserted ==
  /\ inserting
  /\ inserting' = FALSE
  /\ \/ isLoading' = FALSE /\ UNCHANGED fetches
     \/ hasMore /\ isLoading' = TRUE /\ fetches' = Append(fetches, index)
  /\ UNCHANGED <<index, hasMore, songs, searchVars>>

---------------------------------------------------------------------------
(* The search. *)

(* A slip: the timer of the text before goes on running. *)
TextDidChangeKeepingTimer(keyword) ==
  /\ keyword # text
  /\ text' = keyword
  /\ typed' = keyword
  /\ searchTimers' = searchTimers \cup {keyword}
  /\ UNCHANGED <<searches, searchResultSongs, pageVars>>

(* textDidChange, with debounceSearch. *)
TextDidChange(keyword) ==
  /\ keyword # text
  /\ text' = keyword
  /\ typed' = keyword
  /\ searchTimers' = {keyword}
  /\ UNCHANGED <<searches, searchResultSongs, pageVars>>

PerformSearch(keyword) ==
  /\ keyword \in searchTimers
  /\ searchTimers' = searchTimers \ {keyword}
  /\ \/ keyword = NoKeyword /\ UNCHANGED searches
     \/ /\ keyword # NoKeyword
        /\ Len(searches) < MaxSearches
        /\ searches' = Append(searches, keyword)
  /\ UNCHANGED <<text, typed, searchResultSongs, pageVars>>

(* responseSearchResultWithSongs; a failure, or a search that finds        *)
(* nothing, empties the list.  Answers may overtake each other.            *)
SearchAnswered(i) ==
  /\ searchResultSongs' \in {searches[i], NoKeyword}
  /\ searches' = Without(searches, i)
  /\ UNCHANGED <<text, typed, searchTimers, pageVars>>

KeyboardWillHide ==
  /\ text = NoKeyword
  /\ searchResultSongs' = NoKeyword
  /\ UNCHANGED <<text, typed, searchTimers, searches, pageVars>>

(* Another tab is shown: the bar and the results are emptied, and a timer  *)
(* goes on running.                                                        *)
ViewDidDisappear ==
  /\ text' = NoKeyword
  /\ searchResultSongs' = NoKeyword
  /\ UNCHANGED <<typed, searchTimers, searches, pageVars>>

---------------------------------------------------------------------------
Next ==
  \/ LoadMoreData
  \/ \E i \in DOMAIN fetches : PageArrived(i)
  \/ Inserted
  \/ \E keyword \in Keywords \cup {NoKeyword} :
       TextDidChange(keyword) \/ PerformSearch(keyword)
  \/ \E i \in DOMAIN searches : SearchAnswered(i)
  \/ KeyboardWillHide \/ ViewDidDisappear

(* The session answers every fetch, by data or by a timeout, and UIKit     *)
(* calls the completion of a batch.                                        *)
Fairness ==
  /\ WF_vars(\E i \in DOMAIN fetches : PageArrived(i))
  /\ WF_vars(Inserted)

Spec == Init /\ [][Next]_vars /\ Fairness

TypeOK ==
  /\ index \in Nat /\ songs \in 0..Offered
  /\ hasMore \in BOOLEAN /\ isLoading \in BOOLEAN /\ inserting \in BOOLEAN
  /\ fetches \in Seq(Nat)
  /\ text \in Keywords \cup {NoKeyword} /\ typed \in Keywords \cup {NoKeyword}
  /\ searchTimers \subseteq Keywords \cup {NoKeyword}
  /\ searches \in Seq(Keywords)
  /\ searchResultSongs \in Keywords \cup {NoKeyword}

(* A keyword is searched only while nothing has been typed over it: every  *)
(* change of the text invalidates the timer of the text before (line 123). *)
(* It need not be in the bar any more: a timer outlives viewDidDisappear,  *)
(* which empties the bar, and the page then searches for what the user has *)
(* left behind.                                                            *)
SearchesTypedText ==
  [][Len(searches') > Len(searches) => searches' = Append(searches, typed)]_vars

(* isLoading is taken back on every way through the completion of a fetch  *)
(* and of a batch (lines 196-255): the failure, the two early returns, the *)
(* first page, the animation and its exception.                            *)
LoadingEnds == isLoading ~> ~isLoading
=============================================================================
