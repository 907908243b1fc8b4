------------------------- MODULE MusicPlayer_proofs -------------------------
(***************************************************************************)
(* Theorems about MusicPlayer, for any songs, objects, pages and lists and *)
(* any bounds: the type invariant, StartsCurrent, OneAdvancePerEnd with    *)
(* the invariant Advances, and IndexInRange with ListInRange and Advances. *)
(***************************************************************************)
EXTENDS MusicPlayer, FiniteSetTheorems, SequenceTheorems, WellFoundedInduction, TLAPS

(* The head of the list is an index like any other.                        *)
LEMMA FirstIndexType ==
  ASSUME NEW s, WellFormed(s) PROVE WellFormed([s EXCEPT !.currentIndex = 0])
BY ZenonT(60) DEF WellFormed, App

(* So is any set of indices one to be due.                                 *)
LEMMA DueType ==
  ASSUME NEW s, WellFormed(s), NEW d \in SUBSET Nat PROVE WellFormed([s EXCEPT !.due = d])
BY ZenonT(60) DEF WellFormed, App

(* Each routine keeps the state well formed: first those of the player.    *)
LEMMA StopType ==
  ASSUME NEW s, WellFormed(s) PROVE WellFormed(Stop(s))
BY PlayerAssumption DEF WellFormed, App, Stop, MusicPlayerState

(* The URL of a source is a source without a song, or the song itself.     *)
LEMMA URLType ==
  ASSUME NEW m \in Model PROVE URL(m) \in Model
BY DEF Model, URL, Freed, Source

(* playWithSong makes an item and a status together.                       *)
LEMMA PlayWithSongType ==
  ASSUME NEW s, WellFormed(s), NEW o \in Objects PROVE WellFormed(PlayWithSong(s, o))
<1>1. s.heap[o] \in Model
  BY DEF WellFormed, App
<1>2. URL(s.heap[o]) \in Model
  BY <1>1, URLType
<1> QED
  BY <1>2, PlayerAssumption DEF WellFormed, App, PlayWithSong, MusicPlayerState

(* A request carries an object, and a page if a page has asked.            *)
LEMMA RequestType ==
  ASSUME NEW s, WellFormed(s), NEW o \in Objects, NEW p \in Pages \cup {NoPage},
         NEW by \in {"manager", "page", "home", "search"}
  PROVE WellFormed(Request(s, by, o, p))
<1> DEFINE f == [by |-> by, object |-> o, page |-> p]
<1>1. f \in Fetch
  BY DEF Fetch
<1>2. Append(s.fetches, f) \in Seq(Fetch)
  BY <1>1 DEF WellFormed, App
<1> QED
  BY <1>2 DEF WellFormed, App, Request

(* In range, the current song is an object of the list.                    *)
LEMMA CurrentType ==
  ASSUME NEW s, WellFormed(s), InRange(s) PROVE Current(s) \in Objects
BY DEF WellFormed, App, InRange, Current

(* A list that is not empty has a positive length.                         *)
LEMMA NonEmptyLength ==
  ASSUME NEW s, WellFormed(s), s.playlist # <<>>
  PROVE Len(s.playlist) \in Nat /\ Len(s.playlist) > 0
<1>1. s.playlist \in Seq(Objects)
  BY DEF WellFormed, App
<1> QED
  BY <1>1, LenProperties, EmptySeq

(* The manager's advance keeps the state well formed.                      *)
LEMMA PlayerDidFinishType ==
  ASSUME NEW s, WellFormed(s) PROVE WellFormed(PlayerDidFinish(s))
<1>1. CASE s.playlist = <<>>
  BY <1>1 DEF PlayerDidFinish
<1>2. CASE s.playlist # <<>>
  <2> DEFINE next == s.currentIndex + 1
             i == IF next >= Len(s.playlist) THEN 0 ELSE next
             t == [s EXCEPT !.currentIndex = i]
             o == Current(t)
  <2>1. s.currentIndex \in Nat /\ Len(s.playlist) \in Nat /\ Len(s.playlist) > 0
    BY <1>2, NonEmptyLength DEF WellFormed, App
  <2>2. i \in Nat /\ i < Len(s.playlist)
    BY <2>1
  <2>3. WellFormed(t) /\ InRange(t)
    BY <2>2 DEF WellFormed, App, InRange
  <2>4. o \in Objects
    BY <2>3, CurrentType
  <2>5. PlayerDidFinish(s) = IF NoSource(t.heap[o]) THEN Request(t, "manager", o, NoPage)
                             ELSE PlayWithSong(t, o)
    BY <1>2 DEF PlayerDidFinish
  <2>6. WellFormed(Request(t, "manager", o, NoPage)) /\ WellFormed(PlayWithSong(t, o))
    BY <2>3, <2>4, RequestType, PlayWithSongType
  <2> QED
    BY <2>5, <2>6
<1> QED
  BY <1>1, <1>2

(* So does the block of the page that observes the end.                    *)
LEMMA SongDidPlayToEndType ==
  ASSUME NEW s, WellFormed(s) PROVE WellFormed(SongDidPlayToEnd(s))
<1>1. CASE s.shown = NoPage
  BY <1>1 DEF SongDidPlayToEnd
<1>2. CASE s.shown # NoPage
  <2> DEFINE b == [op |-> "ended", page |-> s.shown]
  <2>1. b \in Block
    BY <1>2 DEF WellFormed, App, Block
  <2>2. Append(s.mainQueue, b) \in Seq(Block)
    BY <2>1 DEF WellFormed, App
  <2> QED
    BY <1>2, <2>2 DEF SongDidPlayToEnd, WellFormed, App
<1> QED
  BY <1>1, <1>2

(* The page plays a position of the list, or asks for its URL.             *)
LEMMA PrepareAndPlayType ==
  ASSUME NEW s, WellFormed(s), NEW p \in Pages, s.pageIndex[p] < Len(s.playlist)
  PROVE WellFormed(PrepareAndPlay(s, p))
<1> DEFINE o == s.playlist[s.pageIndex[p] + 1]
<1>1. o \in Objects
  BY DEF WellFormed, App
<1>2. WellFormed(Request(s, "page", o, p)) /\ WellFormed(PlayWithSong(s, o))
  BY <1>1, RequestType, PlayWithSongType
<1> QED
  BY <1>2 DEF PrepareAndPlay

(* What changeToIndex sets before it plays. *)
LEMMA IndexMoved ==
  ASSUME NEW s, WellFormed(s), NEW p \in Pages, NEW i \in Nat, NEW a \in BOOLEAN,
         s.playlist # <<>>
  PROVE  LET n == Clamped(i, Len(s.playlist))
             t == [s EXCEPT !.currentIndex = n, !.pageIndex[p] = n, !.apart = a]
         IN  /\ WellFormed(t) /\ InRange(t) /\ t.pageIndex[p] < Len(t.playlist)
             /\ t.pageIndex[p] = t.currentIndex
<1> DEFINE n == Clamped(i, Len(s.playlist))
<1>1. n \in Nat /\ n < Len(s.playlist)
  BY NonEmptyLength DEF Clamped
<1>2. [s.pageIndex EXCEPT ![p] = n] \in [Pages -> Nat]
  BY <1>1 DEF WellFormed, App
<1> HIDE DEF n
<1> QED
  BY <1>1, <1>2 DEF WellFormed, App, InRange, n

(* changeToIndex keeps the state well formed.                              *)
LEMMA ChangeToIndexType ==
  ASSUME NEW s, WellFormed(s), NEW p \in Pages, NEW i \in Nat
  PROVE WellFormed(ChangeToIndex(s, p, i))
<1>1. CASE s.playlist = <<>>
  BY <1>1 DEF ChangeToIndex
<1>2. CASE s.playlist # <<>>
  <2> DEFINE n == Clamped(i, Len(s.playlist))
             a == /\ p # s.shown
                  /\ \/ s.apart
                     \/ s.shown # NoPage /\ s.pageIndex[s.shown] # n
             t == [s EXCEPT !.currentIndex = n, !.pageIndex[p] = n, !.apart = a]
  <2>1. a \in BOOLEAN
    BY DEF WellFormed, App
  <2>2. /\ WellFormed(t) /\ InRange(t) /\ t.pageIndex[p] < Len(t.playlist)
    BY <1>2, <2>1, IndexMoved
  <2>3. ChangeToIndex(s, p, i) =
          IF SameSong(t, t.heap[Current(t)]) /\ t.state = "Playing" THEN t
          ELSE PrepareAndPlay(Stop(t), p)
    BY <1>2, <2>2 DEF ChangeToIndex
  <2>4. WellFormed(Stop(t))
    BY <2>2, StopType
  <2>5. Stop(t).pageIndex[p] < Len(Stop(t).playlist)
    BY <2>2 DEF Stop, WellFormed, App
  <2>6. WellFormed(PrepareAndPlay(Stop(t), p))
    BY <2>4, <2>5, PrepareAndPlayType
  <2> QED
    BY <2>2, <2>3, <2>6
<1> QED
  BY <1>1, <1>2

(* So does opening a page.                                                 *)
LEMMA OpenPageType ==
  ASSUME NEW s, WellFormed(s), NEW p \in Pages PROVE WellFormed(OpenPage(s, p))
<1> DEFINE t == [s EXCEPT !.shown = p, !.pageIndex[p] = s.currentIndex]
<1>1. WellFormed(t) /\ s.currentIndex \in Nat
  BY DEF WellFormed, App
<1> HIDE DEF t
<1>2. WellFormed(ChangeToIndex(t, p, s.currentIndex))
  BY <1>1, ChangeToIndexType
<1> QED
  BY <1>2 DEF OpenPage, t

(* A remainder is a number. *)
LEMMA RemainderType ==
  ASSUME NEW a \in Nat, NEW b \in Nat, b > 0 PROVE a % b \in Nat
OBVIOUS

(* So do the swipes, on an empty list because changeToIndex returns.       *)
LEMMA SwipType ==
  ASSUME NEW s, WellFormed(s), NEW p \in Pages
  PROVE  WellFormed(HandleSwipToNext(s, p)) /\ WellFormed(HandleSwipToPrevious(s, p))
<1>1. CASE s.playlist = <<>>
  BY <1>1 DEF HandleSwipToNext, HandleSwipToPrevious, ChangeToIndex
<1>2. CASE s.playlist # <<>>
  <2>1. Len(s.playlist) \in Nat /\ Len(s.playlist) > 0 /\ s.pageIndex[p] \in Nat
    BY <1>2, NonEmptyLength DEF WellFormed, App
  <2>2. s.pageIndex[p] + 1 \in Nat /\ s.pageIndex[p] - 1 + Len(s.playlist) \in Nat
    BY <2>1
  <2>3. /\ (s.pageIndex[p] + 1) % Len(s.playlist) \in Nat
        /\ (s.pageIndex[p] - 1 + Len(s.playlist)) % Len(s.playlist) \in Nat
    BY <2>1, <2>2, RemainderType
  <2> QED
    BY <2>3, ChangeToIndexType DEF HandleSwipToNext, HandleSwipToPrevious
<1> QED
  BY <1>1, <1>2

----------------------------------------------------------------------------
(* A number with a property has a least one: what the induction over       *)
(* positions rests on.                                                     *)
LEMMA LeastNumber ==
  ASSUME NEW S \in SUBSET Nat, S # {}
  PROVE  \E x \in S : \A y \in S : x <= y
<1>1. PICK x \in S : \A y \in S : ~ (<<y, x>> \in OpToRel(<, Nat))
  BY NatLessThanWellFounded, WFMin, Zenon
<1>2. ASSUME NEW y \in S PROVE x <= y
  <2>1. <<y, x>> \in Nat \X Nat
    OBVIOUS
  <2>2. ~ (<<y, x>>[1] < <<y, x>>[2])
    BY <1>1, <2>1, Zenon DEF OpToRel
  <2> QED
    BY <2>2
<1> QED
  BY <1>2

(* A finite set of positions has a k-th for each k up to its size.         *)
LEMMA NthExists ==
  ASSUME NEW n \in Nat, NEW K \in SUBSET (1..n), NEW k \in 1..Cardinality(K)
  PROVE  Nth(K, k) \in K
<1> DEFINE UpTo(m) == {j \in K : j <= m}
<1>1. IsFiniteSet(K) /\ Cardinality(K) \in Nat
  <2>1. IsFiniteSet(1..n)
    BY FS_Interval
  <2> QED
    BY <2>1, FS_Subset, FS_CardinalityType
<1>2. ASSUME NEW m \in Nat PROVE IsFiniteSet(UpTo(m)) /\ Cardinality(UpTo(m)) \in Nat
  <2>1. UpTo(m) \in SUBSET K
    OBVIOUS
  <2> QED
    BY <1>1, <2>1, FS_Subset, FS_CardinalityType
<1>3. k \in Nat /\ k > 0
  BY <1>1
<1>4. UpTo(n) = K /\ UpTo(0) = {}
  <2>1. \A j \in K : j <= n /\ ~(j <= 0)
    OBVIOUS
  <2> QED
    BY <2>1, Zenon
<1>5. ASSUME NEW m \in Nat, m # 0
      PROVE  /\ m \notin K => UpTo(m) = UpTo(m - 1)
             /\ m \in K => UpTo(m) = UpTo(m - 1) \cup {m} /\ m \notin UpTo(m - 1)
  <2>1. /\ \A j \in K : j <= m <=> j <= m - 1 \/ j = m
        /\ ~(m <= m - 1)
    OBVIOUS
  <2>2. CASE m \notin K
    <3>1. UpTo(m) = UpTo(m - 1)
      BY <2>1, <2>2, Zenon
    <3> QED
      BY <2>2, <3>1
  <2>3. CASE m \in K
    <3>1. UpTo(m) = UpTo(m - 1) \cup {m}
      BY <2>1, <2>3, Zenon
    <3>2. m \notin UpTo(m - 1)
      BY <2>1, Zenon
    <3> QED
      BY <2>3, <3>1, <3>2
  <2> QED
    BY <2>2, <2>3
<1> DEFINE S == {m \in Nat : Cardinality(UpTo(m)) >= k}
<1> HIDE DEF UpTo
<1>6. PICK m \in S : \A y \in S : m <= y
  <2>1. n \in S
    BY <1>1, <1>4
  <2> HIDE DEF S
  <2>2. S \in SUBSET Nat
    BY DEF S
  <2> QED
    BY <2>1, <2>2, LeastNumber
<1>7. m \in Nat /\ Cardinality(UpTo(m)) >= k /\ Cardinality(UpTo(m)) \in Nat
  BY <1>2, <1>6
<1>8. m # 0
  BY <1>3, <1>4, <1>7, FS_EmptySet
<1>9. m - 1 \in Nat /\ Cardinality(UpTo(m - 1)) \in Nat
  BY <1>2, <1>7, <1>8
<1>10. Cardinality(UpTo(m - 1)) < k
  BY <1>3, <1>6, <1>9
<1>11. m \in K
  BY <1>3, <1>5, <1>7, <1>8, <1>9, <1>10
<1>12. Cardinality(UpTo(m)) = Cardinality(UpTo(m - 1)) + 1
  BY <1>2, <1>5, <1>7, <1>8, <1>9, <1>11, FS_AddElement
<1>13. Cardinality(UpTo(m)) = k
  BY <1>3, <1>7, <1>9, <1>10, <1>12
<1> QED
  BY <1>11, <1>13 DEF Nth, UpTo

(* What the dedupe leaves of a list is a list.                             *)
LEMMA RemainingType ==
  ASSUME NEW S, NEW seq \in Seq(S), NEW gone
  PROVE  /\ Remaining(seq, gone) \in Seq(S)
         /\ \A i \in DOMAIN Remaining(seq, gone) :
              \E j \in DOMAIN seq : Remaining(seq, gone)[i] = seq[j]
<1> DEFINE K == DOMAIN seq \ gone
           f == [k \in 1..Cardinality(K) |-> seq[Nth(K, k)]]
<1>1. Len(seq) \in Nat /\ K \in SUBSET (1..Len(seq)) /\ DOMAIN seq = 1..Len(seq)
  BY LenProperties
<1>2. Cardinality(K) \in Nat
  <2>1. IsFiniteSet(1..Len(seq))
    BY <1>1, FS_Interval
  <2> HIDE DEF K
  <2> QED
    BY <1>1, <2>1, FS_Subset, FS_CardinalityType
<1>3. \A k \in 1..Cardinality(K) : Nth(K, k) \in K
  BY <1>1, NthExists
<1>4. \A k \in 1..Cardinality(K) : seq[Nth(K, k)] \in S
  BY <1>1, <1>3, ElementOfSeq
<1> HIDE DEF K
<1>5. f \in Seq(S)
  BY <1>2, <1>4, IsASeq
<1>6. Remaining(seq, gone) = f
  BY DEF Remaining, K
<1> QED
  BY <1>3, <1>5, <1>6 DEF K

----------------------------------------------------------------------------
(* A new object is one of the heap's.                                      *)
LEMMA AllocateType ==
  ASSUME NEW s, WellFormed(s), NEW o \in Objects, NEW m \in Model
  PROVE  WellFormed(Allocate(s, o, m))
BY DEF WellFormed, App, Allocate

(* Inserting at the head makes the list one longer.                        *)
LEMMA InsertFirstType ==
  ASSUME NEW s, WellFormed(s), NEW o \in Objects
  PROVE  /\ WellFormed(InsertFirst(s, o))
         /\ Len(InsertFirst(s, o).playlist) = Len(s.playlist) + 1
         /\ InsertFirst(s, o).playlist[1] = o
<1> DEFINE new == <<o>> \o s.playlist
<1>1. s.playlist \in Seq(Objects) /\ <<o>> \in Seq(Objects) /\ Len(<<o>>) = 1
  BY DEF WellFormed, App
<1>2. Len(s.playlist) \in Nat
  BY <1>1, LenProperties
<1>3. new \in Seq(Objects) /\ Len(new) = Len(s.playlist) + 1 /\ new[1] = o
  BY <1>1, <1>2, ConcatProperties
<1> HIDE DEF new
<1>4. InsertFirst(s, o) = [s EXCEPT !.playlist = new, !.due = {}]
  BY DEF InsertFirst, new
<1>5. WellFormed(InsertFirst(s, o))
  BY <1>3, <1>4 DEF WellFormed, App
<1>6. InsertFirst(s, o).playlist = new
  BY <1>4 DEF WellFormed, App
<1> QED
  BY <1>3, <1>5, <1>6

(* Deduping keeps the state well formed.                                   *)
LEMMA DedupeType ==
  ASSUME NEW s, WellFormed(s), NEW song PROVE WellFormed(Dedupe(s, song))
<1>1. s.playlist \in Seq(Objects)
  BY DEF WellFormed, App
<1>2. Remaining(s.playlist, Dropped(s, song)) \in Seq(Objects)
  BY <1>1, RemainingType
<1> QED
  BY <1>2 DEF Dedupe, WellFormed, App

(* So does moving a song to the head and playing it.                       *)
LEMMA PlayFirstType ==
  ASSUME NEW s, WellFormed(s), NEW o \in Objects, NEW m \in Model
  PROVE  WellFormed(PlayFirst(s, o, m))
<1> DEFINE t == InsertFirst(Dedupe(Allocate(s, o, m), m.song), o)
<1>1. WellFormed(t)
  BY AllocateType, DedupeType, InsertFirstType
<1> DEFINE u == PlayWithSong(t, o)
<1>2. WellFormed(u)
  BY <1>1, PlayWithSongType
<1>3. PlayFirst(s, o, m) = [u EXCEPT !.currentIndex = 0]
  BY DEF PlayFirst
<1> HIDE DEF u, t
<1>4. WellFormed([u EXCEPT !.currentIndex = 0])
  BY <1>2, FirstIndexType
<1> QED
  BY <1>3, <1>4

(* So does putting a list of new objects in the place of the list.         *)
LEMMA ReplaceListType ==
  ASSUME NEW s, WellFormed(s), NEW songs \in SongLists,
         NEW os \in NewObjects(s, Len(songs)), NEW source \in Source
  PROVE  WellFormed(ReplaceList(s, os, songs, source))
<1>1. songs \in Seq(Songs) /\ Len(songs) \in Nat /\ DOMAIN songs = 1..Len(songs)
  BY PlayerAssumption, LenProperties
<1>2. os \in [1..Len(songs) -> Objects]
  BY DEF NewObjects, FreeObjects
<1>3. os \in Seq(Objects)
  BY <1>1, <1>2, SeqDef
<1> DEFINE heap == [o \in Objects |->
                      IF \E i \in DOMAIN os : os[i] = o
                      THEN [song |-> songs[CHOOSE i \in DOMAIN os : os[i] = o],
                            source |-> source]
                      ELSE s.heap[o]]
<1>4. heap \in [Objects -> Model]
  <2> SUFFICES ASSUME NEW o \in Objects PROVE heap[o] \in Model
    OBVIOUS
  <2>1. CASE \E i \in DOMAIN os : os[i] = o
    <3> DEFINE j == CHOOSE i \in DOMAIN os : os[i] = o
    <3>1. j \in DOMAIN songs
      BY <1>1, <1>2, <2>1
    <3>2. songs[j] \in Songs
      BY <1>1, <3>1, ElementOfSeq
    <3> QED
      BY <2>1, <3>2 DEF Model
  <2>2. CASE ~ \E i \in DOMAIN os : os[i] = o
    BY <2>2 DEF WellFormed, App
  <2> QED
    BY <2>1, <2>2
<1> HIDE DEF heap
<1> DEFINE e == s.emptied \/ os = <<>>
<1>5. ReplaceList(s, os, songs, source) =
        [s EXCEPT !.heap = heap, !.playlist = os, !.emptied = e, !.due = {}]
  BY DEF ReplaceList, heap
<1>6. e \in BOOLEAN
  OBVIOUS
<1> HIDE DEF e
<1> QED
  BY <1>3, <1>4, <1>5, <1>6, ZenonT(60) DEF WellFormed, App

(* Stopping frees objects at most. *)
LEMMA StopNewObjects ==
  ASSUME NEW s, WellFormed(s), NEW n PROVE NewObjects(s, n) \subseteq NewObjects(Stop(s), n)
<1>1. /\ Stop(s).playlist = s.playlist /\ Stop(s).fetches = s.fetches
      /\ Stop(s).mainQueue = s.mainQueue /\ Stop(s).item = NoObject
  BY DEF Stop, WellFormed, App
<1>2. HeldObjects(Stop(s)) \subseteq HeldObjects(s) \cup {NoObject}
  BY <1>1 DEF HeldObjects
<1>3. FreeObjects(s) \subseteq FreeObjects(Stop(s))
  BY <1>2, PlayerAssumption DEF FreeObjects
<1> QED
  BY <1>3 DEF NewObjects

(* A crash only marks the state.                                           *)
LEMMA CrashedType ==
  ASSUME NEW s, WellFormed(s), NEW why \in {"range", "pageRange", "mutated"}
  PROVE  WellFormed(Crashed(s, why))
BY DEF WellFormed, App, Crashed

(* The block of an answer plays its object, or nothing.                    *)
LEMMA AnsweredType ==
  ASSUME NEW s, WellFormed(s), NEW b \in Block, b.op = "answered"
  PROVE  WellFormed(Answered(s, b))
<1>1. b.object \in Objects
  BY DEF Block
<1>2. WellFormed(PlayWithSong(s, b.object)) /\ WellFormed(Crashed(s, "range"))
  BY <1>1, PlayWithSongType, CrashedType
<1> QED
  BY <1>2 DEF Answered

(* playSong plays the current object, or raises.                           *)
LEMMA PlayCurrentType ==
  ASSUME NEW s, WellFormed(s) PROVE WellFormed(PlayCurrent(s))
<1>1. WellFormed(Crashed(s, "range"))
  BY CrashedType
<1> QED
  BY <1>1, CurrentType, PlayWithSongType DEF PlayCurrent

(* Reference counting keeps the state well formed.                         *)
LEMMA ReleasedType ==
  ASSUME NEW s, WellFormed(s) PROVE WellFormed(Released(s))
<1>1. Freed \in Model
  BY DEF Freed, Model, Source
<1> QED
  BY <1>1 DEF WellFormed, App, Released

(* So does a step that leaves a well-formed state to be released.          *)
LEMMA StepType ==
  ASSUME NEW s, WellFormed(s), Step(s) PROVE TypeOK'
BY ReleasedType DEF Step, TypeOK

(* And a touch, which is counted.                                          *)
LEMMA TouchType ==
  ASSUME NEW s, WellFormed(s), Touch(s) PROVE TypeOK'
<1> DEFINE n == s.touches + 1
           t == [s EXCEPT !.touches = n]
<1>1. n \in Nat
  BY DEF WellFormed, App
<1> HIDE DEF n
<1>2. WellFormed(t)
  BY <1>1 DEF WellFormed, App
<1>3. Step(t)
  BY DEF Touch, n
<1> HIDE DEF t
<1> QED
  BY <1>2, <1>3, StepType

(* Play and pause change the player's state only.                          *)
LEMMA PlayType ==
  ASSUME NEW s, WellFormed(s) PROVE WellFormed(Play(s)) /\ WellFormed(Pause(s))
<1>1. "Playing" \in MusicPlayerState /\ "Paused" \in MusicPlayerState
  BY DEF MusicPlayerState
<1>2. \A state \in MusicPlayerState : WellFormed([s EXCEPT !.state = state])
  BY DEF WellFormed, App
<1> QED
  BY <1>1, <1>2 DEF Play, Pause

(* Moving the list forgets what the end of a song has led to.              *)
LEMMA MovedType ==
  ASSUME NEW s, WellFormed(s) PROVE WellFormed(Moved(s))
BY DEF WellFormed, App, Moved

(* A sequence without one of its positions is one shorter.                 *)
LEMMA WithoutType ==
  ASSUME NEW S, NEW seq \in Seq(S), NEW i \in DOMAIN seq
  PROVE  Without(seq, i) \in Seq(S) /\ Len(Without(seq, i)) = Len(seq) - 1
<1>1. Len(seq) \in Nat /\ i \in 1..Len(seq)
  BY LenProperties
<1>2. \A j \in 1..(i - 1) : seq[j] \in S
  BY <1>1, ElementOfSeq
<1>3. \A j \in (i + 1)..Len(seq) : seq[j] \in S
  BY <1>1, ElementOfSeq
<1> DEFINE front == SubSeq(seq, 1, i - 1)
           back == SubSeq(seq, i + 1, Len(seq))
<1>4. front \in Seq(S) /\ Len(front) = i - 1
  BY <1>1, <1>2, SubSeqProperties
<1>5. back \in Seq(S) /\ Len(back) = Len(seq) - i
  BY <1>1, <1>3, SubSeqProperties
<1>6. Without(seq, i) = front \o back
  BY DEF Without
<1> HIDE DEF front, back
<1>7. front \o back \in Seq(S) /\ Len(front \o back) = Len(front) + Len(back)
  BY <1>4, <1>5, ConcatProperties
<1> QED
  BY <1>1, <1>4, <1>5, <1>6, <1>7

(* The state before the list is loaded is well formed.                     *)
LEMMA EmptyType == WellFormed(Empty)
<1>1. Freed \in Model
  BY DEF Freed, Model, Source
<1>2. \A S : <<>> \in Seq(S)
  BY EmptySeq
<1> QED
  BY <1>1, <1>2, PlayerAssumption DEF Empty, WellFormed, App, MusicPlayerState

(* The initial states are well formed.                                     *)
LEMMA TypeInit == Init => TypeOK
<1> SUFFICES ASSUME NEW songs \in SongLists \ {<<>>}, NEW os \in NewObjects(Empty, Len(songs)),
                    app = ReplaceList(Empty, os, songs, "null")
             PROVE  TypeOK
  BY DEF Init
<1>1. "null" \in Source
  BY DEF Source
<1> QED
  BY <1>1, EmptyType, ReplaceListType DEF TypeOK

(* The steps of AVPlayer and of the main queue. *)
LEMMA TypePlayer ==
  ASSUME TypeOK, ReadyToPlay \/ ItemFailed \/ SongEnds \/ RunBlock PROVE TypeOK'
<1> WellFormed(app)
  BY DEF TypeOK
<1>1. CASE ReadyToPlay
  <2> DEFINE s == [app EXCEPT !.status = "ready"]
  <2>1. WellFormed(s)
    BY <1>1 DEF ReadyToPlay, WellFormed, App
  <2>2. WellFormed(Play(s))
    BY <2>1, PlayType
  <2> QED
    BY <1>1, <2>2, StepType DEF ReadyToPlay
<1>2. CASE ItemFailed
  <2>1. WellFormed([app EXCEPT !.status = "failed", !.state = "Stopped"])
    BY <1>2 DEF ItemFailed, WellFormed, App, MusicPlayerState
  <2> QED
    BY <1>2, <2>1, StepType DEF ItemFailed
<1>3. CASE SongEnds
  <2> DEFINE s == PlayerDidFinish([app EXCEPT !.status = "ended"])
             d == IF app.playlist = <<>> \/ app.apart THEN {} ELSE {s.currentIndex}
             t == [s EXCEPT !.due = d]
  <2>1. WellFormed([app EXCEPT !.status = "ended"])
    BY <1>3 DEF SongEnds, WellFormed, App
  <2>2. WellFormed(s)
    BY <2>1, PlayerDidFinishType
  <2>3. Step(SongDidPlayToEnd(t))
    BY <1>3 DEF SongEnds
  <2> HIDE DEF s
  <2>4. d \in SUBSET Nat
    BY <2>2 DEF WellFormed, App
  <2> HIDE DEF d
  <2>5. WellFormed(t)
    BY <2>2, <2>4, DueType
  <2> QED
    BY <2>3, <2>5, SongDidPlayToEndType, StepType
<1>4. CASE RunBlock
  <2> DEFINE b == Head(app.mainQueue)
             s == [app EXCEPT !.mainQueue = Tail(app.mainQueue)]
  <2>1. b \in Block /\ Tail(app.mainQueue) \in Seq(Block)
    BY <1>4, HeadTailProperties DEF RunBlock, WellFormed, App
  <2>2. WellFormed(s)
    BY <2>1 DEF WellFormed, App
  <2>3. Step(IF b.op = "ended" THEN HandleSwipToNext(s, b.page) ELSE Answered(s, b))
    BY <1>4 DEF RunBlock
  <2>4. /\ b.op = "ended" => b.page \in Pages
        /\ b.op # "ended" => b.op = "answered"
    BY <2>1 DEF Block
  <2> HIDE DEF b, s
  <2> QED
    BY <2>1, <2>2, <2>3, <2>4, SwipType, AnsweredType, StepType
<1> QED
  BY <1>1, <1>2, <1>3, <1>4

(* An object is told its URL, and nothing else changes.                    *)
LEMMA URLArrives ==
  ASSUME NEW s, WellFormed(s), NEW o \in Objects
  PROVE  LET u == [s EXCEPT !.heap[o].source = "url"]
         IN  /\ WellFormed(u)
             /\ u.item = s.item /\ u.playlist = s.playlist
             /\ u.currentIndex = s.currentIndex /\ u.emptied = s.emptied
             /\ u.crash = s.crash /\ u.shown = s.shown /\ u.pageIndex = s.pageIndex
             /\ u.apart = s.apart /\ u.mainQueue = s.mainQueue /\ u.due = s.due
<1> DEFINE m == [s.heap[o] EXCEPT !.source = "url"]
           h == [s.heap EXCEPT ![o] = m]
           u == [s EXCEPT !.heap = h]
<1>1. s.heap \in [Objects -> Model]
  BY DEF WellFormed, App
<1>2. s.heap[o] \in Model
  BY <1>1
<1>3. m \in Model
  BY <1>2 DEF Model, Source
<1>4. [s EXCEPT !.heap[o].source = "url"] = u
  BY <1>1 DEF WellFormed, App
<1> HIDE DEF m
<1>5. h \in [Objects -> Model]
  BY <1>1, <1>3
<1> HIDE DEF h
<1>6. /\ WellFormed(u)
      /\ u.item = s.item /\ u.playlist = s.playlist
      /\ u.currentIndex = s.currentIndex /\ u.emptied = s.emptied
      /\ u.crash = s.crash /\ u.shown = s.shown /\ u.pageIndex = s.pageIndex
      /\ u.apart = s.apart /\ u.mainQueue = s.mainQueue /\ u.due = s.due
  BY <1>5 DEF WellFormed, App
<1> QED
  BY <1>4, <1>6

(* The answers of the network. *)
LEMMA TypeAnswered ==
  ASSUME TypeOK, NEW i \in DOMAIN app.fetches, FetchAnswered(i) PROVE TypeOK'
<1> DEFINE f == app.fetches[i]
           s == [app EXCEPT !.fetches = Without(app.fetches, i)]
           u == [s EXCEPT !.heap[f.object].source = "url"]
<1>1. WellFormed(app)
  BY DEF TypeOK
<1>2. f \in Fetch /\ Without(app.fetches, i) \in Seq(Fetch)
  BY <1>1, WithoutType, ElementOfSeq DEF WellFormed, App
<1>3. WellFormed(s)
  BY <1>1, <1>2 DEF WellFormed, App
<1> HIDE DEF f
<1>4. f.object \in Objects /\ f.page \in Pages \cup {NoPage}
  BY <1>2 DEF Fetch
<1>5. WellFormed(u)
  <2> HIDE DEF s
  <2> QED
    BY <1>3, <1>4, URLArrives
<1>7. CASE Step(s)
  BY <1>3, <1>7, StepType
<1>8. ASSUME NEW t \in {s, u},
             \/ f.by \in {"manager", "page"}
                /\ Step([t EXCEPT !.mainQueue = Append(t.mainQueue,
                     [op |-> "answered", by |-> f.by, object |-> f.object, page |-> f.page])])
             \/ f.by = "home" /\ Step(PlayCurrent(t))
             \/ f.by = "search" /\ t.shown # NoPage /\ Step(t)
             \/ f.by = "search" /\ t.shown = NoPage
                /\ \E p \in FreePages(t) : Step(OpenPage(t, p))
      PROVE  TypeOK'
  <2> WellFormed(t)
    BY <1>3, <1>5, <1>8
  <2>1. ASSUME f.by \in {"manager", "page"},
               Step([t EXCEPT !.mainQueue = Append(t.mainQueue,
                 [op |-> "answered", by |-> f.by, object |-> f.object, page |-> f.page])])
        PROVE  TypeOK'
    <3> DEFINE b == [op |-> "answered", by |-> f.by, object |-> f.object, page |-> f.page]
               q == Append(t.mainQueue, b)
    <3>1. b \in Block
      BY <1>4, <2>1 DEF Block
    <3> HIDE DEF b
    <3>2. q \in Seq(Block)
      BY <3>1 DEF WellFormed, App
    <3> HIDE DEF q
    <3>3. WellFormed([t EXCEPT !.mainQueue = q])
      BY <3>2 DEF WellFormed, App
    <3> QED
      BY <2>1, <3>3, StepType DEF q, b
  <2>2. CASE f.by = "home" /\ Step(PlayCurrent(t))
    BY <2>2, PlayCurrentType, StepType
  <2>3. CASE Step(t)
    BY <2>3, StepType
  <2>4. ASSUME NEW p \in FreePages(t), Step(OpenPage(t, p)) PROVE TypeOK'
    BY <2>4, OpenPageType, StepType DEF FreePages
  <2> QED
    BY <1>8, <2>1, <2>2, <2>3, <2>4
<1> QED
  BY <1>7, <1>8 DEF FetchAnswered, f

(* The touches on the player page, and on the floating view. *)
LEMMA TypePage ==
  ASSUME TypeOK,
         PressNext \/ PressPrevious \/ PressSwitch \/ ClosePage \/ ReadCurrent
           \/ TapFloatingView \/ PressPlayerSwitches
  PROVE  TypeOK'
<1> WellFormed(app)
  BY DEF TypeOK
<1>1. app.shown # NoPage => app.shown \in Pages
  BY DEF WellFormed, App
<1>2. CASE PressNext \/ PressPrevious
  BY <1>1, <1>2, MovedType, SwipType, TouchType DEF PressNext, PressPrevious
<1>3. CASE PressSwitch
  BY <1>3, PlayType, TouchType DEF PressSwitch
<1>4. CASE ClosePage
  <2>1. WellFormed([app EXCEPT !.shown = NoPage, !.apart = FALSE])
    BY DEF WellFormed, App
  <2> QED
    BY <1>4, <2>1, TouchType DEF ClosePage
<1>5. CASE ReadCurrent
  BY <1>5, CrashedType, TouchType DEF ReadCurrent
<1>6. CASE TapFloatingView
  BY <1>6, OpenPageType, TouchType DEF TapFloatingView, FreePages
<1>7. CASE PressPlayerSwitches
  <2>1. CASE ~InRange(app)
    BY <1>7, <2>1, CrashedType, TouchType DEF PressPlayerSwitches
  <2>2. CASE InRange(app)
    <3>1. WellFormed(Request(app, "home", Current(app), NoPage))
      BY <2>2, CurrentType, RequestType
    <3> QED
      BY <1>7, <2>2, <3>1, PlayType, TouchType DEF PressPlayerSwitches
  <2> QED
    BY <2>1, <2>2
<1> QED
  BY <1>2, <1>3, <1>4, <1>5, <1>6, <1>7

(* The touches that change the list. *)
LEMMA TypePick ==
  ASSUME TypeOK,
         PickCached \/ PickDownloaded \/ PlayAllDownloads \/ PickInList
           \/ PlayList \/ PickFound \/ PressRecommended \/ Land
  PROVE  TypeOK'
<1> WellFormed(app)
  BY DEF TypeOK
<1> FreeObjects(app) \subseteq Objects /\ FreePages(app) \subseteq Pages
  BY DEF FreeObjects, FreePages
<1>1. \A song \in Songs, source \in Source : [song |-> song, source |-> source] \in Model
  BY DEF Model
<1>2. {"null", "none", "url", "file"} = Source
  BY DEF Source
<1>3. CASE PickCached \/ PickDownloaded
  <2>1. PICK source \in {"null", "file"} : PickKept(source)
    BY <1>3 DEF PickCached, PickDownloaded
  <2>2. PICK song \in Songs, o \in FreeObjects(app), p \in FreePages(app) :
          Touch(OpenPage(PlayFirst(app, o, [song |-> song, source |-> source]), p))
    BY <2>1 DEF PickKept
  <2>3. WellFormed(PlayFirst(app, o, [song |-> song, source |-> source]))
    BY <1>1, <1>2, PlayFirstType
  <2> QED
    BY <2>2, <2>3, OpenPageType, TouchType
<1>4. CASE PlayAllDownloads
  <2>0. PICK songs \in SongLists : \E os \in NewObjects(app, Len(songs)) :
          Touch(PlayCurrent([ReplaceList(Stop(app), os, songs, "file")
                               EXCEPT !.currentIndex = 0]))
    BY <1>4 DEF PlayAllDownloads
  <2>1. PICK os \in NewObjects(app, Len(songs)) :
          Touch(PlayCurrent([ReplaceList(Stop(app), os, songs, "file")
                               EXCEPT !.currentIndex = 0]))
    BY <2>0
  <2> DEFINE u == ReplaceList(Stop(app), os, songs, "file")
  <2>2. WellFormed(Stop(app))
    BY StopType
  <2>3. os \in NewObjects(Stop(app), Len(songs))
    BY StopNewObjects
  <2>4. WellFormed(u)
    BY <1>2, <2>2, <2>3, ReplaceListType
  <2> HIDE DEF u
  <2>5. WellFormed([u EXCEPT !.currentIndex = 0])
    BY <2>4, FirstIndexType
  <2> QED
    BY <2>1, <2>5, PlayCurrentType, TouchType DEF u
<1>5. CASE PickInList
  <2>1. PICK song \in Songs, o \in FreeObjects(app), p \in FreePages(app) :
          LET s == Allocate(app, o, [song |-> song, source |-> "null"])
              n == Len(app.playlist)
              t == InsertFirst(IF n \in Matches(app, song)
                               THEN [s EXCEPT !.playlist = Without(s.playlist, n)] ELSE s, o)
          IN  Touch(IF \E i \in Matches(app, song) : i < n THEN Crashed(s, "mutated")
                    ELSE IF ~InRange(t) THEN Crashed(t, "range")
                    ELSE OpenPage(t, p))
    BY <1>5 DEF PickInList
  <2> DEFINE s == Allocate(app, o, [song |-> song, source |-> "null"])
             n == Len(app.playlist)
             r == [s EXCEPT !.playlist = Without(s.playlist, n)]
             t == InsertFirst(IF n \in Matches(app, song) THEN r ELSE s, o)
  <2>2. WellFormed(s)
    BY <1>1, <1>2, AllocateType
  <2>3. s.playlist = app.playlist
    BY DEF Allocate, WellFormed, App
  <2>4. n \in Matches(app, song) => n \in DOMAIN s.playlist
    BY <2>3 DEF Matches
  <2>5. Touch(IF \E i \in Matches(app, song) : i < n THEN Crashed(s, "mutated")
              ELSE IF ~InRange(t) THEN Crashed(t, "range")
              ELSE OpenPage(t, p))
    BY <2>1
  <2> HIDE DEF s, n
  <2>6. n \in Matches(app, song) => WellFormed(r)
    BY <2>2, <2>4, WithoutType DEF WellFormed, App
  <2> HIDE DEF r
  <2>7. WellFormed(t)
    BY <2>2, <2>6, InsertFirstType
  <2> HIDE DEF t
  <2>8. /\ WellFormed(Crashed(s, "mutated")) /\ WellFormed(Crashed(t, "range"))
        /\ WellFormed(OpenPage(t, p))
    BY <2>2, <2>7, CrashedType, OpenPageType
  <2> QED
    BY <2>5, <2>8, TouchType
<1>6. CASE PlayList
  <2>0. PICK songs \in SongLists : \E os \in NewObjects(app, Len(songs)) :
          \E p \in FreePages(app) : Touch(OpenPage(ReplaceList(app, os, songs, "null"), p))
    BY <1>6 DEF PlayList
  <2>1. PICK os \in NewObjects(app, Len(songs)), p \in FreePages(app) :
          Touch(OpenPage(ReplaceList(app, os, songs, "null"), p))
    BY <2>0
  <2>2. WellFormed(ReplaceList(app, os, songs, "null"))
    BY <1>2, ReplaceListType
  <2> QED
    BY <2>1, <2>2, OpenPageType, TouchType
<1>7. CASE PickFound
  <2>1. PICK song \in Songs, o \in FreeObjects(app) :
          LET s == InsertFirst(Allocate(app, o, [song |-> song, source |-> "null"]), o)
          IN  Touch(Request([s EXCEPT !.currentIndex = 0], "search", o, NoPage))
    BY <1>7 DEF PickFound
  <2> DEFINE s == InsertFirst(Allocate(app, o, [song |-> song, source |-> "null"]), o)
  <2>2. WellFormed(s)
    BY <1>1, <1>2, AllocateType, InsertFirstType
  <2> HIDE DEF s
  <2>3. WellFormed([s EXCEPT !.currentIndex = 0])
    BY <2>2, FirstIndexType
  <2>4. WellFormed(Request([s EXCEPT !.currentIndex = 0], "search", o, NoPage))
    BY <2>3, RequestType
  <2> QED
    BY <2>1, <2>4, TouchType DEF s
<1>8. CASE PressRecommended
  <2>1. PICK song \in Songs, source \in {"none", "url"} :
          Touch([app EXCEPT !.flying = <<[song |-> song, source |-> source]>>])
    BY <1>8 DEF PressRecommended
  <2> DEFINE m == [song |-> song, source |-> source]
  <2>2. <<m>> \in Seq(Model)
    BY <1>1, <1>2
  <2> HIDE DEF m
  <2>3. WellFormed([app EXCEPT !.flying = <<m>>])
    BY <2>2 DEF WellFormed, App
  <2> QED
    BY <2>1, <2>3, TouchType DEF m
<1>9. CASE Land
  <2>1. PICK o \in FreeObjects(app) :
          LET s == PlayFirst([app EXCEPT !.flying = Tail(app.flying)], o, Head(app.flying))
          IN  Step(Play([s EXCEPT !.apart = app.shown # NoPage]))
    BY <1>9 DEF Land
  <2>2. Head(app.flying) \in Model /\ Tail(app.flying) \in Seq(Model)
    BY <1>9, HeadTailProperties DEF Land, WellFormed, App
  <2> DEFINE s == PlayFirst([app EXCEPT !.flying = Tail(app.flying)], o, Head(app.flying))
             a == app.shown # NoPage
  <2>3. WellFormed([app EXCEPT !.flying = Tail(app.flying)])
    BY <2>2 DEF WellFormed, App
  <2>4. WellFormed(s) /\ a \in BOOLEAN
    BY <2>2, <2>3, PlayFirstType
  <2> HIDE DEF s, a
  <2>5. WellFormed([s EXCEPT !.apart = a])
    BY <2>4, ZenonT(60) DEF WellFormed, App
  <2> QED
    BY <2>1, <2>5, PlayType, StepType DEF s, a
<1> QED
  BY <1>3, <1>4, <1>5, <1>6, <1>7, <1>8, <1>9

(* Every step keeps the state well formed.                                 *)
LEMMA TypeNext == TypeOK /\ [Next]_app => TypeOK'
<1> SUFFICES ASSUME TypeOK, [Next]_app PROVE TypeOK'
  OBVIOUS
<1>1. CASE UNCHANGED app
  BY <1>1 DEF TypeOK
<1> QED
  BY <1>1, TypePlayer, TypeAnswered, TypePage, TypePick DEF Next

(* For all lists, songs and pages: the state is well formed, and there is  *)
(* an item exactly when the player has a status.                           *)
THEOREM TypeCorrect == Spec => []TypeOK
BY TypeInit, TypeNext, PTL DEF Spec

----------------------------------------------------------------------------
(* The current index. *)

Ranged(s) == ~s.emptied => InRange(s) /\ s.crash \notin {"range", "pageRange"}

(* What changeToIndex needs of the list it clamps its index to. *)
Listed(s) == ~s.emptied => s.playlist # <<>> /\ s.crash \notin {"range", "pageRange"}

(* What is left of it when a page has read past the end. *)
ListInRange ==
  ~app.emptied =>
    /\ InRange(app) /\ app.crash # "range"
    /\ app.crash = "pageRange"
         => app.shown # NoPage /\ app.pageIndex[app.shown] >= Len(app.playlist)

(* A routine that leaves the list, its index and the songs alone. *)
Unmoved(s, t) ==
  /\ t.playlist = s.playlist /\ t.currentIndex = s.currentIndex
  /\ t.heap = s.heap /\ t.emptied = s.emptied /\ t.crash = s.crash

(* Such a routine keeps the index in range.                                *)
LEMMA UnmovedRanged ==
  ASSUME NEW s, NEW t, Unmoved(s, t), Ranged(s) PROVE Ranged(t)
BY DEF Unmoved, Ranged, InRange

(* All the routines of the player are such routines.                       *)
LEMMA PlayingUnmoved ==
  ASSUME NEW s, WellFormed(s)
  PROVE  /\ Unmoved(s, Stop(s)) /\ Unmoved(s, Play(s)) /\ Unmoved(s, Pause(s))
         /\ Unmoved(s, Moved(s)) /\ Unmoved(s, SongDidPlayToEnd(s))
         /\ \A o : Unmoved(s, PlayWithSong(s, o))
         /\ \A o, by, p : Unmoved(s, Request(s, by, o, p))
         /\ \A p : Unmoved(s, PrepareAndPlay(s, p))
<1>1. /\ Unmoved(s, Stop(s)) /\ Unmoved(s, Play(s)) /\ Unmoved(s, Pause(s))
      /\ Unmoved(s, Moved(s)) /\ Unmoved(s, SongDidPlayToEnd(s))
  BY DEF WellFormed, App, Unmoved, Stop, Play, Pause, Moved, SongDidPlayToEnd
<1>2. ASSUME NEW o PROVE Unmoved(s, PlayWithSong(s, o))
  BY DEF WellFormed, App, Unmoved, PlayWithSong
<1>3. ASSUME NEW o, NEW by, NEW p PROVE Unmoved(s, Request(s, by, o, p))
  BY DEF WellFormed, App, Unmoved, Request
<1>4. ASSUME NEW p PROVE Unmoved(s, PrepareAndPlay(s, p))
  BY <1>2, <1>3 DEF PrepareAndPlay
<1> QED
  BY <1>1, <1>2, <1>3, <1>4

(* An index in range is one of a list that is not empty.                   *)
LEMMA RangedListed ==
  ASSUME NEW s, WellFormed(s), Ranged(s) PROVE Listed(s)
<1>1. ASSUME s.playlist = <<>> PROVE ~InRange(s)
  BY <1>1, EmptySeq DEF InRange, WellFormed, App
<1> QED
  BY <1>1 DEF Ranged, Listed

(* The manager wraps at the end of the list.                               *)
LEMMA PlayerDidFinishRanged ==
  ASSUME NEW s, WellFormed(s), Ranged(s) PROVE Ranged(PlayerDidFinish(s))
<1>1. CASE s.playlist = <<>>
  BY <1>1 DEF PlayerDidFinish
<1>2. CASE s.playlist # <<>>
  <2> DEFINE next == s.currentIndex + 1
             i == IF next >= Len(s.playlist) THEN 0 ELSE next
             t == [s EXCEPT !.currentIndex = i]
             o == Current(t)
  <2>1. s.currentIndex \in Nat /\ Len(s.playlist) \in Nat /\ Len(s.playlist) > 0
    BY <1>2, NonEmptyLength DEF WellFormed, App
  <2>2. i \in Nat /\ i < Len(s.playlist)
    BY <2>1
  <2>3. PlayerDidFinish(s) = IF NoSource(t.heap[o]) THEN Request(t, "manager", o, NoPage)
                             ELSE PlayWithSong(t, o)
    BY <1>2 DEF PlayerDidFinish
  <2> HIDE DEF i
  <2>4. WellFormed(t) /\ Ranged(t)
    BY <2>2 DEF WellFormed, App, Ranged, InRange
  <2> HIDE DEF t, o
  <2> QED
    BY <2>3, <2>4, PlayingUnmoved, UnmovedRanged
<1> QED
  BY <1>1, <1>2

(* changeToIndex sets an index of the list, whatever it is given.          *)
LEMMA ChangeToIndexRanged ==
  ASSUME NEW s, WellFormed(s), Listed(s), NEW p \in Pages, NEW i \in Nat
  PROVE  Ranged(ChangeToIndex(s, p, i))
<1>1. CASE s.playlist = <<>>
  BY <1>1 DEF ChangeToIndex, Listed, Ranged
<1>2. CASE s.playlist # <<>>
  <2> DEFINE n == Clamped(i, Len(s.playlist))
             a == /\ p # s.shown
                  /\ \/ s.apart
                     \/ s.shown # NoPage /\ s.pageIndex[s.shown] # n
             t == [s EXCEPT !.currentIndex = n, !.pageIndex[p] = n, !.apart = a]
  <2>1. a \in BOOLEAN
    BY DEF WellFormed, App
  <2>2. WellFormed(t) /\ InRange(t)
    BY <1>2, <2>1, IndexMoved
  <2>3. ChangeToIndex(s, p, i) =
          IF SameSong(t, t.heap[Current(t)]) /\ t.state = "Playing" THEN t
          ELSE PrepareAndPlay(Stop(t), p)
    BY <1>2, <2>2 DEF ChangeToIndex
  <2>4. t.emptied = s.emptied /\ t.crash = s.crash
    BY DEF WellFormed, App
  <2>5. Ranged(t)
    BY <2>2, <2>4 DEF Listed, Ranged
  <2> HIDE DEF t
  <2>6. WellFormed(Stop(t)) /\ Ranged(Stop(t))
    BY <2>2, <2>5, StopType, PlayingUnmoved, UnmovedRanged
  <2>7. Ranged(PrepareAndPlay(Stop(t), p))
    BY <2>6, PlayingUnmoved, UnmovedRanged
  <2> QED
    BY <2>3, <2>5, <2>7
<1> QED
  BY <1>1, <1>2

(* Opening a page clamps the index as well.                                *)
LEMMA OpenPageRanged ==
  ASSUME NEW s, WellFormed(s), Listed(s), NEW p \in Pages PROVE Ranged(OpenPage(s, p))
<1> DEFINE t == [s EXCEPT !.shown = p, !.pageIndex[p] = s.currentIndex]
<1>1. WellFormed(t) /\ s.currentIndex \in Nat
  BY DEF WellFormed, App
<1>2. Listed(t)
  BY DEF WellFormed, App, Listed
<1> HIDE DEF t
<1>3. Ranged(ChangeToIndex(t, p, s.currentIndex))
  BY <1>1, <1>2, ChangeToIndexRanged
<1> QED
  BY <1>3 DEF OpenPage, t

(* So do the swipes.                                                       *)
LEMMA SwipRanged ==
  ASSUME NEW s, WellFormed(s), Ranged(s), NEW p \in Pages
  PROVE  Ranged(HandleSwipToNext(s, p)) /\ Ranged(HandleSwipToPrevious(s, p))
<1>1. CASE s.playlist = <<>>
  BY <1>1 DEF HandleSwipToNext, HandleSwipToPrevious, ChangeToIndex
<1>2. CASE s.playlist # <<>>
  <2>1. Len(s.playlist) \in Nat /\ Len(s.playlist) > 0 /\ s.pageIndex[p] \in Nat
    BY <1>2, NonEmptyLength DEF WellFormed, App
  <2>2. s.pageIndex[p] + 1 \in Nat /\ s.pageIndex[p] - 1 + Len(s.playlist) \in Nat
    BY <2>1
  <2>3. /\ (s.pageIndex[p] + 1) % Len(s.playlist) \in Nat
        /\ (s.pageIndex[p] - 1 + Len(s.playlist)) % Len(s.playlist) \in Nat
    BY <2>1, <2>2, RemainderType
  <2> QED
    BY <2>3, RangedListed, ChangeToIndexRanged DEF HandleSwipToNext, HandleSwipToPrevious
<1> QED
  BY <1>1, <1>2

(* PlayFirst leaves the new object at the head, and the index on it. *)
LEMMA PlayFirstCurrent ==
  ASSUME NEW s, WellFormed(s), NEW o \in Objects, NEW m \in Model
  PROVE  LET t == PlayFirst(s, o, m)
         IN  /\ InRange(t) /\ Current(t) = o
             /\ t.item \in {s.item, o}
             /\ m.source # "none" => t.state = "Buffering"
             /\ t.emptied = s.emptied /\ t.crash = s.crash
<1> DEFINE a == Allocate(s, o, m)
           d == Dedupe(a, m.song)
           t == InsertFirst(d, o)
           u == PlayWithSong(t, o)
<1>1. WellFormed(a) /\ WellFormed(d) /\ WellFormed(t) /\ WellFormed(u)
  BY AllocateType, DedupeType, InsertFirstType, PlayWithSongType
<1>2. /\ a.item = s.item /\ a.emptied = s.emptied /\ a.crash = s.crash
      /\ a.heap[o] = m
  BY DEF WellFormed, App, Allocate
<1> HIDE DEF a
<1>3. /\ d.item = a.item /\ d.emptied = a.emptied /\ d.crash = a.crash
      /\ d.heap = a.heap
  BY <1>1 DEF WellFormed, App, Dedupe
<1> HIDE DEF d
<1>4. /\ t.item = d.item /\ t.emptied = d.emptied /\ t.crash = d.crash
      /\ t.heap = d.heap
  BY <1>1 DEF WellFormed, App, InsertFirst
<1>5. Len(t.playlist) = Len(d.playlist) + 1 /\ t.playlist[1] = o
  BY <1>1, InsertFirstType
<1>6. Len(d.playlist) \in Nat
  BY <1>1, LenProperties DEF WellFormed, App
<1> HIDE DEF t
<1>7. /\ u.playlist = t.playlist /\ u.emptied = t.emptied /\ u.crash = t.crash
  BY <1>1, PlayingUnmoved DEF Unmoved
<1>8. /\ u.item \in {t.item, o}
      /\ t.heap[o].source # "none" => u.state = "Buffering"
  BY <1>1, ZenonT(60) DEF WellFormed, App, PlayWithSong
<1> HIDE DEF u
<1> DEFINE v == [u EXCEPT !.currentIndex = 0]
<1>9. /\ v.currentIndex = 0 /\ v.playlist = u.playlist /\ v.item = u.item
      /\ v.state = u.state /\ v.emptied = u.emptied /\ v.crash = u.crash
  BY <1>1 DEF WellFormed, App
<1>10. PlayFirst(s, o, m) = v
  BY DEF PlayFirst, u, t, d, a
<1> HIDE DEF v
<1>11. InRange(v) /\ Current(v) = o
  BY <1>5, <1>6, <1>7, <1>9 DEF InRange, Current
<1> QED
  BY <1>2, <1>3, <1>4, <1>7, <1>8, <1>9, <1>10, <1>11

(* A replaced list is empty only if it counts as emptied.                  *)
LEMMA ReplaceListListed ==
  ASSUME NEW s, WellFormed(s), Listed(s), NEW os, NEW songs, NEW source
  PROVE  Listed(ReplaceList(s, os, songs, source))
BY DEF WellFormed, App, Listed, ReplaceList

(* An index past the end is only read of a list that was emptied. *)
LEMMA CrashedRanged ==
  ASSUME NEW s, WellFormed(s), Ranged(s), ~InRange(s)
  PROVE  Ranged(Crashed(s, "range"))
BY DEF WellFormed, App, Ranged, InRange, Crashed

(* playSong moves nothing.                                                 *)
LEMMA PlayCurrentRanged ==
  ASSUME NEW s, WellFormed(s), Ranged(s) PROVE Ranged(PlayCurrent(s))
BY CrashedRanged, PlayingUnmoved, UnmovedRanged DEF PlayCurrent

(* What a step leaves in range is in range after the release.              *)
LEMMA StepRanged ==
  ASSUME NEW s, WellFormed(s), Ranged(s), Step(s) PROVE ListInRange'
<1>1. /\ Released(s).playlist = s.playlist /\ Released(s).currentIndex = s.currentIndex
      /\ Released(s).emptied = s.emptied /\ Released(s).crash = s.crash
  BY DEF WellFormed, App, Released
<1>2. Ranged(Released(s))
  BY <1>1 DEF Ranged, InRange
<1> QED
  BY <1>2 DEF Ranged, Step, ListInRange, InRange

(* And what a touch leaves.                                                *)
LEMMA TouchRanged ==
  ASSUME NEW s, WellFormed(s), Ranged(s), Touch(s) PROVE ListInRange'
<1> DEFINE n == s.touches + 1
           t == [s EXCEPT !.touches = n]
<1>1. n \in Nat
  BY DEF WellFormed, App
<1> HIDE DEF n
<1>2. WellFormed(t)
  BY <1>1 DEF WellFormed, App
<1>3. Ranged(t)
  BY DEF WellFormed, App, Ranged, InRange
<1>4. Step(t)
  BY DEF Touch, n
<1> HIDE DEF t
<1> QED
  BY <1>2, <1>3, <1>4, StepRanged

(* The history the list starts with is not empty.                          *)
LEMMA RangeInit == Init => ListInRange
<1> SUFFICES ASSUME NEW songs \in SongLists \ {<<>>}, NEW os \in NewObjects(Empty, Len(songs)),
                    app = ReplaceList(Empty, os, songs, "null")
             PROVE  ListInRange
  BY DEF Init
<1>1. app.playlist = os /\ app.currentIndex = 0 /\ app.crash = "no"
  BY DEF ReplaceList, Empty
<1>2. Len(songs) \in Nat /\ Len(songs) > 0
  <2>1. songs \in Seq(Songs) /\ songs # <<>>
    BY PlayerAssumption
  <2> QED
    BY <2>1, LenProperties, EmptySeq
<1>3. os \in [1..Len(songs) -> Objects]
  BY DEF NewObjects, FreeObjects
<1>4. Len(os) = Len(songs)
  BY <1>2, <1>3
<1> QED
  BY <1>1, <1>2, <1>4 DEF ListInRange, InRange

(* The steps of the player and of the main queue keep the index in range.  *)
LEMMA RangePlayer ==
  ASSUME TypeOK, Ranged(app), ReadyToPlay \/ ItemFailed \/ SongEnds \/ RunBlock
  PROVE  ListInRange'
<1> WellFormed(app) /\ Ranged(app)
  BY DEF TypeOK
<1>1. CASE ReadyToPlay
  <2> DEFINE s == [app EXCEPT !.status = "ready"]
  <2>1. WellFormed(s) /\ Ranged(s)
    BY <1>1 DEF ReadyToPlay, WellFormed, App, Ranged, InRange
  <2>2. Step(Play(s))
    BY <1>1 DEF ReadyToPlay
  <2> HIDE DEF s
  <2>3. WellFormed(Play(s)) /\ Ranged(Play(s))
    BY <2>1, PlayType, PlayingUnmoved, UnmovedRanged
  <2> QED
    BY <2>2, <2>3, StepRanged
<1>2. CASE ItemFailed
  <2> DEFINE s == [app EXCEPT !.status = "failed", !.state = "Stopped"]
  <2>1. WellFormed(s) /\ Ranged(s)
    BY <1>2 DEF ItemFailed, WellFormed, App, MusicPlayerState, Ranged, InRange
  <2> QED
    BY <1>2, <2>1, StepRanged DEF ItemFailed
<1>3. CASE SongEnds
  <2> DEFINE e == [app EXCEPT !.status = "ended"]
             s == PlayerDidFinish(e)
             d == IF app.playlist = <<>> \/ app.apart THEN {} ELSE {s.currentIndex}
             t == [s EXCEPT !.due = d]
  <2>1. WellFormed(e) /\ Ranged(e)
    BY <1>3 DEF SongEnds, WellFormed, App, Ranged, InRange
  <2>2. Step(SongDidPlayToEnd(t))
    BY <1>3 DEF SongEnds
  <2> HIDE DEF e
  <2>3. WellFormed(s) /\ Ranged(s)
    BY <2>1, PlayerDidFinishType, PlayerDidFinishRanged
  <2> HIDE DEF s
  <2>4. d \in SUBSET Nat
    BY <2>3 DEF WellFormed, App
  <2> HIDE DEF d
  <2>5. WellFormed(t)
    BY <2>3, <2>4, DueType
  <2>7. Ranged(t)
    <3>1. /\ t.playlist = s.playlist /\ t.currentIndex = s.currentIndex
          /\ t.emptied = s.emptied /\ t.crash = s.crash
      BY <2>3 DEF WellFormed, App
    <3> QED
      BY <2>3, <3>1 DEF Ranged, InRange
  <2> HIDE DEF t
  <2>6. WellFormed(SongDidPlayToEnd(t)) /\ Ranged(SongDidPlayToEnd(t))
    BY <2>5, <2>7, SongDidPlayToEndType, PlayingUnmoved, UnmovedRanged
  <2> QED
    BY <2>2, <2>6, StepRanged
<1>4. CASE RunBlock
  <2> DEFINE b == Head(app.mainQueue)
             s == [app EXCEPT !.mainQueue = Tail(app.mainQueue)]
  <2>1. b \in Block /\ Tail(app.mainQueue) \in Seq(Block)
    BY <1>4, HeadTailProperties DEF RunBlock, WellFormed, App
  <2>2. WellFormed(s) /\ Ranged(s)
    BY <2>1 DEF WellFormed, App, Ranged, InRange
  <2>3. Step(IF b.op = "ended" THEN HandleSwipToNext(s, b.page) ELSE Answered(s, b))
    BY <1>4 DEF RunBlock
  <2>4. /\ b.op = "ended" => b.page \in Pages
        /\ b.op # "ended" => b.op = "answered"
    BY <2>1 DEF Block
  <2> HIDE DEF b, s
  <2>5. Ranged(Answered(s, b))
    BY <2>2, CrashedRanged, PlayingUnmoved, UnmovedRanged DEF Answered
  <2> QED
    BY <2>1, <2>2, <2>3, <2>4, <2>5, SwipType, SwipRanged, AnsweredType, StepRanged
<1> QED
  BY <1>1, <1>2, <1>3, <1>4

(* The answers of the network keep it in range.                            *)
LEMMA RangeAnswered ==
  ASSUME TypeOK, Ranged(app), NEW i \in DOMAIN app.fetches, FetchAnswered(i)
  PROVE  ListInRange'
<1> DEFINE f == app.fetches[i]
           s == [app EXCEPT !.fetches = Without(app.fetches, i)]
           u == [s EXCEPT !.heap[f.object].source = "url"]
<1>1. WellFormed(app) /\ Ranged(app)
  BY DEF TypeOK
<1>2. f \in Fetch /\ Without(app.fetches, i) \in Seq(Fetch)
  BY <1>1, WithoutType, ElementOfSeq DEF WellFormed, App
<1>3. WellFormed(s) /\ Ranged(s)
  BY <1>1, <1>2 DEF WellFormed, App, Ranged, InRange
<1> HIDE DEF f
<1>4. f.object \in Objects /\ f.page \in Pages \cup {NoPage}
  BY <1>2 DEF Fetch
<1>5. WellFormed(u) /\ Ranged(u)
  <2> HIDE DEF s
  <2>1. /\ WellFormed(u) /\ u.playlist = s.playlist
        /\ u.currentIndex = s.currentIndex /\ u.emptied = s.emptied /\ u.crash = s.crash
    BY <1>3, <1>4, URLArrives
  <2> HIDE DEF u
  <2> QED
    BY <1>3, <2>1 DEF Ranged, InRange
<1>7. CASE Step(s)
  BY <1>3, <1>7, StepRanged
<1>8. ASSUME NEW t \in {s, u},
             \/ f.by \in {"manager", "page"}
                /\ Step([t EXCEPT !.mainQueue = Append(t.mainQueue,
                     [op |-> "answered", by |-> f.by, object |-> f.object, page |-> f.page])])
             \/ f.by = "home" /\ Step(PlayCurrent(t))
             \/ f.by = "search" /\ t.shown # NoPage /\ Step(t)
             \/ f.by = "search" /\ t.shown = NoPage
                /\ \E p \in FreePages(t) : Step(OpenPage(t, p))
      PROVE  ListInRange'
  <2> WellFormed(t) /\ Ranged(t)
    BY <1>3, <1>5, <1>8
  <2>1. ASSUME f.by \in {"manager", "page"},
               Step([t EXCEPT !.mainQueue = Append(t.mainQueue,
                 [op |-> "answered", by |-> f.by, object |-> f.object, page |-> f.page])])
        PROVE  ListInRange'
    <3> DEFINE b == [op |-> "answered", by |-> f.by, object |-> f.object, page |-> f.page]
               q == Append(t.mainQueue, b)
               v == [t EXCEPT !.mainQueue = q]
    <3>1. b \in Block
      BY <1>4, <2>1 DEF Block
    <3> HIDE DEF b
    <3>2. q \in Seq(Block)
      BY <3>1 DEF WellFormed, App
    <3> HIDE DEF q
    <3>3. WellFormed(v) /\ Ranged(v)
      BY <3>2 DEF WellFormed, App, Ranged, InRange
    <3>4. Step(v)
      BY <2>1 DEF q, b
    <3> HIDE DEF v
    <3> QED
      BY <3>3, <3>4, StepRanged
  <2>2. CASE f.by = "home" /\ Step(PlayCurrent(t))
    BY <2>2, PlayCurrentType, PlayCurrentRanged, StepRanged
  <2>3. CASE Step(t)
    BY <2>3, StepRanged
  <2>4. ASSUME NEW p \in FreePages(t), Step(OpenPage(t, p)) PROVE ListInRange'
    BY <2>4, RangedListed, OpenPageType, OpenPageRanged, StepRanged DEF FreePages
  <2> QED
    BY <1>8, <2>1, <2>2, <2>3, <2>4
<1> QED
  BY <1>7, <1>8 DEF FetchAnswered, f

(* The touches on a player page and on the floating view keep it in range. *)
LEMMA RangePage ==
  ASSUME TypeOK, Ranged(app),
         PressNext \/ PressPrevious \/ PressSwitch \/ ClosePage \/ ReadCurrent
           \/ TapFloatingView \/ PressPlayerSwitches
  PROVE  ListInRange'
<1> WellFormed(app) /\ Ranged(app)
  BY DEF TypeOK
<1>1. app.shown # NoPage => app.shown \in Pages
  BY DEF WellFormed, App
<1>2. CASE PressNext \/ PressPrevious
  <2>1. WellFormed(Moved(app)) /\ Ranged(Moved(app))
    BY MovedType, PlayingUnmoved, UnmovedRanged
  <2> QED
    BY <1>1, <1>2, <2>1, SwipType, SwipRanged, TouchRanged DEF PressNext, PressPrevious
<1>3. CASE PressSwitch
  BY <1>3, PlayType, PlayingUnmoved, UnmovedRanged, TouchRanged DEF PressSwitch
<1>4. CASE ClosePage
  <2> DEFINE s == [app EXCEPT !.shown = NoPage, !.apart = FALSE]
  <2>a. WellFormed(s)
    BY ZenonT(60) DEF WellFormed, App
  <2>b. s.playlist = app.playlist /\ s.currentIndex = app.currentIndex
    BY DEF WellFormed, App
  <2>1. WellFormed(s) /\ Ranged(s)
    BY <2>a, <2>b DEF Ranged, InRange
  <2> QED
    BY <1>4, <2>1, TouchRanged DEF ClosePage
<1>5. CASE ReadCurrent
  <2>1. CASE ~InRange(app) /\ Touch(Crashed(app, "range"))
    BY <2>1, CrashedType, CrashedRanged, TouchRanged
  <2>2. CASE /\ app.shown # NoPage /\ app.pageIndex[app.shown] >= Len(app.playlist)
             /\ Touch(Crashed(app, "pageRange"))
    <3> DEFINE c == Crashed(app, "pageRange")
               n == c.touches + 1
               t == [c EXCEPT !.touches = n]
    <3>0. WellFormed(c)
      BY CrashedType
    <3> HIDE DEF c
    <3>1. n \in Nat
      BY <3>0 DEF WellFormed, App
    <3>2. Step(t)
      BY <2>2 DEF Touch, c
    <3>3. /\ c.playlist = app.playlist /\ c.currentIndex = app.currentIndex
          /\ c.emptied = app.emptied /\ c.shown = app.shown /\ c.pageIndex = app.pageIndex
      BY DEF c, Crashed, WellFormed, App
    <3> HIDE DEF n
    <3>a. WellFormed(t)
      BY <3>0, <3>1, ZenonT(60) DEF WellFormed, App
    <3>4. /\ t.playlist = c.playlist /\ t.currentIndex = c.currentIndex
          /\ t.emptied = c.emptied /\ t.shown = c.shown /\ t.pageIndex = c.pageIndex
      BY <3>0 DEF WellFormed, App
    <3>5. t.crash = "pageRange"
      BY DEF c, Crashed, WellFormed, App
    <3> HIDE DEF t
    <3>6. /\ app'.playlist = t.playlist /\ app'.currentIndex = t.currentIndex
          /\ app'.emptied = t.emptied /\ app'.shown = t.shown /\ app'.crash = t.crash
          /\ app'.pageIndex = [p \in Pages |-> IF p \in FreePages(t) THEN 0 ELSE t.pageIndex[p]]
      BY <3>2, <3>a DEF Step, Released, WellFormed, App
    <3>7. app'.pageIndex[app'.shown] = app.pageIndex[app.shown]
      BY <1>1, <2>2, <3>3, <3>4, <3>6 DEF FreePages
    <3> QED
      BY <2>2, <3>3, <3>4, <3>5, <3>6, <3>7 DEF ListInRange, Ranged, InRange
  <2> QED
    BY <1>5, <2>1, <2>2 DEF ReadCurrent
<1>6. CASE TapFloatingView
  BY <1>6, RangedListed, OpenPageType, OpenPageRanged, TouchRanged DEF TapFloatingView, FreePages
<1>7. CASE PressPlayerSwitches
  <2>1. CASE ~InRange(app)
    BY <1>7, <2>1, CrashedType, CrashedRanged, TouchRanged DEF PressPlayerSwitches
  <2>2. CASE InRange(app)
    <3>1. /\ WellFormed(Request(app, "home", Current(app), NoPage))
          /\ Ranged(Request(app, "home", Current(app), NoPage))
      BY <2>2, CurrentType, RequestType, PlayingUnmoved, UnmovedRanged
    <3> QED
      BY <1>7, <2>2, <3>1, PlayType, PlayingUnmoved, UnmovedRanged, TouchRanged
         DEF PressPlayerSwitches
  <2> QED
    BY <2>1, <2>2
<1> QED
  BY <1>2, <1>3, <1>4, <1>5, <1>6, <1>7

(* Whoever shortens the list moves the index, or lengthens the list again. *)
LEMMA RangePick ==
  ASSUME TypeOK, Ranged(app),
         PickCached \/ PickDownloaded \/ PlayAllDownloads \/ PickInList
           \/ PlayList \/ PickFound \/ PressRecommended \/ Land
  PROVE  ListInRange'
<1>0. WellFormed(app) /\ Ranged(app) /\ Listed(app)
  BY RangedListed DEF TypeOK
<1> FreeObjects(app) \subseteq Objects /\ FreePages(app) \subseteq Pages
  BY DEF FreeObjects, FreePages
<1>1. \A song \in Songs, source \in Source : [song |-> song, source |-> source] \in Model
  BY DEF Model
<1>2. {"null", "none", "url", "file"} = Source
  BY DEF Source
<1>3. CASE PickCached \/ PickDownloaded
  <2>1. PICK source \in {"null", "file"} : PickKept(source)
    BY <1>3 DEF PickCached, PickDownloaded
  <2>2. PICK song \in Songs, o \in FreeObjects(app), p \in FreePages(app) :
          Touch(OpenPage(PlayFirst(app, o, [song |-> song, source |-> source]), p))
    BY <2>1 DEF PickKept
  <2> DEFINE m == [song |-> song, source |-> source]
             s == PlayFirst(app, o, m)
  <2>3. m \in Model
    BY <1>1, <1>2
  <2> HIDE DEF m
  <2>4. WellFormed(s) /\ InRange(s) /\ s.emptied = app.emptied /\ s.crash = app.crash
    BY <1>0, <2>3, PlayFirstType, PlayFirstCurrent
  <2>5. Touch(OpenPage(s, p))
    BY <2>2 DEF m
  <2> HIDE DEF s
  <2>6. Ranged(s)
    BY <1>0, <2>4 DEF Ranged
  <2> QED
    BY <2>4, <2>5, <2>6, RangedListed, OpenPageType, OpenPageRanged, TouchRanged
<1>4. CASE PlayAllDownloads
  <2>0. PICK songs \in SongLists : \E os \in NewObjects(app, Len(songs)) :
          Touch(PlayCurrent([ReplaceList(Stop(app), os, songs, "file")
                               EXCEPT !.currentIndex = 0]))
    BY <1>4 DEF PlayAllDownloads
  <2>1. PICK os \in NewObjects(app, Len(songs)) :
          Touch(PlayCurrent([ReplaceList(Stop(app), os, songs, "file")
                               EXCEPT !.currentIndex = 0]))
    BY <2>0
  <2> DEFINE u == ReplaceList(Stop(app), os, songs, "file")
             t == [u EXCEPT !.currentIndex = 0]
  <2>2. WellFormed(Stop(app)) /\ Listed(Stop(app))
    BY <1>0, StopType, PlayingUnmoved DEF Unmoved, Listed
  <2>3. os \in NewObjects(Stop(app), Len(songs))
    BY <1>0, StopNewObjects
  <2>4. WellFormed(u) /\ Listed(u)
    BY <1>2, <2>2, <2>3, ReplaceListType, ReplaceListListed
  <2> HIDE DEF u
  <2>5. WellFormed(t)
    BY <2>4 DEF WellFormed, App
  <2>6. Ranged(t)
    <3>1. /\ t.playlist = u.playlist /\ t.currentIndex = 0
          /\ t.emptied = u.emptied /\ t.crash = u.crash
      BY <2>4 DEF WellFormed, App
    <3>2. u.playlist # <<>> => Len(u.playlist) > 0
      BY <2>4, NonEmptyLength DEF WellFormed, App
    <3> QED
      BY <2>4, <3>1, <3>2 DEF Ranged, Listed, InRange
  <2>7. Touch(PlayCurrent(t))
    BY <2>1 DEF u
  <2> HIDE DEF t
  <2> QED
    BY <2>5, <2>6, <2>7, PlayCurrentType, PlayCurrentRanged, TouchRanged
<1>5. CASE PickInList
  <2>1. PICK song \in Songs, o \in FreeObjects(app), p \in FreePages(app) :
          LET s == Allocate(app, o, [song |-> song, source |-> "null"])
              n == Len(app.playlist)
              t == InsertFirst(IF n \in Matches(app, song)
                               THEN [s EXCEPT !.playlist = Without(s.playlist, n)] ELSE s, o)
          IN  Touch(IF \E i \in Matches(app, song) : i < n THEN Crashed(s, "mutated")
                    ELSE IF ~InRange(t) THEN Crashed(t, "range")
                    ELSE OpenPage(t, p))
    BY <1>5 DEF PickInList
  <2> DEFINE s == Allocate(app, o, [song |-> song, source |-> "null"])
             n == Len(app.playlist)
             w == Without(s.playlist, n)
             r == [s EXCEPT !.playlist = w]
             q == IF n \in Matches(app, song) THEN r ELSE s
             t == InsertFirst(q, o)
  <2>2. WellFormed(s)
    BY <1>0, <1>1, <1>2, AllocateType
  <2>3. /\ s.playlist = app.playlist /\ s.currentIndex = app.currentIndex
        /\ s.emptied = app.emptied /\ s.crash = app.crash
    BY <1>0 DEF Allocate, WellFormed, App
  <2>4. n \in Matches(app, song) => n \in DOMAIN s.playlist
    BY <2>3 DEF Matches
  <2>5. Touch(IF \E i \in Matches(app, song) : i < n THEN Crashed(s, "mutated")
              ELSE IF ~InRange(t) THEN Crashed(t, "range")
              ELSE OpenPage(t, p))
    BY <2>1
  <2>6. n \in Nat /\ n = Len(s.playlist)
    BY <1>0, <2>3, LenProperties DEF WellFormed, App
  <2> HIDE DEF s, n
  <2>7. n \in Matches(app, song) => w \in Seq(Objects) /\ Len(w) = n - 1
    BY <2>2, <2>4, <2>6, WithoutType DEF WellFormed, App
  <2> HIDE DEF w
  <2>8. /\ WellFormed(q) /\ Len(q.playlist) >= n - 1 /\ Len(q.playlist) \in Nat
        /\ q.currentIndex = s.currentIndex /\ q.emptied = s.emptied /\ q.crash = s.crash
    <3>1. CASE n \in Matches(app, song)
      <4>1. w \in Seq(Objects) /\ Len(w) = n - 1
        BY <2>7, <3>1
      <4>2. WellFormed(r) /\ r.playlist = w
        BY <2>2, <4>1 DEF WellFormed, App
      <4>3. r.currentIndex = s.currentIndex /\ r.emptied = s.emptied /\ r.crash = s.crash
        BY <2>2 DEF WellFormed, App
      <4>4. Len(w) >= n - 1 /\ Len(w) \in Nat
        BY <2>6, <4>1, LenProperties
      <4>5. q = r
        BY <3>1
      <4> HIDE DEF q, r
      <4> QED
        BY <4>2, <4>3, <4>4, <4>5
    <3>2. CASE n \notin Matches(app, song)
      BY <2>2, <2>6, <3>2
    <3> QED
      BY <3>1, <3>2
  <2> HIDE DEF q
  <2>9. WellFormed(t) /\ Len(t.playlist) = Len(q.playlist) + 1
    BY <2>8, InsertFirstType
  <2>10. t.currentIndex = q.currentIndex /\ t.emptied = q.emptied /\ t.crash = q.crash
    BY <2>8 DEF InsertFirst, WellFormed, App
  <2> HIDE DEF t
  <2>11. app.currentIndex \in Nat /\ Len(app.playlist) = n
    BY <1>0, <2>3, <2>6 DEF WellFormed, App
  <2>12. Ranged(t)
    BY <1>0, <2>3, <2>6, <2>8, <2>9, <2>10, <2>11 DEF Ranged, InRange
  <2>13. Ranged(Crashed(s, "mutated"))
    BY <1>0, <2>2, <2>3 DEF Ranged, InRange, Crashed, WellFormed, App
  <2>14. /\ WellFormed(Crashed(s, "mutated")) /\ WellFormed(Crashed(t, "range"))
         /\ WellFormed(OpenPage(t, p)) /\ Ranged(OpenPage(t, p))
    BY <2>2, <2>9, <2>12, CrashedType, OpenPageType, RangedListed, OpenPageRanged
  <2>15. ~InRange(t) => Ranged(Crashed(t, "range"))
    BY <2>9, <2>12, CrashedRanged
  <2> QED
    BY <2>5, <2>13, <2>14, <2>15, TouchRanged
<1>6. CASE PlayList
  <2>0. PICK songs \in SongLists : \E os \in NewObjects(app, Len(songs)) :
          \E p \in FreePages(app) : Touch(OpenPage(ReplaceList(app, os, songs, "null"), p))
    BY <1>6 DEF PlayList
  <2>1. PICK os \in NewObjects(app, Len(songs)), p \in FreePages(app) :
          Touch(OpenPage(ReplaceList(app, os, songs, "null"), p))
    BY <2>0
  <2>2. /\ WellFormed(ReplaceList(app, os, songs, "null"))
        /\ Listed(ReplaceList(app, os, songs, "null"))
    BY <1>0, <1>2, ReplaceListType, ReplaceListListed
  <2> QED
    BY <2>1, <2>2, OpenPageType, OpenPageRanged, TouchRanged
<1>7. CASE PickFound
  <2>1. PICK song \in Songs, o \in FreeObjects(app) :
          LET s == InsertFirst(Allocate(app, o, [song |-> song, source |-> "null"]), o)
          IN  Touch(Request([s EXCEPT !.currentIndex = 0], "search", o, NoPage))
    BY <1>7 DEF PickFound
  <2> DEFINE a == Allocate(app, o, [song |-> song, source |-> "null"])
             s == InsertFirst(a, o)
             t == [s EXCEPT !.currentIndex = 0]
  <2>2. WellFormed(a)
    BY <1>0, <1>1, <1>2, AllocateType
  <2>3. a.emptied = app.emptied /\ a.crash = app.crash
    BY <1>0 DEF Allocate, WellFormed, App
  <2> HIDE DEF a
  <2>4. WellFormed(s) /\ Len(s.playlist) = Len(a.playlist) + 1
    BY <2>2, InsertFirstType
  <2>5. s.emptied = a.emptied /\ s.crash = a.crash
    BY <2>2 DEF InsertFirst, WellFormed, App
  <2>6. Len(a.playlist) \in Nat
    BY <2>2, LenProperties DEF WellFormed, App
  <2> HIDE DEF s
  <2>7. WellFormed(t)
    BY <2>4 DEF WellFormed, App
  <2>8. Ranged(t)
    <3>1. /\ t.playlist = s.playlist /\ t.currentIndex = 0
          /\ t.emptied = s.emptied /\ t.crash = s.crash
      BY <2>4 DEF WellFormed, App
    <3> QED
      BY <1>0, <2>3, <2>4, <2>5, <2>6, <3>1 DEF Ranged, InRange
  <2>9. Touch(Request(t, "search", o, NoPage))
    BY <2>1 DEF s, a
  <2> HIDE DEF t
  <2>10. /\ WellFormed(Request(t, "search", o, NoPage))
         /\ Ranged(Request(t, "search", o, NoPage))
    BY <2>7, <2>8, RequestType, PlayingUnmoved, UnmovedRanged
  <2> QED
    BY <2>9, <2>10, TouchRanged
<1>8. CASE PressRecommended
  <2>1. PICK song \in Songs, source \in {"none", "url"} :
          Touch([app EXCEPT !.flying = <<[song |-> song, source |-> source]>>])
    BY <1>8 DEF PressRecommended
  <2> DEFINE m == [song |-> song, source |-> source]
  <2>2. <<m>> \in Seq(Model)
    BY <1>1, <1>2
  <2> HIDE DEF m
  <2>3. WellFormed([app EXCEPT !.flying = <<m>>])
    BY <1>0, <2>2 DEF WellFormed, App
  <2>4. Ranged([app EXCEPT !.flying = <<m>>])
    BY <1>0 DEF WellFormed, App, Ranged, InRange
  <2> QED
    BY <2>1, <2>3, <2>4, TouchRanged DEF m
<1>9. CASE Land
  <2>1. PICK o \in FreeObjects(app) :
          LET s == PlayFirst([app EXCEPT !.flying = Tail(app.flying)], o, Head(app.flying))
          IN  Step(Play([s EXCEPT !.apart = app.shown # NoPage]))
    BY <1>9 DEF Land
  <2>2. Head(app.flying) \in Model /\ Tail(app.flying) \in Seq(Model)
    BY <1>0, <1>9, HeadTailProperties DEF Land, WellFormed, App
  <2> DEFINE f == [app EXCEPT !.flying = Tail(app.flying)]
             s == PlayFirst(f, o, Head(app.flying))
             a == app.shown # NoPage
             t == [s EXCEPT !.apart = a]
  <2>3. WellFormed(f) /\ f.emptied = app.emptied /\ f.crash = app.crash
    BY <1>0, <2>2 DEF WellFormed, App
  <2> HIDE DEF f
  <2>4. /\ WellFormed(s) /\ a \in BOOLEAN /\ InRange(s)
        /\ s.emptied = f.emptied /\ s.crash = f.crash
    BY <2>2, <2>3, PlayFirstType, PlayFirstCurrent
  <2> HIDE DEF s, a
  <2>5. WellFormed(t)
    BY <2>4 DEF WellFormed, App
  <2>6. Ranged(t)
    <3>1. /\ t.playlist = s.playlist /\ t.currentIndex = s.currentIndex
          /\ t.emptied = s.emptied /\ t.crash = s.crash
      BY <2>4 DEF WellFormed, App
    <3> QED
      BY <1>0, <2>3, <2>4, <3>1 DEF Ranged, InRange
  <2>7. Step(Play(t))
    BY <2>1 DEF s, a, f
  <2> HIDE DEF t
  <2>8. WellFormed(Play(t)) /\ Ranged(Play(t))
    BY <2>5, <2>6, PlayType, PlayingUnmoved, UnmovedRanged
  <2> QED
    BY <2>7, <2>8, StepRanged
<1> QED
  BY <1>3, <1>4, <1>5, <1>6, <1>7, <1>8, <1>9

(* An exception has ended the app.                                         *)
LEMMA NextRuns == Next => app.crash = "no"
<1> SUFFICES ASSUME Next PROVE app.crash = "no"
  OBVIOUS
<1>1. CASE ReadyToPlay \/ ItemFailed \/ SongEnds \/ RunBlock
  BY <1>1 DEF ReadyToPlay, ItemFailed, SongEnds, RunBlock, Step
<1>2. CASE \E i \in DOMAIN app.fetches : FetchAnswered(i)
  BY <1>2 DEF FetchAnswered, Step
<1>3. CASE PressNext \/ PressPrevious \/ PressSwitch \/ ClosePage \/ ReadCurrent
             \/ TapFloatingView \/ PressPlayerSwitches
  BY <1>3 DEF PressNext, PressPrevious, PressSwitch, ClosePage, ReadCurrent,
              TapFloatingView, PressPlayerSwitches, Touch, Step
<1>4. CASE PickCached \/ PickDownloaded \/ PlayAllDownloads \/ PlayList
  BY <1>4 DEF PickCached, PickDownloaded, PickKept, PlayAllDownloads, PlayList, Touch, Step
<1>5. CASE PickInList
  BY <1>5 DEF PickInList, Touch, Step
<1>6. CASE PickFound \/ PressRecommended \/ Land
  BY <1>6 DEF PickFound, PressRecommended, Land, Touch, Step
<1> QED
  BY <1>1, <1>2, <1>3, <1>4, <1>5, <1>6 DEF Next

(* Every step keeps the index in range.                                    *)
LEMMA RangeNext == TypeOK /\ ListInRange /\ [Next]_app => ListInRange'
<1> SUFFICES ASSUME TypeOK, ListInRange, [Next]_app PROVE ListInRange'
  OBVIOUS
<1>1. CASE UNCHANGED app
  BY <1>1 DEF ListInRange, InRange
<1>2. CASE Next
  <2>1. Ranged(app)
    BY <1>2, NextRuns DEF ListInRange, Ranged
  <2> QED
    BY <1>2, <2>1, RangePlayer, RangeAnswered, RangePage, RangePick DEF Next
<1> QED
  BY <1>1, <1>2

----------------------------------------------------------------------------
(* What starts to play. *)

(* The item is the list's current song. *)
Fits(s) == InRange(s) /\ s.heap[s.item].song = s.heap[Current(s)].song

(* Since the item was old, nothing but the current song has been started. *)
Starts(old, s) == s.item \in {old, NoObject} \/ Fits(s)

(* A routine that leaves the item alone as well. *)
Kept(s, t) == Unmoved(s, t) /\ t.item = s.item

(* Such a routine starts nothing.                                          *)
LEMMA KeptStarts ==
  ASSUME NEW s, NEW t, Kept(s, t), NEW old, Starts(old, s) PROVE Starts(old, t)
BY DEF Kept, Unmoved, Starts, Fits, InRange, Current

(* Play, pause and requests are such routines.                             *)
LEMMA PlayingKept ==
  ASSUME NEW s, WellFormed(s)
  PROVE  /\ Kept(s, Play(s)) /\ Kept(s, Pause(s)) /\ Kept(s, Moved(s))
         /\ Kept(s, SongDidPlayToEnd(s))
         /\ \A o, by, p : Kept(s, Request(s, by, o, p))
<1>1. /\ Play(s).item = s.item /\ Pause(s).item = s.item /\ Moved(s).item = s.item
      /\ SongDidPlayToEnd(s).item = s.item
  BY DEF WellFormed, App, Play, Pause, Moved, SongDidPlayToEnd
<1>2. \A o, by, p : Request(s, by, o, p).item = s.item
  BY DEF WellFormed, App, Request
<1> QED
  BY <1>1, <1>2, PlayingUnmoved DEF Kept

(* Playing an object of the current song starts the current song.          *)
LEMMA PlayWithSongStarts ==
  ASSUME NEW s, WellFormed(s), NEW old, Starts(old, s), NEW o \in Objects,
         InRange(s), s.heap[o].song = s.heap[Current(s)].song
  PROVE  Starts(old, PlayWithSong(s, o))
<1> DEFINE t == PlayWithSong(s, o)
<1>1. t.item = s.item \/ t.item = o
  BY DEF WellFormed, App, PlayWithSong
<1>2. Unmoved(s, t)
  BY PlayingUnmoved
<1> HIDE DEF t
<1>3. InRange(t) /\ t.heap[Current(t)].song = s.heap[Current(s)].song /\ t.heap = s.heap
  BY <1>2 DEF Unmoved, InRange, Current
<1>4. ASSUME t.item = o PROVE Starts(old, t)
  <2>1. Fits(t)
    BY <1>3, <1>4 DEF Fits
  <2> QED
    BY <2>1 DEF Starts
<1>5. ASSUME t.item = s.item PROVE Starts(old, t)
  BY <1>2, <1>5, KeptStarts DEF Kept
<1> QED
  BY <1>1, <1>4, <1>5 DEF t

(* The manager plays the song it has advanced to, or asks for its URL.     *)
LEMMA PlayerDidFinishStarts ==
  ASSUME NEW s, WellFormed(s) PROVE Starts(s.item, PlayerDidFinish(s))
<1>1. CASE s.playlist = <<>>
  BY <1>1 DEF PlayerDidFinish, Starts
<1>2. CASE s.playlist # <<>>
  <2> DEFINE next == s.currentIndex + 1
             i == IF next >= Len(s.playlist) THEN 0 ELSE next
             t == [s EXCEPT !.currentIndex = i]
             o == Current(t)
  <2>1. s.currentIndex \in Nat /\ Len(s.playlist) \in Nat /\ Len(s.playlist) > 0
    BY <1>2, NonEmptyLength DEF WellFormed, App
  <2>2. i \in Nat /\ i < Len(s.playlist)
    BY <2>1
  <2>3. PlayerDidFinish(s) = IF NoSource(t.heap[o]) THEN Request(t, "manager", o, NoPage)
                             ELSE PlayWithSong(t, o)
    BY <1>2 DEF PlayerDidFinish
  <2> HIDE DEF i
  <2>4. WellFormed(t) /\ InRange(t) /\ t.item = s.item
    BY <2>2 DEF WellFormed, App, InRange
  <2> HIDE DEF t
  <2>5. o \in Objects /\ Starts(s.item, t)
    BY <2>4, CurrentType DEF Starts
  <2> QED
    BY <2>3, <2>4, <2>5, PlayingKept, KeptStarts, PlayWithSongStarts
<1> QED
  BY <1>1, <1>2

(* changeToIndex stops the player, starts the song at the index it sets,   *)
(* or lets what plays play on.                                             *)
LEMMA ChangeToIndexStarts ==
  ASSUME NEW s, WellFormed(s), NEW p \in Pages, NEW i \in Nat
  PROVE  LET t == ChangeToIndex(s, p, i)
         IN  \/ t.item = NoObject
             \/ Fits(t)
             \/ /\ t.item = s.item /\ t.playlist = s.playlist /\ t.heap = s.heap
                /\ t.currentIndex \in {s.currentIndex, Clamped(i, Len(s.playlist))}
<1>1. CASE s.playlist = <<>>
  BY <1>1 DEF ChangeToIndex
<1>2. CASE s.playlist # <<>>
  <2> DEFINE n == Clamped(i, Len(s.playlist))
             a == /\ p # s.shown
                  /\ \/ s.apart
                     \/ s.shown # NoPage /\ s.pageIndex[s.shown] # n
             t == [s EXCEPT !.currentIndex = n, !.pageIndex[p] = n, !.apart = a]
             u == Stop(t)
             o == u.playlist[u.pageIndex[p] + 1]
  <2>1. a \in BOOLEAN
    BY DEF WellFormed, App
  <2>2. WellFormed(t) /\ InRange(t)
    BY <1>2, <2>1, IndexMoved
  <2>3. ChangeToIndex(s, p, i) =
          IF SameSong(t, t.heap[Current(t)]) /\ t.state = "Playing" THEN t
          ELSE PrepareAndPlay(u, p)
    BY <1>2, <2>2 DEF ChangeToIndex
  <2>4. /\ t.item = s.item /\ t.playlist = s.playlist /\ t.heap = s.heap
        /\ t.currentIndex = n /\ t.pageIndex[p] = n
    BY DEF WellFormed, App
  <2> HIDE DEF t, n
  <2>5. /\ WellFormed(u) /\ u.item = NoObject /\ u.currentIndex = t.currentIndex
        /\ u.pageIndex = t.pageIndex /\ InRange(u)
    BY <2>2, StopType DEF WellFormed, App, Stop, InRange
  <2> HIDE DEF u
  <2>6. o = Current(u) /\ o \in Objects
    BY <2>4, <2>5, CurrentType DEF Current
  <2>7. Starts(NoObject, u)
    BY <2>5 DEF Starts
  <2> HIDE DEF o
  <2>8. /\ Starts(NoObject, PlayWithSong(u, o))
        /\ Starts(NoObject, Request(u, "page", o, p))
    BY <2>5, <2>6, <2>7, PlayWithSongStarts, PlayingKept, KeptStarts
  <2>9. Starts(NoObject, PrepareAndPlay(u, p))
    BY <2>8 DEF PrepareAndPlay, o
  <2> QED
    BY <2>3, <2>4, <2>9 DEF Starts, n
<1> QED
  BY <1>1, <1>2

(* Opening a page starts the current song, or lets it play on.             *)
LEMMA OpenPageStarts ==
  ASSUME NEW s, WellFormed(s), NEW old, Starts(old, s), NEW p \in Pages
  PROVE  Starts(old, OpenPage(s, p))
<1> DEFINE t == [s EXCEPT !.shown = p, !.pageIndex[p] = s.currentIndex]
           u == ChangeToIndex(t, p, s.currentIndex)
<1>1. WellFormed(t) /\ s.currentIndex \in Nat
  BY DEF WellFormed, App
<1>2. /\ t.item = s.item /\ t.playlist = s.playlist /\ t.heap = s.heap
      /\ t.currentIndex = s.currentIndex
  BY DEF WellFormed, App
<1>3. OpenPage(s, p) = u
  BY DEF OpenPage
<1> HIDE DEF t
<1>4. \/ u.item = NoObject
      \/ Fits(u)
      \/ /\ u.item = t.item /\ u.playlist = t.playlist /\ u.heap = t.heap
         /\ u.currentIndex \in {t.currentIndex, Clamped(s.currentIndex, Len(t.playlist))}
  BY <1>1, ChangeToIndexStarts
<1> HIDE DEF u
<1>5. Len(s.playlist) \in Nat
  BY LenProperties DEF WellFormed, App
<1>6. InRange(s) => Clamped(s.currentIndex, Len(s.playlist)) = s.currentIndex
  BY <1>1, <1>5 DEF InRange, Clamped
<1>7. CASE s.item \in {old, NoObject}
  BY <1>2, <1>3, <1>4, <1>7 DEF Starts
<1>8. CASE Fits(s)
  <2>1. CASE u.item = NoObject \/ Fits(u)
    BY <1>3, <2>1 DEF Starts
  <2>2. CASE /\ u.item = t.item /\ u.playlist = t.playlist /\ u.heap = t.heap
             /\ u.currentIndex \in {t.currentIndex, Clamped(s.currentIndex, Len(t.playlist))}
    <3>1. u.currentIndex = s.currentIndex
      BY <1>2, <1>6, <1>8, <2>2 DEF Fits
    <3>2. Fits(u)
      BY <1>2, <1>8, <2>2, <3>1 DEF Fits, InRange, Current
    <3> QED
      BY <1>3, <3>2 DEF Starts
  <2> QED
    BY <1>4, <2>1, <2>2
<1> QED
  BY <1>7, <1>8 DEF Starts

(* A swipe starts the song it moves to.                                    *)
LEMMA SwipStarts ==
  ASSUME NEW s, WellFormed(s), NEW p \in Pages
  PROVE  Starts(s.item, HandleSwipToNext(s, p)) /\ Starts(s.item, HandleSwipToPrevious(s, p))
<1>1. CASE s.playlist = <<>>
  BY <1>1 DEF HandleSwipToNext, HandleSwipToPrevious, ChangeToIndex, Starts
<1>2. CASE s.playlist # <<>>
  <2>1. Len(s.playlist) \in Nat /\ Len(s.playlist) > 0 /\ s.pageIndex[p] \in Nat
    BY <1>2, NonEmptyLength DEF WellFormed, App
  <2>2. s.pageIndex[p] + 1 \in Nat /\ s.pageIndex[p] - 1 + Len(s.playlist) \in Nat
    BY <2>1
  <2>3. /\ (s.pageIndex[p] + 1) % Len(s.playlist) \in Nat
        /\ (s.pageIndex[p] - 1 + Len(s.playlist)) % Len(s.playlist) \in Nat
    BY <2>1, <2>2, RemainderType
  <2> QED
    BY <2>3, ChangeToIndexStarts DEF HandleSwipToNext, HandleSwipToPrevious, Starts
<1> QED
  BY <1>1, <1>2

(* The object moved to the head is current.                                *)
LEMMA PlayFirstStarts ==
  ASSUME NEW s, WellFormed(s), NEW o \in Objects, NEW m \in Model
  PROVE  Starts(s.item, PlayFirst(s, o, m))
<1> DEFINE t == PlayFirst(s, o, m)
<1>1. InRange(t) /\ Current(t) = o /\ t.item \in {s.item, o}
  BY PlayFirstCurrent
<1> HIDE DEF t
<1>2. Starts(s.item, t)
  BY <1>1 DEF Starts, Fits
<1> QED
  BY <1>2 DEF t

(* playSong starts the current song.                                       *)
LEMMA PlayCurrentStarts ==
  ASSUME NEW s, WellFormed(s), NEW old, Starts(old, s)
  PROVE  Starts(old, PlayCurrent(s))
<1>1. CASE InRange(s)
  BY <1>1, CurrentType, PlayWithSongStarts DEF PlayCurrent
<1>2. CASE ~InRange(s)
  <2>1. /\ Crashed(s, "range").item = s.item /\ Crashed(s, "range").playlist = s.playlist
        /\ Crashed(s, "range").heap = s.heap
        /\ Crashed(s, "range").currentIndex = s.currentIndex
    BY DEF WellFormed, App, Crashed
  <2>2. Starts(old, Crashed(s, "range"))
    BY <2>1 DEF Starts, Fits, InRange, Current
  <2> QED
    BY <1>2, <2>2 DEF PlayCurrent
<1> QED
  BY <1>1, <1>2

(* What StartsCurrent says of a step. *)
StartsCurrentStep ==
  (app'.item # app.item /\ app'.item # NoObject)
    => InRange(app') /\ app'.heap[app'.item].song = app'.heap[Current(app')].song

(* The objects of the list and of the item are not released. *)
LEMMA StepStarts ==
  ASSUME NEW s, WellFormed(s), Starts(app.item, s), Step(s) PROVE StartsCurrentStep
<1> DEFINE t == Released(s)
<1>1. t.playlist = s.playlist /\ t.currentIndex = s.currentIndex /\ t.item = s.item
  BY DEF WellFormed, App, Released
<1>2. \A o \in Objects : o \in HeldObjects(s) => t.heap[o] = s.heap[o]
  BY DEF WellFormed, App, Released
<1> HIDE DEF t
<1>3. s.item \in HeldObjects(s)
  BY DEF HeldObjects
<1>4. InRange(s) => Current(s) \in HeldObjects(s) /\ Current(s) \in Objects
  <2> SUFFICES ASSUME InRange(s) PROVE Current(s) \in HeldObjects(s) /\ Current(s) \in Objects
    OBVIOUS
  <2>1. s.currentIndex + 1 \in DOMAIN s.playlist
    BY LenProperties DEF WellFormed, App, InRange
  <2>2. Current(s) \in RangeOf(s.playlist)
    BY <2>1 DEF Current, RangeOf
  <2> QED
    BY <2>2, CurrentType DEF HeldObjects
<1>5. CASE s.item \in {app.item, NoObject}
  BY <1>1, <1>5 DEF StartsCurrentStep, Step, t
<1>6. CASE Fits(s) /\ s.item \in Objects
  <2>1. InRange(t) /\ Current(t) = Current(s)
    BY <1>1, <1>6 DEF Fits, InRange, Current
  <2>2. t.heap[t.item].song = t.heap[Current(t)].song
    BY <1>1, <1>2, <1>3, <1>4, <1>6, <2>1 DEF Fits
  <2> QED
    BY <2>1, <2>2 DEF StartsCurrentStep, Step, t
<1> QED
  BY <1>5, <1>6 DEF Starts, WellFormed, App

(* And a touch, which is counted.                                          *)
LEMMA TouchStarts ==
  ASSUME NEW s, WellFormed(s), Starts(app.item, s), Touch(s) PROVE StartsCurrentStep
<1> DEFINE n == s.touches + 1
           t == [s EXCEPT !.touches = n]
<1>1. n \in Nat
  BY DEF WellFormed, App
<1> HIDE DEF n
<1>2. WellFormed(t)
  BY <1>1 DEF WellFormed, App
<1>3. /\ t.playlist = s.playlist /\ t.currentIndex = s.currentIndex /\ t.item = s.item
      /\ t.heap = s.heap
  BY DEF WellFormed, App
<1>4. Step(t)
  BY DEF Touch, n
<1> HIDE DEF t
<1>5. Starts(app.item, t)
  BY <1>3 DEF Starts, Fits, InRange, Current
<1> QED
  BY <1>2, <1>4, <1>5, StepStarts

(* The player and the blocks of the main queue start the current song      *)
(* only.                                                                   *)
LEMMA StartsPlayer ==
  ASSUME TypeOK, ReadyToPlay \/ ItemFailed \/ SongEnds \/ RunBlock
  PROVE  StartsCurrentStep
<1> WellFormed(app)
  BY DEF TypeOK
<1>1. CASE ReadyToPlay
  <2> DEFINE s == [app EXCEPT !.status = "ready"]
  <2>1. WellFormed(s) /\ s.item = app.item
    BY <1>1 DEF ReadyToPlay, WellFormed, App
  <2>2. Step(Play(s))
    BY <1>1 DEF ReadyToPlay
  <2> HIDE DEF s
  <2>3. WellFormed(Play(s)) /\ Starts(app.item, Play(s))
    BY <2>1, PlayType, PlayingKept DEF Kept, Starts
  <2> QED
    BY <2>2, <2>3, StepStarts
<1>2. CASE ItemFailed
  <2> DEFINE s == [app EXCEPT !.status = "failed", !.state = "Stopped"]
  <2>1. WellFormed(s) /\ s.item = app.item
    BY <1>2 DEF ItemFailed, WellFormed, App, MusicPlayerState
  <2>2. Step(s)
    BY <1>2 DEF ItemFailed
  <2> HIDE DEF s
  <2> QED
    BY <2>1, <2>2, StepStarts DEF Starts
<1>3. CASE SongEnds
  <2> DEFINE e == [app EXCEPT !.status = "ended"]
             s == PlayerDidFinish(e)
             d == IF app.playlist = <<>> \/ app.apart THEN {} ELSE {s.currentIndex}
             t == [s EXCEPT !.due = d]
  <2>1. WellFormed(e) /\ e.item = app.item
    BY <1>3 DEF SongEnds, WellFormed, App
  <2>2. Step(SongDidPlayToEnd(t))
    BY <1>3 DEF SongEnds
  <2> HIDE DEF e
  <2>3. WellFormed(s) /\ Starts(app.item, s)
    BY <2>1, PlayerDidFinishType, PlayerDidFinishStarts
  <2> HIDE DEF s
  <2>4. d \in SUBSET Nat
    BY <2>3 DEF WellFormed, App
  <2> HIDE DEF d
  <2>5. WellFormed(t)
    BY <2>3, <2>4, DueType
  <2>7. Starts(app.item, t)
    <3>1. Kept(s, t)
      BY <2>3 DEF WellFormed, App, Kept, Unmoved
    <3> HIDE DEF t
    <3> QED
      BY <2>3, <3>1, KeptStarts
  <2> HIDE DEF t
  <2>6. WellFormed(SongDidPlayToEnd(t)) /\ Starts(app.item, SongDidPlayToEnd(t))
    BY <2>5, <2>7, SongDidPlayToEndType, PlayingKept, KeptStarts
  <2> QED
    BY <2>2, <2>6, StepStarts
<1>4. CASE RunBlock
  <2> DEFINE b == Head(app.mainQueue)
             s == [app EXCEPT !.mainQueue = Tail(app.mainQueue)]
  <2>1. b \in Block /\ Tail(app.mainQueue) \in Seq(Block)
    BY <1>4, HeadTailProperties DEF RunBlock, WellFormed, App
  <2>2. WellFormed(s) /\ s.item = app.item
    BY <2>1 DEF WellFormed, App
  <2>3. Step(IF b.op = "ended" THEN HandleSwipToNext(s, b.page) ELSE Answered(s, b))
    BY <1>4 DEF RunBlock
  <2>4. /\ b.op = "ended" => b.page \in Pages
        /\ b.op # "ended" => b.op = "answered" /\ b.object \in Objects
    BY <2>1 DEF Block
  <2> HIDE DEF b, s
  <2>5. ASSUME b.object \in Objects PROVE Starts(app.item, Answered(s, b))
    <3>1. Starts(app.item, s)
      BY <2>2 DEF Starts
    <3>2. Crashed(s, "range").item = s.item
      BY <2>2 DEF WellFormed, App, Crashed
    <3>3. Starts(app.item, Crashed(s, "range"))
      BY <2>2, <3>2 DEF Starts
    <3> QED
      BY <2>2, <2>5, <3>1, <3>3, PlayWithSongStarts DEF Answered
  <2> QED
    BY <2>1, <2>2, <2>3, <2>4, <2>5, SwipType, SwipStarts, AnsweredType, StepStarts
<1> QED
  BY <1>1, <1>2, <1>3, <1>4

(* So do the answers, however late.                                        *)
LEMMA StartsAnswered ==
  ASSUME TypeOK, NEW i \in DOMAIN app.fetches, FetchAnswered(i)
  PROVE  StartsCurrentStep
<1> DEFINE f == app.fetches[i]
           s == [app EXCEPT !.fetches = Without(app.fetches, i)]
           u == [s EXCEPT !.heap[f.object].source = "url"]
<1>1. WellFormed(app)
  BY DEF TypeOK
<1>2. f \in Fetch /\ Without(app.fetches, i) \in Seq(Fetch)
  BY <1>1, WithoutType, ElementOfSeq DEF WellFormed, App
<1>3. WellFormed(s) /\ s.item = app.item
  BY <1>1, <1>2 DEF WellFormed, App
<1> HIDE DEF f
<1>4. f.object \in Objects /\ f.page \in Pages \cup {NoPage}
  BY <1>2 DEF Fetch
<1>5. WellFormed(u) /\ u.item = app.item
  <2> HIDE DEF s
  <2>1. WellFormed(u) /\ u.item = s.item
    BY <1>3, <1>4, URLArrives
  <2> QED
    BY <1>3, <2>1
<1>7. CASE Step(s)
  <2> HIDE DEF s
  <2> QED
    BY <1>3, <1>7, StepStarts DEF Starts
<1>8. ASSUME NEW t \in {s, u},
             \/ f.by \in {"manager", "page"}
                /\ Step([t EXCEPT !.mainQueue = Append(t.mainQueue,
                     [op |-> "answered", by |-> f.by, object |-> f.object, page |-> f.page])])
             \/ f.by = "home" /\ Step(PlayCurrent(t))
             \/ f.by = "search" /\ t.shown # NoPage /\ Step(t)
             \/ f.by = "search" /\ t.shown = NoPage
                /\ \E p \in FreePages(t) : Step(OpenPage(t, p))
      PROVE  StartsCurrentStep
  <2>0. WellFormed(t) /\ t.item = app.item
    BY <1>3, <1>5, <1>8
  <2> Starts(app.item, t)
    BY <2>0 DEF Starts
  <2>1. ASSUME f.by \in {"manager", "page"},
               Step([t EXCEPT !.mainQueue = Append(t.mainQueue,
                 [op |-> "answered", by |-> f.by, object |-> f.object, page |-> f.page])])
        PROVE  StartsCurrentStep
    <3> DEFINE b == [op |-> "answered", by |-> f.by, object |-> f.object, page |-> f.page]
               q == Append(t.mainQueue, b)
               v == [t EXCEPT !.mainQueue = q]
    <3>1. b \in Block
      BY <1>4, <2>1 DEF Block
    <3> HIDE DEF b
    <3>2. q \in Seq(Block)
      BY <2>0, <3>1 DEF WellFormed, App
    <3> HIDE DEF q
    <3>3. WellFormed(v) /\ v.item = t.item
      BY <2>0, <3>2 DEF WellFormed, App
    <3>4. Step(v)
      BY <2>1 DEF q, b
    <3> HIDE DEF v
    <3> QED
      BY <2>0, <3>3, <3>4, StepStarts DEF Starts
  <2>2. CASE f.by = "home" /\ Step(PlayCurrent(t))
    BY <2>0, <2>2, PlayCurrentType, PlayCurrentStarts, StepStarts
  <2>3. CASE Step(t)
    BY <2>0, <2>3, StepStarts
  <2>4. ASSUME NEW p \in FreePages(t), Step(OpenPage(t, p)) PROVE StartsCurrentStep
    BY <2>0, <2>4, OpenPageType, OpenPageStarts, StepStarts DEF FreePages
  <2> QED
    BY <1>8, <2>1, <2>2, <2>3, <2>4
<1> QED
  BY <1>7, <1>8 DEF FetchAnswered, f

(* So do the touches on a player page and on the floating view.            *)
LEMMA StartsPage ==
  ASSUME TypeOK,
         PressNext \/ PressPrevious \/ PressSwitch \/ ClosePage \/ ReadCurrent
           \/ TapFloatingView \/ PressPlayerSwitches
  PROVE  StartsCurrentStep
<1> WellFormed(app) /\ Starts(app.item, app)
  BY DEF TypeOK, Starts
<1>1. app.shown # NoPage => app.shown \in Pages
  BY DEF WellFormed, App
<1>2. CASE PressNext \/ PressPrevious
  <2>1. WellFormed(Moved(app)) /\ Moved(app).item = app.item
    BY MovedType, PlayingKept DEF Kept
  <2>2. /\ Starts(app.item, HandleSwipToNext(Moved(app), app.shown)) \/ app.shown = NoPage
        /\ Starts(app.item, HandleSwipToPrevious(Moved(app), app.shown)) \/ app.shown = NoPage
    BY <1>1, <2>1, SwipStarts
  <2> QED
    BY <1>1, <1>2, <2>1, <2>2, SwipType, TouchStarts DEF PressNext, PressPrevious
<1>3. CASE PressSwitch
  BY <1>3, PlayType, PlayingKept, KeptStarts, TouchStarts DEF PressSwitch
<1>4. CASE ClosePage
  <2> DEFINE s == [app EXCEPT !.shown = NoPage, !.apart = FALSE]
  <2>1. WellFormed(s) /\ s.item = app.item
    BY DEF WellFormed, App
  <2>2. Touch(s)
    BY <1>4 DEF ClosePage
  <2> HIDE DEF s
  <2> QED
    BY <2>1, <2>2, TouchStarts DEF Starts
<1>5. CASE ReadCurrent
  <2>1. \A why : Crashed(app, why).item = app.item
    BY DEF WellFormed, App, Crashed
  <2> QED
    BY <1>5, <2>1, CrashedType, TouchStarts DEF ReadCurrent, Starts
<1>6. CASE TapFloatingView
  BY <1>6, OpenPageType, OpenPageStarts, TouchStarts DEF TapFloatingView, FreePages
<1>7. CASE PressPlayerSwitches
  <2>1. CASE ~InRange(app)
    <3>1. Crashed(app, "range").item = app.item
      BY DEF WellFormed, App, Crashed
    <3> QED
      BY <1>7, <2>1, <3>1, CrashedType, TouchStarts DEF PressPlayerSwitches, Starts
  <2>2. CASE InRange(app)
    <3>1. /\ WellFormed(Request(app, "home", Current(app), NoPage))
          /\ Starts(app.item, Request(app, "home", Current(app), NoPage))
      BY <2>2, CurrentType, RequestType, PlayingKept, KeptStarts
    <3> QED
      BY <1>7, <2>2, <3>1, PlayType, PlayingKept, KeptStarts, TouchStarts
         DEF PressPlayerSwitches
  <2> QED
    BY <2>1, <2>2
<1> QED
  BY <1>2, <1>3, <1>4, <1>5, <1>6, <1>7

(* So do the touches that pick a song or a list.                           *)
LEMMA StartsPick ==
  ASSUME TypeOK,
         PickCached \/ PickDownloaded \/ PlayAllDownloads \/ PickInList
           \/ PlayList \/ PickFound \/ PressRecommended \/ Land
  PROVE  StartsCurrentStep
<1>0. WellFormed(app)
  BY DEF TypeOK
<1> FreeObjects(app) \subseteq Objects /\ FreePages(app) \subseteq Pages
  BY DEF FreeObjects, FreePages
<1>1. \A song \in Songs, source \in Source : [song |-> song, source |-> source] \in Model
  BY DEF Model
<1>2. {"null", "none", "url", "file"} = Source
  BY DEF Source
<1>3. CASE PickCached \/ PickDownloaded
  <2>1. PICK source \in {"null", "file"} : PickKept(source)
    BY <1>3 DEF PickCached, PickDownloaded
  <2>2. PICK song \in Songs, o \in FreeObjects(app), p \in FreePages(app) :
          Touch(OpenPage(PlayFirst(app, o, [song |-> song, source |-> source]), p))
    BY <2>1 DEF PickKept
  <2> DEFINE m == [song |-> song, source |-> source]
             s == PlayFirst(app, o, m)
  <2>3. m \in Model
    BY <1>1, <1>2
  <2> HIDE DEF m
  <2>4. WellFormed(s) /\ Starts(app.item, s)
    BY <1>0, <2>3, PlayFirstType, PlayFirstStarts
  <2>5. Touch(OpenPage(s, p))
    BY <2>2 DEF m
  <2> HIDE DEF s
  <2> QED
    BY <2>4, <2>5, OpenPageType, OpenPageStarts, TouchStarts
<1>4. CASE PlayAllDownloads
  <2>0. PICK songs \in SongLists : \E os \in NewObjects(app, Len(songs)) :
          Touch(PlayCurrent([ReplaceList(Stop(app), os, songs, "file")
                               EXCEPT !.currentIndex = 0]))
    BY <1>4 DEF PlayAllDownloads
  <2>1. PICK os \in NewObjects(app, Len(songs)) :
          Touch(PlayCurrent([ReplaceList(Stop(app), os, songs, "file")
                               EXCEPT !.currentIndex = 0]))
    BY <2>0
  <2> DEFINE u == ReplaceList(Stop(app), os, songs, "file")
             t == [u EXCEPT !.currentIndex = 0]
  <2>2. WellFormed(Stop(app)) /\ Stop(app).item = NoObject
    BY <1>0, StopType DEF WellFormed, App, Stop
  <2>3. os \in NewObjects(Stop(app), Len(songs))
    BY <1>0, StopNewObjects
  <2>4. WellFormed(u) /\ u.item = Stop(app).item
    <3>1. WellFormed(u)
      BY <1>2, <2>2, <2>3, ReplaceListType
    <3>2. u.item = Stop(app).item
      BY <2>2 DEF WellFormed, App, ReplaceList
    <3> QED
      BY <3>1, <3>2
  <2> HIDE DEF u
  <2>5. WellFormed(t) /\ t.item = NoObject
    BY <2>2, <2>4 DEF WellFormed, App
  <2>6. Touch(PlayCurrent(t))
    BY <2>1 DEF u
  <2> HIDE DEF t
  <2>7. Starts(app.item, t)
    BY <2>5 DEF Starts
  <2> QED
    BY <2>5, <2>6, <2>7, PlayCurrentType, PlayCurrentStarts, TouchStarts
<1>5. CASE PickInList
  <2>1. PICK song \in Songs, o \in FreeObjects(app), p \in FreePages(app) :
          LET s == Allocate(app, o, [song |-> song, source |-> "null"])
              n == Len(app.playlist)
              t == InsertFirst(IF n \in Matches(app, song)
                               THEN [s EXCEPT !.playlist = Without(s.playlist, n)] ELSE s, o)
          IN  Touch(IF \E i \in Matches(app, song) : i < n THEN Crashed(s, "mutated")
                    ELSE IF ~InRange(t) THEN Crashed(t, "range")
                    ELSE OpenPage(t, p))
    BY <1>5 DEF PickInList
  <2> DEFINE s == Allocate(app, o, [song |-> song, source |-> "null"])
             n == Len(app.playlist)
             w == Without(s.playlist, n)
             r == [s EXCEPT !.playlist = w]
             q == IF n \in Matches(app, song) THEN r ELSE s
             t == InsertFirst(q, o)
  <2>2. WellFormed(s)
    BY <1>0, <1>1, <1>2, AllocateType
  <2>3. s.playlist = app.playlist /\ s.item = app.item
    BY <1>0 DEF Allocate, WellFormed, App
  <2>4. n \in Matches(app, song) => n \in DOMAIN s.playlist
    BY <2>3 DEF Matches
  <2>5. Touch(IF \E i \in Matches(app, song) : i < n THEN Crashed(s, "mutated")
              ELSE IF ~InRange(t) THEN Crashed(t, "range")
              ELSE OpenPage(t, p))
    BY <2>1
  <2> HIDE DEF s, n
  <2>7. n \in Matches(app, song) => w \in Seq(Objects)
    BY <2>2, <2>4, WithoutType DEF WellFormed, App
  <2> HIDE DEF w
  <2>8. WellFormed(q) /\ q.item = s.item
    BY <2>2, <2>7 DEF WellFormed, App
  <2> HIDE DEF q
  <2>9. WellFormed(t) /\ t.item = q.item
    BY <2>8, InsertFirstType DEF InsertFirst, WellFormed, App
  <2> HIDE DEF t
  <2>10. Starts(app.item, t)
    BY <2>3, <2>8, <2>9 DEF Starts
  <2>11. /\ Crashed(s, "mutated").item = app.item
         /\ Crashed(t, "range").item = app.item
    BY <2>2, <2>3, <2>8, <2>9 DEF Crashed, WellFormed, App
  <2>12. Starts(app.item, Crashed(s, "mutated")) /\ Starts(app.item, Crashed(t, "range"))
    BY <2>11 DEF Starts
  <2>14. /\ WellFormed(Crashed(s, "mutated")) /\ WellFormed(Crashed(t, "range"))
         /\ WellFormed(OpenPage(t, p)) /\ Starts(app.item, OpenPage(t, p))
    BY <2>2, <2>9, <2>10, CrashedType, OpenPageType, OpenPageStarts
  <2> QED
    BY <2>5, <2>12, <2>14, TouchStarts
<1>6. CASE PlayList
  <2>0. PICK songs \in SongLists : \E os \in NewObjects(app, Len(songs)) :
          \E p \in FreePages(app) : Touch(OpenPage(ReplaceList(app, os, songs, "null"), p))
    BY <1>6 DEF PlayList
  <2>1. PICK os \in NewObjects(app, Len(songs)), p \in FreePages(app) :
          Touch(OpenPage(ReplaceList(app, os, songs, "null"), p))
    BY <2>0
  <2> DEFINE s == ReplaceList(app, os, songs, "null")
  <2>2. WellFormed(s)
    BY <1>0, <1>2, ReplaceListType
  <2>3. s.item = app.item
    BY <1>0 DEF WellFormed, App, ReplaceList
  <2>5. Touch(OpenPage(s, p))
    BY <2>1
  <2> HIDE DEF s
  <2>4. Starts(app.item, s)
    BY <2>3 DEF Starts
  <2> QED
    BY <2>2, <2>4, <2>5, OpenPageType, OpenPageStarts, TouchStarts
<1>7. CASE PickFound
  <2>1. PICK song \in Songs, o \in FreeObjects(app) :
          LET s == InsertFirst(Allocate(app, o, [song |-> song, source |-> "null"]), o)
          IN  Touch(Request([s EXCEPT !.currentIndex = 0], "search", o, NoPage))
    BY <1>7 DEF PickFound
  <2> DEFINE a == Allocate(app, o, [song |-> song, source |-> "null"])
             s == InsertFirst(a, o)
             t == [s EXCEPT !.currentIndex = 0]
  <2>2. WellFormed(a)
    BY <1>0, <1>1, <1>2, AllocateType
  <2>3. a.item = app.item
    BY <1>0 DEF Allocate, WellFormed, App
  <2> HIDE DEF a
  <2>4. WellFormed(s) /\ s.item = a.item
    BY <2>2, InsertFirstType DEF InsertFirst, WellFormed, App
  <2> HIDE DEF s
  <2>7. WellFormed(t) /\ t.item = s.item
    BY <2>4 DEF WellFormed, App
  <2>9. Touch(Request(t, "search", o, NoPage))
    BY <2>1 DEF s, a
  <2> HIDE DEF t
  <2>8. Starts(app.item, t)
    BY <2>3, <2>4, <2>7 DEF Starts
  <2>10. /\ WellFormed(Request(t, "search", o, NoPage))
         /\ Starts(app.item, Request(t, "search", o, NoPage))
    BY <2>7, <2>8, RequestType, PlayingKept, KeptStarts
  <2> QED
    BY <2>9, <2>10, TouchStarts
<1>8. CASE PressRecommended
  <2>1. PICK song \in Songs, source \in {"none", "url"} :
          Touch([app EXCEPT !.flying = <<[song |-> song, source |-> source]>>])
    BY <1>8 DEF PressRecommended
  <2> DEFINE m == [song |-> song, source |-> source]
             s == [app EXCEPT !.flying = <<m>>]
  <2>2. <<m>> \in Seq(Model)
    BY <1>1, <1>2
  <2> HIDE DEF m
  <2>3. WellFormed(s) /\ s.item = app.item
    BY <1>0, <2>2 DEF WellFormed, App
  <2>4. Touch(s)
    BY <2>1 DEF m
  <2> HIDE DEF s
  <2> QED
    BY <2>3, <2>4, TouchStarts DEF Starts
<1>9. CASE Land
  <2>1. PICK o \in FreeObjects(app) :
          LET s == PlayFirst([app EXCEPT !.flying = Tail(app.flying)], o, Head(app.flying))
          IN  Step(Play([s EXCEPT !.apart = app.shown # NoPage]))
    BY <1>9 DEF Land
  <2>2. Head(app.flying) \in Model /\ Tail(app.flying) \in Seq(Model)
    BY <1>0, <1>9, HeadTailProperties DEF Land, WellFormed, App
  <2> DEFINE f == [app EXCEPT !.flying = Tail(app.flying)]
             s == PlayFirst(f, o, Head(app.flying))
             a == app.shown # NoPage
             t == [s EXCEPT !.apart = a]
  <2>3. WellFormed(f) /\ f.item = app.item
    BY <1>0, <2>2 DEF WellFormed, App
  <2> HIDE DEF f
  <2>4. WellFormed(s) /\ a \in BOOLEAN /\ Starts(app.item, s)
    BY <2>2, <2>3, PlayFirstType, PlayFirstStarts
  <2> HIDE DEF s, a
  <2>5. WellFormed(t)
    BY <2>4 DEF WellFormed, App
  <2>6. Kept(s, t)
    BY <2>4 DEF WellFormed, App, Kept, Unmoved
  <2>7. Step(Play(t))
    BY <2>1 DEF s, a, f
  <2> HIDE DEF t
  <2>8. WellFormed(Play(t)) /\ Starts(app.item, Play(t))
    BY <2>4, <2>5, <2>6, PlayType, PlayingKept, KeptStarts
  <2> QED
    BY <2>7, <2>8, StepStarts
<1> QED
  BY <1>3, <1>4, <1>5, <1>6, <1>7, <1>8, <1>9

(* For all lists, songs and pages: a song that starts is the one the list  *)
(* says is current, however late the answer it waited for has come.        *)
THEOREM OnlyCurrentStarts == Spec => StartsCurrent
<1>1. TypeOK /\ [Next]_app => [StartsCurrentStep]_app
  BY StartsPlayer, StartsAnswered, StartsPage, StartsPick DEF Next
<1>2. [StartsCurrentStep]_app
        <=> [ (app'.item # app.item /\ app'.item # NoObject)
                => /\ InRange(app')
                   /\ app'.heap[app'.item].song = app'.heap[Current(app')].song ]_app
  BY DEF StartsCurrentStep
<1> QED
  BY <1>1, <1>2, TypeInit, TypeNext, PTL DEF Spec, StartsCurrent
----------------------------------------------------------------------------
(* One advance for the end of a song.  The manager moves at once and the   *)
(* page that observes the end with a block to come, from its own index.    *)

Placed(s) == s.playlist = <<>> \/ InRange(s)

(* AVPlayer reports no second end before the page has seen the first. *)
OneEnded(s) ==
  \A i, j \in DOMAIN s.mainQueue :
    s.mainQueue[i].op = "ended" /\ s.mainQueue[j].op = "ended" => i = j

(* The page is where the list is, or at another position of it and has a   *)
(* block that will bring it there.                                         *)
Together(s) ==
  s.shown # NoPage /\ ~s.apart =>
    \/ s.pageIndex[s.shown] = s.currentIndex
    \/ /\ s.pageIndex[s.shown] < Len(s.playlist)
       /\ \E b \in EndedBlocks(s) : b.page = s.shown

(* A page whose block is to come is one behind the list. *)
Lags(s, b) == (s.pageIndex[b.page] + 1) % Len(s.playlist) = s.currentIndex
Lagging(s) == s.due # {} => InRange(s) /\ \A b \in EndedBlocks(s) : Lags(s, b)

(* The invariant. *)
Advances(s) ==
  /\ s.crash = "no" => Placed(s)
  /\ OneEnded(s) /\ Together(s) /\ Lagging(s)
  /\ s.due \subseteq {s.currentIndex}

(* Routines that move no index and submit no block. *)
Alike(s, t) ==
  /\ t.playlist = s.playlist /\ t.currentIndex = s.currentIndex
  /\ t.shown = s.shown /\ t.pageIndex = s.pageIndex /\ t.apart = s.apart
  /\ t.mainQueue = s.mainQueue /\ t.due = s.due
  /\ t.crash = "no" => s.crash = "no"

LEMMA AlikeAdvances ==
  ASSUME NEW s, NEW t, Alike(s, t), Advances(s) PROVE Advances(t)
<1>1. /\ Placed(s) <=> Placed(t)
      /\ OneEnded(s) <=> OneEnded(t)
      /\ EndedBlocks(s) = EndedBlocks(t)
  BY DEF Alike, Placed, InRange, OneEnded, EndedBlocks
<1>2. Together(s) <=> Together(t)
  BY <1>1 DEF Alike, Together
<1>3. Lagging(s) <=> Lagging(t)
  BY <1>1 DEF Alike, Lagging, InRange, Lags
<1> QED
  BY <1>1, <1>2, <1>3 DEF Alike, Advances

LEMMA AlikeTwice ==
  ASSUME NEW s, NEW t, NEW u, Alike(s, t), Alike(t, u) PROVE Alike(s, u)
BY DEF Alike

(* All the routines of the player are such routines. *)
LEMMA PlayingAlike ==
  ASSUME NEW s, WellFormed(s)
  PROVE  /\ Alike(s, Stop(s)) /\ Alike(s, Play(s)) /\ Alike(s, Pause(s))
         /\ \A o : Alike(s, PlayWithSong(s, o))
         /\ \A o, by, p : Alike(s, Request(s, by, o, p))
         /\ \A p : Alike(s, PrepareAndPlay(s, p))
         /\ \A o, m : Alike(s, Allocate(s, o, m))
         /\ \A why : why # "no" => Alike(s, Crashed(s, why))
<1>1. Alike(s, Stop(s)) /\ Alike(s, Play(s)) /\ Alike(s, Pause(s))
  BY DEF WellFormed, App, Alike, Stop, Play, Pause
<1>2. ASSUME NEW o PROVE Alike(s, PlayWithSong(s, o))
  BY DEF WellFormed, App, Alike, PlayWithSong
<1>3. ASSUME NEW o, NEW by, NEW p PROVE Alike(s, Request(s, by, o, p))
  BY DEF WellFormed, App, Alike, Request
<1>4. ASSUME NEW p PROVE Alike(s, PrepareAndPlay(s, p))
  BY <1>2, <1>3 DEF PrepareAndPlay
<1>5. ASSUME NEW o, NEW m PROVE Alike(s, Allocate(s, o, m))
  BY DEF WellFormed, App, Alike, Allocate
<1>6. ASSUME NEW why, why # "no" PROVE Alike(s, Crashed(s, why))
  BY <1>6 DEF WellFormed, App, Alike, Crashed
<1> QED
  BY <1>1, <1>2, <1>3, <1>4, <1>5, <1>6

(* An ended block names a page. *)
LEMMA EndedType ==
  ASSUME NEW s, WellFormed(s), NEW b \in EndedBlocks(s)
  PROVE  b.page \in Pages /\ b.op = "ended" /\ b \in RangeOf(s.mainQueue)
<1>1. b \in Block /\ b.op = "ended" /\ b \in RangeOf(s.mainQueue)
  <2>1. s.mainQueue \in Seq(Block)
    BY DEF WellFormed, App
  <2> QED
    BY <2>1, ElementOfSeq DEF EndedBlocks, RangeOf
<1> QED
  BY <1>1 DEF Block

(* Adding one within a list of n. *)
LEMMA NextPosition ==
  ASSUME NEW n \in Nat, NEW i \in Nat, i < n
  PROVE  (i + 1) % n = IF i + 1 >= n THEN 0 ELSE i + 1
<1>1. CASE i + 1 >= n
  <2>1. i + 1 = n
    BY <1>1
  <2>2. n % n = 0
    OBVIOUS
  <2> QED
    BY <1>1, <2>1, <2>2
<1>2. CASE i + 1 < n
  BY <1>2
<1> QED
  BY <1>1, <1>2

LEMMA RemainderBelow ==
  ASSUME NEW a \in Nat, NEW b \in Nat, b > 0 PROVE a % b \in Nat /\ a % b < b
OBVIOUS

(* What changeToIndex does to the indices, and leaves alone. *)
LEMMA ChangeToIndexEffect ==
  ASSUME NEW s, WellFormed(s), NEW p \in Pages, NEW i \in Nat, s.playlist # <<>>
  PROVE  LET n == Clamped(i, Len(s.playlist))
             r == ChangeToIndex(s, p, i)
         IN  /\ r.currentIndex = n /\ r.pageIndex = [s.pageIndex EXCEPT ![p] = n]
             /\ r.playlist = s.playlist /\ r.shown = s.shown
             /\ r.mainQueue = s.mainQueue /\ r.due = s.due
             /\ r.apart <=> /\ p # s.shown
                            /\ \/ s.apart
                               \/ s.shown # NoPage /\ s.pageIndex[s.shown] # n
             /\ InRange(r)
<1> DEFINE n == Clamped(i, Len(s.playlist))
           a == /\ p # s.shown
                /\ \/ s.apart
                   \/ s.shown # NoPage /\ s.pageIndex[s.shown] # n
           t == [s EXCEPT !.currentIndex = n, !.pageIndex[p] = n, !.apart = a]
           r == ChangeToIndex(s, p, i)
<1>1. a \in BOOLEAN
  BY DEF WellFormed, App
<1>2. WellFormed(t) /\ InRange(t)
  BY <1>1, IndexMoved
<1>3. r = IF SameSong(t, t.heap[Current(t)]) /\ t.state = "Playing" THEN t
          ELSE PrepareAndPlay(Stop(t), p)
  BY <1>2 DEF ChangeToIndex
<1>4. /\ t.currentIndex = n /\ t.pageIndex = [s.pageIndex EXCEPT ![p] = n]
      /\ t.playlist = s.playlist /\ t.shown = s.shown
      /\ t.mainQueue = s.mainQueue /\ t.due = s.due
      /\ t.apart = a
  BY DEF WellFormed, App
<1> HIDE DEF t, r, a, n
<1>5. WellFormed(Stop(t)) /\ Alike(t, Stop(t))
  BY <1>2, StopType, PlayingAlike
<1>6. Alike(t, PrepareAndPlay(Stop(t), p))
  BY <1>5, PlayingAlike, AlikeTwice
<1>7. Alike(t, t)
  BY DEF Alike
<1>8. Alike(t, r)
  BY <1>3, <1>6, <1>7
<1>9. InRange(r)
  BY <1>2, <1>8 DEF Alike, InRange
<1>10. /\ r.currentIndex = n /\ r.pageIndex = [s.pageIndex EXCEPT ![p] = n]
       /\ r.playlist = s.playlist /\ r.shown = s.shown
       /\ r.mainQueue = s.mainQueue /\ r.due = s.due
       /\ r.apart = a
  BY <1>4, <1>8 DEF Alike
<1> QED
  BY <1>9, <1>10 DEF n, r, a

(* It brings the page to the list, and the list nowhere if something is    *)
(* due: then the index must be the list's.                                 *)
LEMMA ChangeToIndexAdvances ==
  ASSUME NEW s, WellFormed(s), NEW p \in Pages, NEW i \in Nat, s.playlist # <<>>,
         OneEnded(s), s.due \subseteq {s.currentIndex},
         s.due # {} => /\ InRange(s) /\ i = s.currentIndex
                       /\ \A b \in EndedBlocks(s) : b.page # p /\ Lags(s, b)
  PROVE  Advances(ChangeToIndex(s, p, i))
<1> DEFINE n == Clamped(i, Len(s.playlist))
           r == ChangeToIndex(s, p, i)
<1>1. /\ r.currentIndex = n /\ r.pageIndex = [s.pageIndex EXCEPT ![p] = n]
      /\ r.playlist = s.playlist /\ r.shown = s.shown
      /\ r.mainQueue = s.mainQueue /\ r.due = s.due
      /\ r.apart <=> /\ p # s.shown
                     /\ \/ s.apart
                        \/ s.shown # NoPage /\ s.pageIndex[s.shown] # n
      /\ InRange(r)
  BY ChangeToIndexEffect
<1>2. s.due # {} => n = s.currentIndex
  BY DEF Clamped, InRange, WellFormed, App
<1>3. s.pageIndex \in [Pages -> Nat] /\ s.shown \in Pages \cup {NoPage}
  BY DEF WellFormed, App
<1> HIDE DEF n, r
<1>4. OneEnded(r)
  BY <1>1 DEF OneEnded
<1>5. Together(r)
  <2> SUFFICES ASSUME r.shown # NoPage, ~r.apart PROVE r.pageIndex[r.shown] = r.currentIndex
    BY DEF Together
  <2>1. CASE p = s.shown
    BY <1>1, <1>3, <2>1
  <2>2. CASE p # s.shown
    BY <1>1, <1>3, <2>2
  <2> QED
    BY <2>1, <2>2
<1>6. Lagging(r)
  <2> SUFFICES ASSUME s.due # {}, NEW b \in EndedBlocks(r) PROVE Lags(r, b)
    BY <1>1 DEF Lagging
  <2>1. b \in EndedBlocks(s)
    BY <1>1 DEF EndedBlocks
  <2>2. b.page \in Pages /\ b.page # p /\ Lags(s, b)
    BY <2>1, EndedType
  <2>3. r.pageIndex[b.page] = s.pageIndex[b.page]
    BY <1>1, <1>3, <2>2
  <2> QED
    BY <1>1, <1>2, <2>2, <2>3 DEF Lags
<1>7. r.due \subseteq {r.currentIndex}
  BY <1>1, <1>2
<1> QED
  BY <1>1, <1>4, <1>5, <1>6, <1>7 DEF Advances, Placed, r

(* Opening a page brings it to the list.                                   *)
LEMMA OpenPageAdvances ==
  ASSUME NEW s, WellFormed(s), NEW p \in Pages, OneEnded(s),
         s.due = {} \/ (Advances(s) /\ p \in FreePages(s))
  PROVE  Advances(OpenPage(s, p))
<1> DEFINE t == [s EXCEPT !.shown = p, !.pageIndex[p] = s.currentIndex]
<1>1. WellFormed(t) /\ s.currentIndex \in Nat
  BY DEF WellFormed, App
<1>2. /\ t.shown = p /\ t.pageIndex = [s.pageIndex EXCEPT ![p] = s.currentIndex]
      /\ t.playlist = s.playlist /\ t.currentIndex = s.currentIndex
      /\ t.mainQueue = s.mainQueue /\ t.due = s.due
      /\ s.pageIndex \in [Pages -> Nat]
  BY DEF WellFormed, App
<1>3. OpenPage(s, p) = ChangeToIndex(t, p, t.currentIndex)
  BY <1>2 DEF OpenPage
<1> HIDE DEF t
<1>4. EndedBlocks(t) = EndedBlocks(s) /\ OneEnded(t) /\ (InRange(s) <=> InRange(t))
  BY <1>2 DEF EndedBlocks, OneEnded, InRange
<1>5. ASSUME s.due # {}
      PROVE  /\ InRange(s) /\ s.due \subseteq {s.currentIndex}
             /\ \A b \in EndedBlocks(s) : b.page # p /\ Lags(t, b)
  <2>1. Advances(s) /\ p \in FreePages(s)
    BY <1>5
  <2>2. InRange(s) /\ s.due \subseteq {s.currentIndex}
    BY <1>5, <2>1 DEF Advances, Lagging
  <2>3. ASSUME NEW b \in EndedBlocks(s) PROVE b.page # p /\ Lags(t, b)
    <3>1. b \in RangeOf(s.mainQueue) /\ b.page \in Pages
      BY EndedType
    <3>2. b.page # p
      BY <2>1, <3>1 DEF FreePages
    <3>3. Lags(s, b)
      BY <1>5, <2>1 DEF Advances, Lagging
    <3>4. t.pageIndex[b.page] = s.pageIndex[b.page]
      BY <1>2, <3>1, <3>2
    <3> QED
      BY <1>2, <3>2, <3>3, <3>4 DEF Lags
  <2> QED
    BY <2>2, <2>3
<1>6. CASE t.playlist # <<>>
  <2>1. t.due # {} => /\ InRange(t)
                      /\ \A b \in EndedBlocks(t) : b.page # p /\ Lags(t, b)
    BY <1>2, <1>4, <1>5
  <2>2. t.due \subseteq {t.currentIndex}
    BY <1>2, <1>5
  <2>3. Advances(ChangeToIndex(t, p, t.currentIndex))
    BY <1>1, <1>2, <1>4, <1>6, <2>1, <2>2, ChangeToIndexAdvances
  <2> QED
    BY <1>3, <2>3
<1>7. CASE t.playlist = <<>>
  <2>1. OpenPage(s, p) = t
    BY <1>3, <1>7 DEF ChangeToIndex
  <2>2. ~InRange(s)
    BY <1>2, <1>7, EmptySeq DEF InRange, WellFormed, App
  <2>3. s.due = {}
    BY <1>5, <2>2
  <2>4. t.pageIndex[t.shown] = t.currentIndex
    BY <1>2
  <2>5. Advances(t)
    BY <1>2, <1>4, <1>7, <2>3, <2>4 DEF Advances, Placed, Together, Lagging
  <2> QED
    BY <2>1, <2>5
<1> QED
  BY <1>6, <1>7

(* A swipe on the page that is shown, after which nothing is due.          *)
LEMMA SwipAdvances ==
  ASSUME NEW s, WellFormed(s), NEW p \in Pages, Advances(s), s.due = {}
  PROVE  Advances(HandleSwipToNext(s, p)) /\ Advances(HandleSwipToPrevious(s, p))
<1>1. CASE s.playlist = <<>>
  BY <1>1 DEF HandleSwipToNext, HandleSwipToPrevious, ChangeToIndex
<1>2. CASE s.playlist # <<>>
  <2>1. Len(s.playlist) \in Nat /\ Len(s.playlist) > 0 /\ s.pageIndex[p] \in Nat
    BY <1>2, NonEmptyLength DEF WellFormed, App
  <2>2. s.pageIndex[p] + 1 \in Nat /\ s.pageIndex[p] - 1 + Len(s.playlist) \in Nat
    BY <2>1
  <2>3. /\ (s.pageIndex[p] + 1) % Len(s.playlist) \in Nat
        /\ (s.pageIndex[p] - 1 + Len(s.playlist)) % Len(s.playlist) \in Nat
    BY <2>1, <2>2, RemainderType
  <2>4. OneEnded(s) /\ s.due \subseteq {s.currentIndex}
    BY DEF Advances
  <2>5. \A i \in Nat : Advances(ChangeToIndex(s, p, i))
    BY <1>2, <2>4, ChangeToIndexAdvances
  <2> QED
    BY <2>3, <2>5 DEF HandleSwipToNext, HandleSwipToPrevious
<1> QED
  BY <1>1, <1>2

(* Reference counting clears pages nobody refers to.                       *)
LEMMA ReleasedAdvances ==
  ASSUME NEW s, WellFormed(s), Advances(s) PROVE Advances(Released(s))
<1> DEFINE r == Released(s)
<1>1. /\ r.playlist = s.playlist /\ r.currentIndex = s.currentIndex
      /\ r.shown = s.shown /\ r.apart = s.apart /\ r.crash = s.crash
      /\ r.mainQueue = s.mainQueue /\ r.due = s.due
      /\ r.pageIndex = [p \in Pages |-> IF p \in FreePages(s) THEN 0 ELSE s.pageIndex[p]]
  BY DEF Released, WellFormed, App
<1> HIDE DEF r
<1>2. EndedBlocks(r) = EndedBlocks(s) /\ OneEnded(r)
      /\ (InRange(s) <=> InRange(r)) /\ (Placed(s) <=> Placed(r))
  BY <1>1 DEF EndedBlocks, OneEnded, InRange, Placed, Advances
<1>3. s.shown # NoPage => r.pageIndex[s.shown] = s.pageIndex[s.shown]
  <2>1. s.shown \in Pages \cup {NoPage} /\ s.shown \notin FreePages(s)
    BY DEF WellFormed, App, FreePages
  <2> QED
    BY <1>1, <2>1
<1>4. ASSUME NEW b \in EndedBlocks(s) PROVE r.pageIndex[b.page] = s.pageIndex[b.page]
  <2>1. b.page \in Pages /\ b \in RangeOf(s.mainQueue)
    BY EndedType
  <2>2. b.page \notin FreePages(s)
    BY <2>1 DEF FreePages
  <2> QED
    BY <1>1, <2>1, <2>2
<1>5. Together(r)
  BY <1>1, <1>2, <1>3 DEF Together, Advances
<1>6. Lagging(r)
  BY <1>1, <1>2, <1>4 DEF Lagging, Lags, Advances
<1> QED
  BY <1>1, <1>2, <1>5, <1>6 DEF Advances, r

LEMMA StepAdvances ==
  ASSUME NEW s, WellFormed(s), Advances(s), Step(s) PROVE Advances(app')
BY ReleasedAdvances DEF Step

LEMMA TouchAdvances ==
  ASSUME NEW s, WellFormed(s), Advances(s), Touch(s) PROVE Advances(app')
<1> DEFINE n == s.touches + 1
           t == [s EXCEPT !.touches = n]
<1>1. n \in Nat
  BY DEF WellFormed, App
<1> HIDE DEF n
<1>2. WellFormed(t) /\ Alike(s, t)
  BY <1>1 DEF WellFormed, App, Alike
<1>3. Step(t)
  BY DEF Touch, n
<1> HIDE DEF t
<1> QED
  BY <1>2, <1>3, AlikeAdvances, StepAdvances

(* With nothing due and no page that claims to be with the list, only the  *)
(* index is to be in the list.                                             *)
LEMMA NothingDue ==
  ASSUME NEW s, OneEnded(s), s.due = {}, s.shown = NoPage \/ s.apart,
         s.crash = "no" => Placed(s)
  PROVE  Advances(s)
BY DEF Advances, Together, Lagging

(* The blocks submitted so far stay the same. *)
LEMMA SameQueue ==
  ASSUME NEW s, NEW t, t.mainQueue = s.mainQueue, OneEnded(s) PROVE OneEnded(t)
BY DEF OneEnded

LEMMA PlayCurrentAlike ==
  ASSUME NEW s, WellFormed(s) PROVE Alike(s, PlayCurrent(s))
BY PlayingAlike DEF PlayCurrent

(* Moving a song to the head settles what was due.                         *)
LEMMA PlayFirstEffect ==
  ASSUME NEW s, WellFormed(s), NEW o \in Objects, NEW m \in Model
  PROVE  LET t == PlayFirst(s, o, m)
         IN  /\ t.due = {} /\ t.mainQueue = s.mainQueue /\ t.shown = s.shown
             /\ InRange(t)
<1> DEFINE a == Allocate(s, o, m)
           d == Dedupe(a, m.song)
           t == InsertFirst(d, o)
           u == PlayWithSong(t, o)
           v == [u EXCEPT !.currentIndex = 0]
<1>1. WellFormed(a) /\ WellFormed(d) /\ WellFormed(t) /\ WellFormed(u)
  BY AllocateType, DedupeType, InsertFirstType, PlayWithSongType
<1>2. a.mainQueue = s.mainQueue /\ a.shown = s.shown
  BY DEF WellFormed, App, Allocate
<1> HIDE DEF a
<1>3. d.mainQueue = a.mainQueue /\ d.shown = a.shown
  BY <1>1 DEF WellFormed, App, Dedupe
<1> HIDE DEF d
<1>4. t.mainQueue = d.mainQueue /\ t.shown = d.shown /\ t.due = {}
  BY <1>1 DEF WellFormed, App, InsertFirst
<1> HIDE DEF t
<1>5. u.mainQueue = t.mainQueue /\ u.shown = t.shown /\ u.due = t.due
  BY <1>1, PlayingAlike DEF Alike
<1> HIDE DEF u
<1>6. v.mainQueue = u.mainQueue /\ v.shown = u.shown /\ v.due = u.due
  BY <1>1 DEF WellFormed, App
<1>7. PlayFirst(s, o, m) = v
  BY DEF PlayFirst, u, t, d, a
<1> HIDE DEF v
<1> QED
  BY <1>2, <1>3, <1>4, <1>5, <1>6, <1>7, PlayFirstCurrent

(* So does replacing the list.                                             *)
LEMMA ReplaceListEffect ==
  ASSUME NEW s, WellFormed(s), NEW os, NEW songs, NEW source
  PROVE  LET t == ReplaceList(s, os, songs, source)
         IN  /\ t.due = {} /\ t.mainQueue = s.mainQueue /\ t.shown = s.shown
BY DEF WellFormed, App, ReplaceList

(* At first nothing has been submitted.                                    *)
LEMMA AdvancesInit == Init => Advances(app)
<1> SUFFICES ASSUME Init PROVE Advances(app)
  OBVIOUS
<1>0. PICK songs \in SongLists \ {<<>>} : \E os \in NewObjects(Empty, Len(songs)) :
        app = ReplaceList(Empty, os, songs, "null")
  BY DEF Init
<1>1. PICK os \in NewObjects(Empty, Len(songs)) :
        app = ReplaceList(Empty, os, songs, "null")
  BY <1>0
<1>2. app.due = {} /\ app.mainQueue = <<>> /\ app.shown = NoPage
  BY <1>1, EmptyType, ReplaceListEffect DEF Empty
<1>3. ~app.emptied
  <2>1. os # <<>>
    <3>1. songs \in Seq(Songs) /\ songs # <<>>
      BY PlayerAssumption
    <3>2. Len(songs) \in Nat /\ Len(songs) > 0
      BY <3>1, LenProperties, EmptySeq
    <3>3. os \in [1..Len(songs) -> FreeObjects(Empty)]
      BY DEF NewObjects
    <3> QED
      BY <3>2, <3>3, EmptySeq
  <2> QED
    BY <1>1, <2>1 DEF ReplaceList, Empty
<1>4. OneEnded(app)
  BY <1>2, EmptySeq DEF OneEnded
<1>5. Placed(app)
  BY <1>3, RangeInit DEF ListInRange, Placed
<1> QED
  BY <1>2, <1>4, <1>5, NothingDue

(* The song ends: the manager advances from the position the page is at,   *)
(* and the page's block will advance from there too.                       *)
LEMMA SongEndsAdvances ==
  ASSUME TypeOK, Advances(app), SongEnds PROVE Advances(app')
<1> DEFINE e == [app EXCEPT !.status = "ended"]
           s == PlayerDidFinish(e)
           d == IF app.playlist = <<>> \/ app.apart THEN {} ELSE {s.currentIndex}
           t == [s EXCEPT !.due = d]
           r == SongDidPlayToEnd(t)
<1>1. WellFormed(e) /\ Alike(app, e) /\ e.crash = app.crash
  BY DEF TypeOK, SongEnds, WellFormed, App, Alike
<1>2. Step(r) /\ EndedBlocks(app) = {} /\ app.crash = "no"
  BY DEF SongEnds, Step
<1> HIDE DEF e
<1>3. /\ s.playlist = app.playlist /\ s.shown = app.shown
      /\ s.pageIndex = app.pageIndex /\ s.apart = app.apart
      /\ s.mainQueue = app.mainQueue
      /\ app.playlist = <<>> => s.currentIndex = app.currentIndex
      /\ app.playlist # <<>> =>
           /\ InRange(s)
           /\ s.currentIndex = (app.currentIndex + 1) % Len(app.playlist)
  <2>1. CASE app.playlist = <<>>
    <3>1. s = e
      BY <1>1, <2>1 DEF PlayerDidFinish, Alike
    <3> QED
      BY <1>1, <2>1, <3>1 DEF Alike
  <2>2. CASE app.playlist # <<>>
    <3> DEFINE next == e.currentIndex + 1
               i == IF next >= Len(e.playlist) THEN 0 ELSE next
               u == [e EXCEPT !.currentIndex = i]
               o == Current(u)
    <3>1. /\ e.playlist = app.playlist /\ e.currentIndex = app.currentIndex
          /\ e.currentIndex \in Nat /\ e.playlist # <<>>
          /\ Len(e.playlist) \in Nat /\ Len(e.playlist) > 0
      BY <1>1, <2>2, NonEmptyLength DEF WellFormed, App, Alike
    <3>2. i \in Nat /\ i < Len(e.playlist)
      BY <3>1
    <3>3. s = IF NoSource(u.heap[o]) THEN Request(u, "manager", o, NoPage)
              ELSE PlayWithSong(u, o)
      BY <3>1 DEF PlayerDidFinish
    <3>4. e.currentIndex < Len(e.playlist)
      BY <1>2, <2>2, <3>1 DEF Advances, Placed, InRange
    <3>5. i = (e.currentIndex + 1) % Len(e.playlist)
      BY <3>1, <3>4, NextPosition
    <3> HIDE DEF i, s
    <3>6. /\ WellFormed(u) /\ u.currentIndex = i /\ u.playlist = e.playlist
          /\ u.shown = e.shown /\ u.pageIndex = e.pageIndex /\ u.apart = e.apart
          /\ u.mainQueue = e.mainQueue
      BY <1>1, <3>2 DEF WellFormed, App
    <3> HIDE DEF u, o
    <3>7. Alike(u, s)
      BY <3>3, <3>6, PlayingAlike
    <3>8. /\ s.playlist = app.playlist /\ s.shown = app.shown
          /\ s.pageIndex = app.pageIndex /\ s.apart = app.apart
          /\ s.mainQueue = app.mainQueue
          /\ s.currentIndex = i
      BY <1>1, <3>6, <3>7 DEF Alike
    <3>9. InRange(s)
      BY <3>1, <3>2, <3>8 DEF InRange
    <3> QED
      BY <2>2, <3>1, <3>5, <3>8, <3>9
  <2> QED
    BY <2>1, <2>2
<1>4. WellFormed(s)
  BY <1>1, PlayerDidFinishType
<1> HIDE DEF s
<1>5. d \in SUBSET Nat /\ d \subseteq {s.currentIndex}
  BY <1>4 DEF WellFormed, App
<1> HIDE DEF d
<1>6. /\ WellFormed(t) /\ t.due = d
      /\ t.playlist = s.playlist /\ t.currentIndex = s.currentIndex
      /\ t.shown = s.shown /\ t.pageIndex = s.pageIndex /\ t.apart = s.apart
      /\ t.mainQueue = s.mainQueue
  BY <1>4, <1>5 DEF WellFormed, App
<1> HIDE DEF t
<1> DEFINE b == [op |-> "ended", page |-> app.shown]
           q == Append(app.mainQueue, b)
<1>7. /\ r.due = d /\ r.playlist = app.playlist /\ r.currentIndex = s.currentIndex
      /\ r.shown = app.shown /\ r.pageIndex = app.pageIndex /\ r.apart = app.apart
      /\ r.mainQueue = IF app.shown = NoPage THEN app.mainQueue ELSE q
  BY <1>3, <1>6 DEF WellFormed, App, SongDidPlayToEnd
<1>8. WellFormed(r)
  BY <1>6, SongDidPlayToEndType
<1> HIDE DEF r, q
<1>9. \A i \in DOMAIN app.mainQueue : app.mainQueue[i].op # "ended"
  BY <1>2 DEF EndedBlocks, RangeOf
<1>10. /\ DOMAIN app.mainQueue = 1..Len(app.mainQueue) /\ Len(app.mainQueue) \in Nat
       /\ DOMAIN q = 1..(Len(app.mainQueue) + 1)
       /\ q[Len(app.mainQueue) + 1] = b
       /\ \A i \in 1..Len(app.mainQueue) : q[i] = app.mainQueue[i]
  <2>1. app.mainQueue \in Seq(UNION {Block, {b}})
    BY DEF TypeOK, WellFormed, App
  <2> QED
    BY <2>1, AppendProperties, LenProperties DEF q
<1>11. /\ OneEnded(r)
       /\ app.shown = NoPage => EndedBlocks(r) = {}
       /\ app.shown # NoPage => EndedBlocks(r) = {b}
  <2>1. CASE app.shown = NoPage
    BY <1>2, <1>7, <1>9, <2>1 DEF OneEnded, EndedBlocks
  <2>2. CASE app.shown # NoPage
    <3>1. \A i \in DOMAIN q : q[i].op = "ended" => i = Len(app.mainQueue) + 1
      BY <1>9, <1>10
    <3>2. Len(app.mainQueue) + 1 \in DOMAIN q
      BY <1>10
    <3>3. OneEnded(r)
      BY <1>7, <2>2, <3>1 DEF OneEnded
    <3>4. EndedBlocks(r) = {b}
      BY <1>7, <1>10, <2>2, <3>1, <3>2 DEF EndedBlocks, RangeOf
    <3> QED
      BY <2>2, <3>3, <3>4
  <2> QED
    BY <2>1, <2>2
<1>12. app.shown # NoPage /\ ~app.apart => app.pageIndex[app.shown] = app.currentIndex
  BY <1>2 DEF Advances, Together
<1>13. Together(r)
  <2> SUFFICES ASSUME app.shown # NoPage, ~app.apart
               PROVE  \/ app.pageIndex[app.shown] = r.currentIndex
                      \/ /\ app.pageIndex[app.shown] < Len(app.playlist)
                         /\ \E c \in EndedBlocks(r) : c.page = app.shown
    BY <1>7 DEF Together
  <2>1. CASE app.playlist = <<>>
    BY <1>3, <1>7, <1>12, <2>1
  <2>2. CASE app.playlist # <<>>
    <3>1. b \in EndedBlocks(r) /\ b.page = app.shown
      BY <1>11
    <3>2. app.pageIndex[app.shown] < Len(app.playlist)
      BY <1>2, <1>12, <2>2 DEF Advances, Placed, InRange
    <3> QED
      BY <3>1, <3>2
  <2> QED
    BY <2>1, <2>2
<1>14. Lagging(r)
  <2> SUFFICES ASSUME d # {}
               PROVE  InRange(r) /\ \A c \in EndedBlocks(r) : Lags(r, c)
    BY <1>7 DEF Lagging
  <2>1. app.playlist # <<>> /\ ~app.apart
    BY DEF d
  <2>2. InRange(r)
    BY <1>3, <1>7, <2>1 DEF InRange
  <2>3. ASSUME NEW c \in EndedBlocks(r) PROVE Lags(r, c)
    <3>1. app.shown # NoPage /\ c.page = app.shown
      BY <1>11
    <3> QED
      BY <1>3, <1>7, <1>12, <2>1, <3>1 DEF Lags
  <2> QED
    BY <2>2, <2>3
<1>15. Placed(r)
  BY <1>3, <1>7 DEF Placed, InRange
<1>16. Advances(r)
  BY <1>5, <1>7, <1>11, <1>13, <1>14, <1>15 DEF Advances
<1> QED
  BY <1>2, <1>8, <1>16, StepAdvances

(* Taking the first block of the queue.                                    *)
LEMMA RunBlockAdvances ==
  ASSUME TypeOK, Advances(app), RunBlock PROVE Advances(app')
<1> DEFINE b == Head(app.mainQueue)
           s == [app EXCEPT !.mainQueue = Tail(app.mainQueue)]
<1>0. WellFormed(app) /\ app.crash = "no"
  BY DEF TypeOK, RunBlock, Step
<1>1. /\ app.mainQueue # <<>> /\ app.mainQueue \in Seq(Block)
      /\ b \in Block /\ Tail(app.mainQueue) \in Seq(Block)
  BY <1>0, HeadTailProperties DEF RunBlock, WellFormed, App
<1>2. /\ WellFormed(s) /\ s.mainQueue = Tail(app.mainQueue)
      /\ s.playlist = app.playlist /\ s.currentIndex = app.currentIndex
      /\ s.shown = app.shown /\ s.pageIndex = app.pageIndex /\ s.apart = app.apart
      /\ s.due = app.due /\ s.crash = app.crash
  BY <1>0, <1>1 DEF WellFormed, App
<1>3. Step(IF b.op = "ended" THEN HandleSwipToNext(s, b.page) ELSE Answered(s, b))
  BY DEF RunBlock
<1>4. /\ b.op = "ended" => b.page \in Pages
      /\ b.op # "ended" => b.op = "answered" /\ b.object \in Objects
  BY <1>1 DEF Block
<1> DEFINE n == Len(app.mainQueue)
<1>5. /\ n \in Nat /\ n > 0 /\ DOMAIN app.mainQueue = 1..n
      /\ DOMAIN s.mainQueue = 1..(n - 1)
      /\ \A i \in 1..(n - 1) : s.mainQueue[i] = app.mainQueue[i + 1]
      /\ b = app.mainQueue[1]
  BY <1>1, <1>2, HeadTailProperties, LenProperties, EmptySeq
<1> HIDE DEF b, s, n
<1>6. OneEnded(app) /\ Together(app) /\ Lagging(app) /\ Placed(app)
      /\ app.due \subseteq {app.currentIndex}
  BY <1>0 DEF Advances
<1>7. OneEnded(s)
  <2> SUFFICES ASSUME NEW i \in 1..(n - 1), NEW j \in 1..(n - 1),
                      s.mainQueue[i].op = "ended", s.mainQueue[j].op = "ended"
               PROVE  i = j
    BY <1>5 DEF OneEnded
  <2>1. i + 1 \in 1..n /\ j + 1 \in 1..n
    BY <1>5
  <2>2. i + 1 = j + 1
    BY <1>5, <1>6, <2>1 DEF OneEnded
  <2> QED
    BY <2>2
<1>8. EndedBlocks(s) \subseteq EndedBlocks(app)
  <2> SUFFICES ASSUME NEW i \in 1..(n - 1), s.mainQueue[i].op = "ended"
               PROVE  s.mainQueue[i] \in EndedBlocks(app)
    BY <1>5 DEF EndedBlocks, RangeOf
  <2>1. i + 1 \in 1..n
    BY <1>5
  <2> QED
    BY <1>5, <2>1 DEF EndedBlocks, RangeOf
<1>9. ASSUME b.op = "ended"
      PROVE  Advances(HandleSwipToNext(s, b.page)) /\ WellFormed(HandleSwipToNext(s, b.page))
  <2>1. EndedBlocks(s) = {}
    <3> SUFFICES ASSUME NEW i \in 1..(n - 1), s.mainQueue[i].op = "ended" PROVE FALSE
      BY <1>5 DEF EndedBlocks, RangeOf
    <3>1. i + 1 \in 1..n /\ 1 \in 1..n
      BY <1>5
    <3>2. i + 1 = 1
      BY <1>5, <1>6, <1>9, <3>1 DEF OneEnded
    <3> QED
      BY <3>2
  <2>2. b \in EndedBlocks(app)
    <3>1. 1 \in 1..n
      BY <1>5
    <3> QED
      BY <1>5, <1>9, <3>1 DEF EndedBlocks, RangeOf
  <2>3. CASE s.playlist = <<>>
    <3>1. HandleSwipToNext(s, b.page) = s
      BY <2>3 DEF HandleSwipToNext, ChangeToIndex
    <3>2. ~InRange(app)
      BY <1>2, <2>3, EmptySeq DEF InRange, WellFormed, App
    <3>3. app.due = {}
      BY <1>6, <3>2 DEF Lagging
    <3>4. Together(s)
      <4>1. app.shown # NoPage => app.pageIndex[app.shown] \in Nat
        BY <1>0 DEF WellFormed, App
      <4>2. Len(app.playlist) = 0
        BY <1>2, <2>3
      <4> QED
        BY <1>2, <1>6, <4>1, <4>2 DEF Together
    <3>5. Advances(s)
      BY <1>2, <1>7, <2>3, <3>3, <3>4 DEF Advances, Lagging, Placed
    <3> QED
      BY <1>2, <3>1, <3>5
  <2>4. CASE s.playlist # <<>>
    <3> DEFINE i == (s.pageIndex[b.page] + 1) % Len(s.playlist)
    <3>1. i \in Nat
      <4>1. Len(s.playlist) \in Nat /\ Len(s.playlist) > 0
        BY <1>2, <2>4, NonEmptyLength
      <4>2. s.pageIndex[b.page] + 1 \in Nat
        BY <1>2, <1>4, <1>9 DEF WellFormed, App
      <4> QED
        BY <4>1, <4>2, RemainderType
    <3>2. s.due # {} => InRange(s) /\ i = s.currentIndex
      BY <1>2, <1>6, <2>2 DEF Lagging, Lags, InRange
    <3>3. HandleSwipToNext(s, b.page) = ChangeToIndex(s, b.page, i)
      BY DEF HandleSwipToNext
    <3>4. s.due \subseteq {s.currentIndex}
      BY <1>2, <1>6
    <3> HIDE DEF i
    <3>5. Advances(ChangeToIndex(s, b.page, i))
      BY <1>2, <1>4, <1>7, <1>9, <2>1, <2>4, <3>1, <3>2, <3>4, ChangeToIndexAdvances
    <3> QED
      BY <1>2, <1>4, <1>9, <3>3, <3>5, SwipType
  <2> QED
    BY <2>3, <2>4
<1>10. ASSUME b.op # "ended" PROVE Advances(Answered(s, b)) /\ WellFormed(Answered(s, b))
  <2>1. EndedBlocks(app) \subseteq EndedBlocks(s)
    <3> SUFFICES ASSUME NEW i \in 1..n, app.mainQueue[i].op = "ended"
                 PROVE  app.mainQueue[i] \in EndedBlocks(s)
      BY <1>5 DEF EndedBlocks, RangeOf
    <3>1. i # 1
      BY <1>5, <1>10
    <3>2. i - 1 \in 1..(n - 1) /\ (i - 1) + 1 = i
      BY <1>5, <3>1
    <3>3. s.mainQueue[i - 1] = app.mainQueue[i]
      BY <1>5, <3>2
    <3> QED
      BY <1>5, <3>2, <3>3 DEF EndedBlocks, RangeOf
  <2>2. EndedBlocks(s) = EndedBlocks(app)
    BY <1>8, <2>1
  <2>3. Together(s)
    BY <1>2, <1>6, <2>2 DEF Together
  <2>4. Lagging(s)
    BY <1>2, <1>6, <2>2 DEF Lagging, Lags, InRange
  <2>5. Advances(s)
    BY <1>2, <1>6, <1>7, <2>3, <2>4 DEF Advances, Placed, InRange
  <2>6. Alike(s, Answered(s, b))
    <3>1. Alike(s, s) /\ Alike(s, Crashed(s, "range")) /\ Alike(s, PlayWithSong(s, b.object))
      BY <1>2, PlayingAlike DEF Alike
    <3> QED
      BY <3>1 DEF Answered
  <2> QED
    BY <1>1, <1>2, <1>4, <1>10, <2>5, <2>6, AlikeAdvances, AnsweredType
<1> QED
  BY <1>3, <1>9, <1>10, StepAdvances

(* The answers move no page, and open one only that nobody refers to.      *)
LEMMA AnsweredAdvances ==
  ASSUME TypeOK, Advances(app), NEW i \in DOMAIN app.fetches, FetchAnswered(i)
  PROVE  Advances(app')
<1> DEFINE f == app.fetches[i]
           s == [app EXCEPT !.fetches = Without(app.fetches, i)]
           u == [s EXCEPT !.heap[f.object].source = "url"]
<1>1. WellFormed(app)
  BY DEF TypeOK
<1>2. f \in Fetch /\ Without(app.fetches, i) \in Seq(Fetch)
  BY <1>1, WithoutType, ElementOfSeq DEF WellFormed, App
<1>3. WellFormed(s) /\ Alike(app, s)
  BY <1>1, <1>2 DEF WellFormed, App, Alike
<1> HIDE DEF f
<1>4. f.object \in Objects /\ f.page \in Pages \cup {NoPage}
  BY <1>2 DEF Fetch
<1>5. WellFormed(u) /\ Alike(s, u)
  <2> HIDE DEF s
  <2>1. /\ WellFormed(u) /\ u.playlist = s.playlist
        /\ u.currentIndex = s.currentIndex /\ u.crash = s.crash /\ u.shown = s.shown
        /\ u.pageIndex = s.pageIndex /\ u.apart = s.apart
        /\ u.mainQueue = s.mainQueue /\ u.due = s.due
    BY <1>3, <1>4, URLArrives
  <2> HIDE DEF u
  <2> QED
    BY <2>1 DEF Alike
<1>6. Advances(s) /\ Advances(u)
  BY <1>3, <1>5, AlikeAdvances
<1>7. CASE Step(s)
  BY <1>3, <1>6, <1>7, StepAdvances
<1>8. ASSUME NEW t \in {s, u},
             \/ f.by \in {"manager", "page"}
                /\ Step([t EXCEPT !.mainQueue = Append(t.mainQueue,
                     [op |-> "answered", by |-> f.by, object |-> f.object, page |-> f.page])])
             \/ f.by = "home" /\ Step(PlayCurrent(t))
             \/ f.by = "search" /\ t.shown # NoPage /\ Step(t)
             \/ f.by = "search" /\ t.shown = NoPage
                /\ \E p \in FreePages(t) : Step(OpenPage(t, p))
      PROVE  Advances(app')
  <2> WellFormed(t) /\ Advances(t)
    BY <1>3, <1>5, <1>6, <1>8
  <2> HIDE DEF s, u
  <2>1. ASSUME f.by \in {"manager", "page"},
               Step([t EXCEPT !.mainQueue = Append(t.mainQueue,
                 [op |-> "answered", by |-> f.by, object |-> f.object, page |-> f.page])])
        PROVE  Advances(app')
    <3> DEFINE b == [op |-> "answered", by |-> f.by, object |-> f.object, page |-> f.page]
               q == Append(t.mainQueue, b)
               v == [t EXCEPT !.mainQueue = q]
    <3>1. b \in Block /\ b.op # "ended"
      BY <1>4, <2>1 DEF Block
    <3> HIDE DEF b
    <3>2. q \in Seq(Block)
      BY <3>1 DEF WellFormed, App
    <3>3. /\ DOMAIN t.mainQueue = 1..Len(t.mainQueue) /\ Len(t.mainQueue) \in Nat
          /\ DOMAIN q = 1..(Len(t.mainQueue) + 1)
          /\ q[Len(t.mainQueue) + 1] = b
          /\ \A j \in 1..Len(t.mainQueue) : q[j] = t.mainQueue[j]
      BY <3>1, AppendProperties, LenProperties DEF WellFormed, App
    <3> HIDE DEF q
    <3>4. /\ WellFormed(v) /\ v.mainQueue = q
          /\ v.playlist = t.playlist /\ v.currentIndex = t.currentIndex
          /\ v.shown = t.shown /\ v.pageIndex = t.pageIndex /\ v.apart = t.apart
          /\ v.due = t.due /\ v.crash = t.crash
      BY <3>2 DEF WellFormed, App
    <3>5. Step(v)
      BY <2>1 DEF q, b
    <3> HIDE DEF v
    <3>6. OneEnded(v)
      <4>1. \A j \in DOMAIN q : q[j].op = "ended"
              => j \in DOMAIN t.mainQueue /\ t.mainQueue[j].op = "ended"
        BY <3>1, <3>3
      <4>2. OneEnded(t)
        BY DEF Advances
      <4> QED
        BY <3>4, <4>1, <4>2 DEF OneEnded
    <3>7. EndedBlocks(v) = EndedBlocks(t)
      <4>1. EndedBlocks(v) \subseteq EndedBlocks(t)
        BY <3>1, <3>3, <3>4 DEF EndedBlocks, RangeOf
      <4>2. EndedBlocks(t) \subseteq EndedBlocks(v)
        BY <3>3, <3>4 DEF EndedBlocks, RangeOf
      <4> QED
        BY <4>1, <4>2
    <3>8. Together(v)
      BY <3>4, <3>7 DEF Advances, Together
    <3>9. Lagging(v)
      BY <3>4, <3>7 DEF Advances, Lagging, Lags, InRange
    <3>10. Advances(v)
      BY <3>4, <3>6, <3>8, <3>9 DEF Advances, Placed, InRange
    <3> QED
      BY <3>4, <3>5, <3>10, StepAdvances
  <2>2. CASE f.by = "home" /\ Step(PlayCurrent(t))
    BY <2>2, PlayCurrentType, PlayCurrentAlike, AlikeAdvances, StepAdvances
  <2>3. CASE Step(t)
    BY <2>3, StepAdvances
  <2>4. ASSUME NEW p \in FreePages(t), Step(OpenPage(t, p)) PROVE Advances(app')
    <3>1. p \in Pages /\ OneEnded(t)
      BY DEF FreePages, Advances
    <3> QED
      BY <2>4, <3>1, OpenPageType, OpenPageAdvances, StepAdvances
  <2> QED
    BY <1>8, <2>1, <2>2, <2>3, <2>4
<1> QED
  BY <1>7, <1>8 DEF FetchAnswered, f

(* The touches on a player page and on the floating view.                  *)
LEMMA PageAdvances ==
  ASSUME TypeOK, Advances(app),
         PressNext \/ PressPrevious \/ PressSwitch \/ ClosePage \/ ReadCurrent
           \/ TapFloatingView \/ PressPlayerSwitches
  PROVE  Advances(app')
<1> WellFormed(app)
  BY DEF TypeOK
<1>1. app.shown # NoPage => app.shown \in Pages
  BY DEF WellFormed, App
<1>2. CASE PressNext \/ PressPrevious
  <2> DEFINE s == Moved(app)
  <2>1. /\ WellFormed(s) /\ s.due = {} /\ s.mainQueue = app.mainQueue
        /\ s.playlist = app.playlist /\ s.currentIndex = app.currentIndex
        /\ s.shown = app.shown /\ s.pageIndex = app.pageIndex /\ s.apart = app.apart
        /\ s.crash = app.crash
    BY MovedType DEF WellFormed, App, Moved
  <2> HIDE DEF s
  <2>2. EndedBlocks(s) = EndedBlocks(app)
    BY <2>1 DEF EndedBlocks
  <2>3. Together(s) /\ OneEnded(s)
    BY <2>1, <2>2 DEF Advances, Together, OneEnded
  <2>4. Advances(s)
    BY <2>1, <2>3 DEF Advances, Placed, InRange, Lagging
  <2>5. app.shown # NoPage =>
          /\ Advances(HandleSwipToNext(s, app.shown))
          /\ Advances(HandleSwipToPrevious(s, app.shown))
    BY <1>1, <2>1, <2>4, SwipAdvances
  <2> QED
    BY <1>1, <1>2, <2>1, <2>5, SwipType, TouchAdvances DEF PressNext, PressPrevious, s
<1>3. CASE PressSwitch
  BY <1>3, PlayType, PlayingAlike, AlikeAdvances, TouchAdvances DEF PressSwitch
<1>4. CASE ClosePage
  <2> DEFINE s == [app EXCEPT !.shown = NoPage, !.apart = FALSE]
  <2>1. /\ WellFormed(s) /\ s.due = app.due /\ s.mainQueue = app.mainQueue
        /\ s.playlist = app.playlist /\ s.currentIndex = app.currentIndex
        /\ s.shown = NoPage /\ s.pageIndex = app.pageIndex /\ s.crash = app.crash
    BY DEF WellFormed, App
  <2>2. Touch(s)
    BY <1>4 DEF ClosePage
  <2> HIDE DEF s
  <2>3. EndedBlocks(s) = EndedBlocks(app) /\ OneEnded(s)
    BY <2>1 DEF EndedBlocks, OneEnded, Advances
  <2>4. Together(s) /\ Lagging(s)
    BY <2>1, <2>3 DEF Together, Lagging, Lags, InRange, Advances
  <2>5. Advances(s)
    BY <2>1, <2>3, <2>4 DEF Advances, Placed, InRange
  <2> QED
    BY <2>1, <2>2, <2>5, TouchAdvances
<1>5. CASE ReadCurrent
  <2>1. \A why \in {"range", "pageRange"} :
          WellFormed(Crashed(app, why)) /\ Advances(Crashed(app, why))
    BY CrashedType, PlayingAlike, AlikeAdvances
  <2> QED
    BY <1>5, <2>1, TouchAdvances DEF ReadCurrent
<1>6. CASE TapFloatingView
  <2>1. PICK p \in FreePages(app) : Touch(OpenPage(app, p))
    BY <1>6 DEF TapFloatingView
  <2>2. p \in Pages /\ OneEnded(app)
    BY DEF FreePages, Advances
  <2> QED
    BY <2>1, <2>2, OpenPageType, OpenPageAdvances, TouchAdvances
<1>7. CASE PressPlayerSwitches
  <2>1. WellFormed(Crashed(app, "range")) /\ Advances(Crashed(app, "range"))
    BY CrashedType, PlayingAlike, AlikeAdvances
  <2>2. /\ WellFormed(Play(app)) /\ Advances(Play(app))
        /\ WellFormed(Pause(app)) /\ Advances(Pause(app))
    BY PlayType, PlayingAlike, AlikeAdvances
  <2>3. InRange(app) => /\ WellFormed(Request(app, "home", Current(app), NoPage))
                        /\ Advances(Request(app, "home", Current(app), NoPage))
    BY CurrentType, RequestType, PlayingAlike, AlikeAdvances
  <2> QED
    BY <1>7, <2>1, <2>2, <2>3, TouchAdvances DEF PressPlayerSwitches
<1> QED
  BY <1>2, <1>3, <1>4, <1>5, <1>6, <1>7

(* Whoever changes the list settles what was due, and says where the list  *)
(* now is.                                                                 *)
LEMMA PickAdvances ==
  ASSUME TypeOK, Advances(app),
         PickCached \/ PickDownloaded \/ PlayAllDownloads \/ PickInList
           \/ PlayList \/ PickFound \/ PressRecommended \/ Land
  PROVE  Advances(app')
<1>0. WellFormed(app) /\ OneEnded(app)
  BY DEF TypeOK, Advances
<1> FreeObjects(app) \subseteq Objects /\ FreePages(app) \subseteq Pages
  BY DEF FreeObjects, FreePages
<1>1. \A song \in Songs, source \in Source : [song |-> song, source |-> source] \in Model
  BY DEF Model
<1>2. {"null", "none", "url", "file"} = Source
  BY DEF Source
<1>3. CASE PickCached \/ PickDownloaded
  <2>1. PICK source \in {"null", "file"} : PickKept(source)
    BY <1>3 DEF PickCached, PickDownloaded
  <2>2. PICK song \in Songs, o \in FreeObjects(app), p \in FreePages(app) :
          Touch(OpenPage(PlayFirst(app, o, [song |-> song, source |-> source]), p))
    BY <2>1 DEF PickKept
  <2> DEFINE m == [song |-> song, source |-> source]
             s == PlayFirst(app, o, m)
  <2>3. m \in Model
    BY <1>1, <1>2
  <2> HIDE DEF m
  <2>4. WellFormed(s) /\ s.due = {} /\ s.mainQueue = app.mainQueue
    BY <1>0, <2>3, PlayFirstType, PlayFirstEffect
  <2>5. Touch(OpenPage(s, p))
    BY <2>2 DEF m
  <2> HIDE DEF s
  <2>6. OneEnded(s)
    BY <1>0, <2>4, SameQueue
  <2>7. Advances(OpenPage(s, p))
    BY <2>4, <2>6, OpenPageAdvances
  <2> QED
    BY <2>4, <2>5, <2>6, <2>7, OpenPageType, TouchAdvances
<1>4. CASE PlayAllDownloads
  <2>0. PICK songs \in SongLists : \E os \in NewObjects(app, Len(songs)) :
          Touch(PlayCurrent([ReplaceList(Stop(app), os, songs, "file")
                               EXCEPT !.currentIndex = 0]))
    BY <1>4 DEF PlayAllDownloads
  <2>1. PICK os \in NewObjects(app, Len(songs)) :
          Touch(PlayCurrent([ReplaceList(Stop(app), os, songs, "file")
                               EXCEPT !.currentIndex = 0]))
    BY <2>0
  <2> DEFINE a == Stop(app)
             u == ReplaceList(a, os, songs, "file")
             t == [u EXCEPT !.currentIndex = 0]
  <2>2. WellFormed(a) /\ a.mainQueue = app.mainQueue /\ a.shown = NoPage
    BY <1>0, <1>4, StopType, PlayingAlike DEF Alike, PlayAllDownloads
  <2>3. os \in NewObjects(a, Len(songs))
    BY <1>0, StopNewObjects
  <2> HIDE DEF a
  <2>4. WellFormed(u) /\ u.due = {} /\ u.mainQueue = a.mainQueue /\ u.shown = a.shown
    BY <1>2, <2>2, <2>3, ReplaceListType, ReplaceListEffect
  <2>7. Touch(PlayCurrent(t))
    BY <2>1 DEF u, a
  <2> HIDE DEF u
  <2>5. /\ WellFormed(t) /\ t.due = {} /\ t.mainQueue = u.mainQueue /\ t.shown = u.shown
        /\ t.currentIndex = 0
    BY <2>4 DEF WellFormed, App
  <2> HIDE DEF t
  <2>6. Placed(t)
    BY <2>5, NonEmptyLength DEF Placed, InRange
  <2>8. Advances(t)
    BY <1>0, <2>2, <2>4, <2>5, <2>6, SameQueue, NothingDue
  <2> QED
    BY <2>5, <2>7, <2>8, PlayCurrentType, PlayCurrentAlike, AlikeAdvances, TouchAdvances
<1>5. CASE PickInList
  <2>1. PICK song \in Songs, o \in FreeObjects(app), p \in FreePages(app) :
          LET s == Allocate(app, o, [song |-> song, source |-> "null"])
              n == Len(app.playlist)
              t == InsertFirst(IF n \in Matches(app, song)
                               THEN [s EXCEPT !.playlist = Without(s.playlist, n)] ELSE s, o)
          IN  Touch(IF \E i \in Matches(app, song) : i < n THEN Crashed(s, "mutated")
                    ELSE IF ~InRange(t) THEN Crashed(t, "range")
                    ELSE OpenPage(t, p))
    BY <1>5 DEF PickInList
  <2> DEFINE s == Allocate(app, o, [song |-> song, source |-> "null"])
             n == Len(app.playlist)
             w == Without(s.playlist, n)
             r == [s EXCEPT !.playlist = w]
             q == IF n \in Matches(app, song) THEN r ELSE s
             t == InsertFirst(q, o)
  <2>2. WellFormed(s) /\ Alike(app, s)
    BY <1>0, <1>1, <1>2, AllocateType, PlayingAlike
  <2>4. n \in Matches(app, song) => n \in DOMAIN s.playlist
    BY <2>2 DEF Matches, Alike
  <2>5. Touch(IF \E i \in Matches(app, song) : i < n THEN Crashed(s, "mutated")
              ELSE IF ~InRange(t) THEN Crashed(t, "range")
              ELSE OpenPage(t, p))
    BY <2>1
  <2> HIDE DEF s, n
  <2>7. n \in Matches(app, song) => w \in Seq(Objects)
    BY <2>2, <2>4, WithoutType DEF WellFormed, App
  <2> HIDE DEF w
  <2>8. WellFormed(q) /\ q.mainQueue = s.mainQueue /\ q.shown = s.shown
    BY <2>2, <2>7 DEF WellFormed, App
  <2> HIDE DEF q
  <2>9. WellFormed(t) /\ t.mainQueue = q.mainQueue /\ t.shown = q.shown /\ t.due = {}
    BY <2>8, InsertFirstType DEF InsertFirst, WellFormed, App
  <2> HIDE DEF t
  <2>10. OneEnded(t) /\ t.shown = NoPage
    BY <1>0, <1>5, <2>2, <2>8, <2>9, SameQueue DEF Alike, PickInList
  <2>11. Advances(Crashed(s, "mutated"))
    BY <2>2, AlikeAdvances, PlayingAlike
  <2>12. Advances(Crashed(t, "range"))
    <3> DEFINE c == Crashed(t, "range")
    <3>1. c.mainQueue = t.mainQueue /\ c.due = {} /\ c.shown = NoPage /\ c.crash = "range"
      BY <2>9, <2>10 DEF Crashed, WellFormed, App
    <3> HIDE DEF c
    <3>2. Advances(c)
      BY <2>10, <3>1, SameQueue, NothingDue
    <3> QED
      BY <3>2 DEF c
  <2>13. Advances(OpenPage(t, p))
    BY <2>9, <2>10, OpenPageAdvances
  <2>14. /\ WellFormed(Crashed(s, "mutated")) /\ WellFormed(Crashed(t, "range"))
         /\ WellFormed(OpenPage(t, p))
    BY <2>2, <2>9, CrashedType, OpenPageType
  <2> QED
    BY <2>5, <2>11, <2>12, <2>13, <2>14, TouchAdvances
<1>6. CASE PlayList
  <2>0. PICK songs \in SongLists : \E os \in NewObjects(app, Len(songs)) :
          \E p \in FreePages(app) : Touch(OpenPage(ReplaceList(app, os, songs, "null"), p))
    BY <1>6 DEF PlayList
  <2>1. PICK os \in NewObjects(app, Len(songs)), p \in FreePages(app) :
          Touch(OpenPage(ReplaceList(app, os, songs, "null"), p))
    BY <2>0
  <2> DEFINE s == ReplaceList(app, os, songs, "null")
  <2>2. WellFormed(s) /\ s.due = {} /\ s.mainQueue = app.mainQueue
    BY <1>0, <1>2, ReplaceListType, ReplaceListEffect
  <2>3. Touch(OpenPage(s, p))
    BY <2>1
  <2> HIDE DEF s
  <2>4. OneEnded(s)
    BY <1>0, <2>2, SameQueue
  <2>7. Advances(OpenPage(s, p))
    BY <2>2, <2>4, OpenPageAdvances
  <2> QED
    BY <2>2, <2>3, <2>4, <2>7, OpenPageType, TouchAdvances
<1>7. CASE PickFound
  <2>1. PICK song \in Songs, o \in FreeObjects(app) :
          LET s == InsertFirst(Allocate(app, o, [song |-> song, source |-> "null"]), o)
          IN  Touch(Request([s EXCEPT !.currentIndex = 0], "search", o, NoPage))
    BY <1>7 DEF PickFound
  <2> DEFINE a == Allocate(app, o, [song |-> song, source |-> "null"])
             s == InsertFirst(a, o)
             t == [s EXCEPT !.currentIndex = 0]
  <2>2. WellFormed(a) /\ a.mainQueue = app.mainQueue /\ a.shown = NoPage
    BY <1>0, <1>1, <1>2, <1>7, AllocateType, PlayingAlike DEF Alike, PickFound
  <2>9. Touch(Request(t, "search", o, NoPage))
    BY <2>1
  <2> HIDE DEF a
  <2>4. WellFormed(s) /\ s.mainQueue = a.mainQueue /\ s.shown = a.shown /\ s.due = {}
    BY <2>2, InsertFirstType DEF InsertFirst, WellFormed, App
  <2> HIDE DEF s
  <2>5. /\ WellFormed(t) /\ t.due = {} /\ t.mainQueue = s.mainQueue /\ t.shown = s.shown
        /\ t.currentIndex = 0
    BY <2>4 DEF WellFormed, App
  <2> HIDE DEF t
  <2>6. Placed(t)
    BY <2>5, NonEmptyLength DEF Placed, InRange
  <2>7. Advances(t)
    BY <1>0, <2>2, <2>4, <2>5, <2>6, SameQueue, NothingDue
  <2>8. /\ WellFormed(Request(t, "search", o, NoPage))
        /\ Advances(Request(t, "search", o, NoPage))
    BY <2>5, <2>7, RequestType, PlayingAlike, AlikeAdvances
  <2> QED
    BY <2>8, <2>9, TouchAdvances
<1>8. CASE PressRecommended
  <2>1. PICK song \in Songs, source \in {"none", "url"} :
          Touch([app EXCEPT !.flying = <<[song |-> song, source |-> source]>>])
    BY <1>8 DEF PressRecommended
  <2> DEFINE m == [song |-> song, source |-> source]
             s == [app EXCEPT !.flying = <<m>>]
  <2>2. <<m>> \in Seq(Model)
    BY <1>1, <1>2
  <2>4. Touch(s)
    BY <2>1
  <2> HIDE DEF m
  <2>3. WellFormed(s) /\ Alike(app, s)
    BY <1>0, <2>2 DEF WellFormed, App, Alike
  <2> HIDE DEF s
  <2> QED
    BY <2>3, <2>4, AlikeAdvances, TouchAdvances
<1>9. CASE Land
  <2>1. PICK o \in FreeObjects(app) :
          LET s == PlayFirst([app EXCEPT !.flying = Tail(app.flying)], o, Head(app.flying))
          IN  Step(Play([s EXCEPT !.apart = app.shown # NoPage]))
    BY <1>9 DEF Land
  <2>2. Head(app.flying) \in Model /\ Tail(app.flying) \in Seq(Model)
    BY <1>0, <1>9, HeadTailProperties DEF Land, WellFormed, App
  <2> DEFINE f == [app EXCEPT !.flying = Tail(app.flying)]
             s == PlayFirst(f, o, Head(app.flying))
             a == app.shown # NoPage
             t == [s EXCEPT !.apart = a]
  <2>7. Step(Play(t))
    BY <2>1
  <2>3. WellFormed(f) /\ f.mainQueue = app.mainQueue /\ f.shown = app.shown
    BY <1>0, <2>2 DEF WellFormed, App
  <2> HIDE DEF f
  <2>4. /\ WellFormed(s) /\ a \in BOOLEAN /\ InRange(s) /\ s.due = {}
        /\ s.mainQueue = f.mainQueue /\ s.shown = f.shown
    BY <2>2, <2>3, PlayFirstType, PlayFirstEffect
  <2> HIDE DEF s, a
  <2>5. /\ WellFormed(t) /\ t.due = s.due /\ t.mainQueue = s.mainQueue
        /\ t.shown = s.shown /\ t.apart = a /\ InRange(t)
    BY <2>4 DEF WellFormed, App, InRange
  <2> HIDE DEF t
  <2>6. t.shown = NoPage \/ t.apart
    BY <2>3, <2>4, <2>5 DEF a
  <2>8. Advances(t)
    BY <1>0, <2>3, <2>4, <2>5, <2>6, SameQueue, NothingDue DEF Placed
  <2> QED
    BY <2>5, <2>7, <2>8, PlayType, PlayingAlike, AlikeAdvances, StepAdvances
<1> QED
  BY <1>3, <1>4, <1>5, <1>6, <1>7, <1>8, <1>9

(* Every step keeps the page one behind at most.                           *)
LEMMA AdvancesNext == TypeOK /\ Advances(app) /\ [Next]_app => Advances(app')
<1> SUFFICES ASSUME TypeOK, Advances(app), [Next]_app PROVE Advances(app')
  OBVIOUS
<1>0. WellFormed(app)
  BY DEF TypeOK
<1>1. CASE ReadyToPlay
  <2> DEFINE s == [app EXCEPT !.status = "ready"]
  <2>1. WellFormed(s) /\ Alike(app, s)
    BY <1>0, <1>1 DEF ReadyToPlay, WellFormed, App, Alike
  <2>2. Step(Play(s))
    BY <1>1 DEF ReadyToPlay
  <2> HIDE DEF s
  <2>3. WellFormed(Play(s)) /\ Advances(Play(s))
    BY <2>1, PlayType, PlayingAlike, AlikeAdvances
  <2> QED
    BY <2>2, <2>3, StepAdvances
<1>2. CASE ItemFailed
  <2> DEFINE s == [app EXCEPT !.status = "failed", !.state = "Stopped"]
  <2>1. WellFormed(s) /\ Alike(app, s)
    BY <1>0, <1>2 DEF ItemFailed, WellFormed, App, MusicPlayerState, Alike
  <2>2. Step(s)
    BY <1>2 DEF ItemFailed
  <2> HIDE DEF s
  <2> QED
    BY <2>1, <2>2, AlikeAdvances, StepAdvances
<1>3. CASE UNCHANGED app
  BY <1>3
<1> QED
  BY <1>1, <1>2, <1>3, SongEndsAdvances, RunBlockAdvances, AnsweredAdvances,
     PageAdvances, PickAdvances DEF Next

(* For all lists, songs and pages: manager and page together advance by    *)
(* one when a song ends, whenever the block of the page runs.              *)
THEOREM OneAdvanceForOneEnd == Spec => []OneAdvancePerEnd
<1>1. Advances(app) => OneAdvancePerEnd
  BY DEF Advances, OneAdvancePerEnd
<1>2. TypeOK /\ Advances(app) /\ [Next]_app => TypeOK' /\ Advances(app)'
  BY AdvancesNext, TypeNext
<1>3. Init => TypeOK /\ Advances(app)
  BY TypeInit, AdvancesInit
<1> QED
  BY <1>1, <1>2, <1>3, PTL DEF Spec

(* For all lists, songs and pages: unless a play button emptied the list,  *)
(* the list's index and the shown page's are positions of it, and the app  *)
(* raises for the page's index only when a recommended song has landed     *)
(* under it.                                                               *)
THEOREM IndexStaysInRange == Spec => []IndexInRange
<1>1. TypeOK /\ Advances(app) /\ ListInRange => IndexInRange
  <2> SUFFICES ASSUME TypeOK, Advances(app), ListInRange, ~app.emptied
               PROVE  /\ InRange(app) /\ app.crash # "range"
                      /\ app.shown # NoPage /\ ~app.apart
                           => app.pageIndex[app.shown] < Len(app.playlist)
                      /\ app.crash = "pageRange" => app.apart
    BY DEF IndexInRange
  <2>1. /\ InRange(app) /\ app.crash # "range"
        /\ app.crash = "pageRange"
             => app.shown # NoPage /\ app.pageIndex[app.shown] >= Len(app.playlist)
    BY DEF ListInRange
  <2> DEFINE n == Len(app.playlist)
  <2>2. n \in Nat /\ (app.shown # NoPage => app.pageIndex[app.shown] \in Nat)
    BY LenProperties DEF TypeOK, WellFormed, App
  <2>3. app.shown # NoPage /\ ~app.apart => app.pageIndex[app.shown] < n
    BY <2>1 DEF Advances, Together, InRange
  <2> HIDE DEF n
  <2>4. app.crash = "pageRange" => app.apart
    <3>1. app.crash = "pageRange" => app.shown # NoPage /\ app.pageIndex[app.shown] >= n
      BY <2>1 DEF n
    <3> QED
      BY <2>2, <2>3, <3>1
  <2> QED
    BY <2>1, <2>3, <2>4 DEF n
<1>2. TypeOK /\ Advances(app) /\ ListInRange /\ [Next]_app
        => TypeOK' /\ Advances(app)' /\ ListInRange'
  BY AdvancesNext, TypeNext, RangeNext
<1>3. Init => TypeOK /\ Advances(app) /\ ListInRange
  BY TypeInit, AdvancesInit, RangeInit
<1> QED
  BY <1>1, <1>2, <1>3, PTL DEF Spec
=============================================================================
