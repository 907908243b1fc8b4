---------------------------- MODULE MusicPlayer ----------------------------
(***************************************************************************)
(* What is played, and who says so: MusicPlayerManager (the AVPlayer),     *)
(* PlaylistManager (the list and the current index) and                    *)
(* MusicPlayerController (the player page, which shares the list and keeps *)
(* an index of its own), with the pages that change the list.              *)
(*                                                                         *)
(* Everything runs on the main thread.  A step is one touch, one answer of *)
(* the network, one notification of AVPlayer, or one block of the main     *)
(* queue.  A method of the code is an operator from the state of the app   *)
(* to the state it leaves, so that methods call each other as in the code. *)
(***************************************************************************)
EXTENDS Integers, Sequences, FiniteSets

CONSTANTS
  Songs,       (* song ids *)
  NoSong,
  Objects,     (* SongPlayingModel objects; bound: so many exist at a time *)
  MaxHeld,     (* bound: so many of them are still held when a step ends   *)
  NoObject,
  Pages,       (* player pages; bound: so many are in memory at a time *)
  NoPage,
  SongLists,   (* what a play history, a list page or the downloads hold *)
  MaxFetches,  (* bound: requests for a song's URL that are in flight, or  *)
               (* answered by a block still to run, at a time              *)
  MaxTouches   (* bound: what the user does in all *)

ASSUME PlayerAssumption ==
  /\ NoSong \notin Songs /\ NoObject \notin Objects /\ NoPage \notin Pages
  /\ SongLists \subseteq Seq(Songs)
  /\ MaxHeld \in Nat /\ MaxFetches \in Nat /\ MaxTouches \in Nat

VARIABLE app

(* audioResources of a model object: "null" is the string the code writes  *)
(* for a URL not fetched yet, "none" is nil, "file" the name of a download.*)
Source == {"null", "none", "url", "file"}

Freed == [song |-> NoSong, source |-> "none"]
Model == [song : Songs \cup {NoSong}, source : Source]

MusicPlayerState == {"Stopped", "Playing", "Paused", "Buffering"}

(* A request for a song's URL, and a block of the main queue: the one that *)
(* songDidPlayToEnd submits, or the one an answer submits.                 *)
Fetch == [by : {"manager", "page", "home", "search"},
          object : Objects, page : Pages \cup {NoPage}]
Block == [op : {"ended"}, page : Pages]
           \cup [op : {"answered"}, by : {"manager", "page"},
                 object : Objects, page : Pages \cup {NoPage}]

App == [heap : [Objects -> Model],        (* the model objects *)
        playlist : Seq(Objects),          (* PlaylistManager.playlist *)
        currentIndex : Nat,               (* PlaylistManager.currentIndex *)
        item : Objects \cup {NoObject},   (* the song of the AVPlayerItem *)
        status : {"none", "unknown", "ready", "failed", "ended"},
        state : MusicPlayerState,         (* MusicPlayerManager.state *)
        currentURL : Model,               (* what it was made from *)
        shown : Pages \cup {NoPage},      (* the page on the screen *)
        pageIndex : [Pages -> Nat],       (* its own currentIndex *)
        flying : Seq(Model),              (* recommended songs on their way *)
        fetches : Seq(Fetch),
        mainQueue : Seq(Block),
        crash : {"no", "range", "pageRange", "mutated"},
        touches : Nat,                    (* counts to MaxTouches *)
        (* History: a play button has left the list empty; the list has    *)
        (* moved under the shown page; the index the last song's end has   *)
        (* led to, until something else moves it.                          *)
        emptied : BOOLEAN,
        apart : BOOLEAN,
        due : SUBSET Nat]

RangeOf(seq) == {seq[i] : i \in DOMAIN seq}
Without(seq, i) == SubSeq(seq, 1, i - 1) \o SubSeq(seq, i + 1, Len(seq))

----------------------------------------------------------------------------
(* What the objects hold alive. *)
HeldObjects(s) ==
  RangeOf(s.playlist) \cup {s.item} \cup {f.object : f \in RangeOf(s.fetches)}
    \cup {b.object : b \in {c \in RangeOf(s.mainQueue) : c.op = "answered"}}

EndedBlocks(s) == {b \in RangeOf(s.mainQueue) : b.op = "ended"}

(* A page lives while it is shown, or retained by a block to run. *)
Alive(s, p) == p = s.shown \/ \E b \in EndedBlocks(s) : b.page = p

(* A page nobody refers to, weakly or not. *)
FreePages(s) ==
  Pages \ ({s.shown} \cup {f.page : f \in RangeOf(s.fetches)}
                     \cup {b.page : b \in RangeOf(s.mainQueue)})
FreeObjects(s) == Objects \ HeldObjects(s)

(* Reference counting at the end of a step. *)
Released(s) ==
  [s EXCEPT !.heap = [o \in Objects |-> IF o \in HeldObjects(s) THEN @[o] ELSE Freed],
            !.pageIndex = [p \in Pages |-> IF p \in FreePages(s) THEN 0 ELSE @[p]]]

InRange(s) == s.currentIndex < Len(s.playlist)
Current(s) == s.playlist[s.currentIndex + 1]
Crashed(s, why) == [s EXCEPT !.crash = why]

(* The URL made of a source: of "null" the same one for every song. *)
URL(m) == IF m.source \in {"null", "none"} THEN [Freed EXCEPT !.source = m.source] ELSE m

NoSource(m) == m.source \in {"null", "none"}

----------------------------------------------------------------------------
(* MusicPlayerManager *)

Request(s, by, o, p) ==
  [s EXCEPT !.fetches = Append(@, [by |-> by, object |-> o, page |-> p])]

(* The slip of emptying the player and keeping currentItem. *)
StopKeepingItem(s) == [s EXCEPT !.status = "none", !.state = "Stopped"]

Stop(s) == [s EXCEPT !.item = NoObject, !.status = "none", !.state = "Stopped"]

(* Without a URL it returns before it stops the item that plays. *)
PlayWithSong(s, o) ==
  LET m == s.heap[o]
      t == [s EXCEPT !.currentURL = URL(m)]
  IN  IF m.source = "none" THEN t
      ELSE [t EXCEPT !.item = o, !.status = "unknown", !.state = "Buffering"]

Play(s) == IF s.item = NoObject THEN s ELSE [s EXCEPT !.state = "Playing"]
Pause(s) == [s EXCEPT !.state = "Paused"]

(* playerDidFinish: the manager advances, and plays or asks for the URL. *)
PlayerDidFinish(s) ==
  IF s.playlist = <<>> THEN s
  ELSE LET next == s.currentIndex + 1
           t == [s EXCEPT !.currentIndex = IF next >= Len(s.playlist) THEN 0 ELSE next]
           o == Current(t)
       IN  IF NoSource(t.heap[o]) THEN Request(t, "manager", o, NoPage)
           ELSE PlayWithSong(t, o)

(* songDidPlayToEnd of the shown page: it will advance as well. *)
SongDidPlayToEnd(s) ==
  IF s.shown = NoPage THEN s
  ELSE [s EXCEPT !.mainQueue = Append(@, [op |-> "ended", page |-> s.shown])]

----------------------------------------------------------------------------
(* MusicPlayerController *)

(* The slip of trusting the index it is given. *)
Unclamped(i, n) == i

Clamped(i, n) == IF i >= n THEN 0 ELSE i

(* prepareAndPlayCurrentSong *)
PrepareAndPlay(s, p) ==
  LET o == s.playlist[s.pageIndex[p] + 1]
  IN  IF NoSource(s.heap[o]) THEN Request(s, "page", o, p) ELSE PlayWithSong(s, o)

SameSong(s, m) ==
  /\ s.currentURL.source # "none"
  /\ m.source # "none"
  /\ s.currentURL = URL(m)

ChangeToIndex(s, p, i) ==
  IF s.playlist = <<>> THEN s
  ELSE LET n == Clamped(i, Len(s.playlist))
           t == [s EXCEPT !.currentIndex = n, !.pageIndex[p] = n,
                          !.apart = /\ p # s.shown
                                    /\ \/ @
                                       \/ s.shown # NoPage /\ s.pageIndex[s.shown] # n]
       IN  IF ~InRange(t) THEN Crashed(t, "range")
           ELSE IF SameSong(t, t.heap[Current(t)]) /\ t.state = "Playing" THEN t
           ELSE PrepareAndPlay(Stop(t), p)

(* jumpToPlayerViewController: the page reads the list's index, and its    *)
(* viewDidLoad plays it.                                                   *)
OpenPage(s, p) ==
  ChangeToIndex([s EXCEPT !.shown = p, !.pageIndex[p] = s.currentIndex], p, s.currentIndex)

(* The slip of advancing from where the manager has advanced to. *)
AdvanceFromList(s, p) ==
  ChangeToIndex(s, p, (s.currentIndex + 1) % Len(s.playlist))

(* From the page's own index.  On arm64 a remainder by zero does not trap, *)
(* and changeToIndex returns when it finds the list empty.                 *)
HandleSwipToNext(s, p) ==
  ChangeToIndex(s, p, (s.pageIndex[p] + 1) % Len(s.playlist))

HandleSwipToPrevious(s, p) ==
  ChangeToIndex(s, p, (s.pageIndex[p] - 1 + Len(s.playlist)) % Len(s.playlist))

----------------------------------------------------------------------------
(* Lists of model objects *)

(* The positions of song in the list that the dedupe loop removes: having  *)
(* removed one it steps over the next.                                     *)
Matches(s, song) == {i \in DOMAIN s.playlist : s.heap[s.playlist[i]].song = song}
Dropped(s, song) ==
  {i \in Matches(s, song) :
     \E j \in 1..i : /\ j..i \subseteq Matches(s, song)
                     /\ j - 1 \notin Matches(s, song)
                     /\ (i - j) % 2 = 0}

(* The k-th of a set of positions. *)
Nth(set, k) == CHOOSE i \in set : Cardinality({j \in set : j <= i}) = k
Remaining(seq, gone) ==
  LET kept == DOMAIN seq \ gone
  IN  [k \in 1..Cardinality(kept) |-> seq[Nth(kept, k)]]

(* A new object for song is put at the head of the list. *)
Allocate(s, o, m) == [s EXCEPT !.heap[o] = m]
InsertFirst(s, o) == [s EXCEPT !.playlist = <<o>> \o @, !.due = {}]
Dedupe(s, song) == [s EXCEPT !.playlist = Remaining(@, Dropped(s, song))]

(* What the code does to move a song to the head and play it. *)
PlayFirst(s, o, m) ==
  LET t == InsertFirst(Dedupe(Allocate(s, o, m), m.song), o)
  IN  [PlayWithSong(t, o) EXCEPT !.currentIndex = 0]

(* New objects os for a list of songs take the place of the list. *)
ReplaceList(s, os, songs, source) ==
  [s EXCEPT !.heap = [o \in Objects |->
                        IF \E i \in DOMAIN os : os[i] = o
                        THEN [song |-> songs[CHOOSE i \in DOMAIN os : os[i] = o],
                              source |-> source]
                        ELSE @[o]],
            !.playlist = os,
            !.emptied = @ \/ os = <<>>,
            !.due = {}]

NewObjects(s, n) ==
  {os \in [1..n -> FreeObjects(s)] : \A i, j \in 1..n : os[i] = os[j] => i = j}
----------------------------------------------------------------------------
(* The steps.  An exception ends the app. *)
IsAnswer(b) == b.op = "answered"
Step(s) ==
  /\ app.crash = "no"
  /\ Len(s.fetches) + Len(SelectSeq(s.mainQueue, IsAnswer)) <= MaxFetches
  /\ Cardinality(HeldObjects(s) \ {NoObject}) <= MaxHeld
  /\ app' = Released(s)

Touch(s) == app.touches < MaxTouches /\ Step([s EXCEPT !.touches = @ + 1])

Empty ==
  [heap |-> [o \in Objects |-> Freed], playlist |-> <<>>, currentIndex |-> 0,
   item |-> NoObject, status |-> "none", state |-> "Stopped",
   currentURL |-> Freed, shown |-> NoPage, pageIndex |-> [p \in Pages |-> 0],
   flying |-> <<>>, fetches |-> <<>>, mainQueue |-> <<>>,
   crash |-> "no", touches |-> 0, emptied |-> FALSE, apart |-> FALSE, due |-> {}]

(* fetchSongDataFromDataBase: the list is the play history, which must not *)
(* be empty.                                                               *)
Init ==
  \E songs \in SongLists \ {<<>>} : \E os \in NewObjects(Empty, Len(songs)) :
    app = ReplaceList(Empty, os, songs, "null")

(* AVPlayer reports through the main queue: what it reports of an item     *)
(* comes behind the blocks submitted before the item was loaded.           *)
ReadyToPlay ==
  /\ app.status = "unknown"
  /\ EndedBlocks(app) = {}
  /\ Step(Play([app EXCEPT !.status = "ready"]))

ItemFailed ==
  /\ app.status = "unknown"
  /\ EndedBlocks(app) = {}
  /\ Step([app EXCEPT !.status = "failed", !.state = "Stopped"])

(* AVPlayerItemDidPlayToEnd, with its observers in the order they came. *)
SongEnds ==
  /\ app.status = "ready" /\ app.state = "Playing"
  /\ EndedBlocks(app) = {}
  /\ LET s == PlayerDidFinish([app EXCEPT !.status = "ended"])
     IN  Step(SongDidPlayToEnd([s EXCEPT
           !.due = IF app.playlist = <<>> \/ app.apart THEN {} ELSE {s.currentIndex}]))

(* The slip of playing whatever song was asked for. *)
PlayAnswered(s, b) ==
  IF InRange(s) /\ s.heap[b.object].source # "none"
  THEN PlayWithSong(s, b.object) ELSE s

(* The answer's block: play the song if it is the list's current one. *)
Answered(s, b) ==
  IF ~InRange(s) THEN Crashed(s, "range")
  ELSE IF /\ s.heap[Current(s)].song = s.heap[b.object].song
          /\ s.heap[b.object].source # "none"
          /\ b.by = "page" => Alive(s, b.page)
       THEN PlayWithSong(s, b.object) ELSE s

RunBlock ==
  /\ app.mainQueue # <<>>
  /\ LET b == Head(app.mainQueue)
         s == [app EXCEPT !.mainQueue = Tail(@)]
     IN  Step(IF b.op = "ended" THEN HandleSwipToNext(s, b.page) ELSE Answered(s, b))

(* playSong, called by the home page's answer: whatever is current. *)
PlayCurrent(s) == IF InRange(s) THEN PlayWithSong(s, Current(s)) ELSE Crashed(s, "range")

(* fetchSongResources answers: with a URL, without data, or with an error. *)
FetchAnswered(i) ==
  LET f == app.fetches[i]
      s == [app EXCEPT !.fetches = Without(@, i)]
  IN  \/ Step(s)
      \/ \E t \in {s, [s EXCEPT !.heap[f.object].source = "url"]} :
           \/ f.by \in {"manager", "page"}
              /\ Step([t EXCEPT !.mainQueue = Append(@,
                   [op |-> "answered", by |-> f.by, object |-> f.object, page |-> f.page])])
           \/ f.by = "home" /\ Step(PlayCurrent(t))
           \/ f.by = "search" /\ t.shown # NoPage /\ Step(t)
           \/ f.by = "search" /\ t.shown = NoPage
              /\ \E p \in FreePages(t) : Step(OpenPage(t, p))

----------------------------------------------------------------------------
(* Touches on the player page. *)
Moved(s) == [s EXCEPT !.due = {}]

PressNext == app.shown # NoPage /\ Touch(HandleSwipToNext(Moved(app), app.shown))
PressPrevious == app.shown # NoPage /\ Touch(HandleSwipToPrevious(Moved(app), app.shown))
PressSwitch == app.shown # NoPage /\ (Touch(Play(app)) \/ Touch(Pause(app)))
ClosePage == app.shown # NoPage /\ Touch([app EXCEPT !.shown = NoPage, !.apart = FALSE])

(* The comments and lyrics buttons read the song at the list's index, the  *)
(* download button the one at the page's.                                  *)
ReadCurrent ==
  /\ app.shown # NoPage
  /\ \/ ~InRange(app) /\ Touch(Crashed(app, "range"))
     \/ app.pageIndex[app.shown] >= Len(app.playlist) /\ Touch(Crashed(app, "pageRange"))

(* Touches on the pages below it. *)
TapFloatingView ==
  app.shown = NoPage /\ \E p \in FreePages(app) : Touch(OpenPage(app, p))

PressPlayerSwitches ==
  /\ app.shown = NoPage
  /\ IF ~InRange(app) THEN Touch(Crashed(app, "range"))
     ELSE IF app.heap[Current(app)].source = "null"
          THEN Touch(Request(app, "home", Current(app), NoPage))
          ELSE Touch(Play(app)) \/ Touch(Pause(app))

(* A song of the cache (source "null") or of the downloads ("file"). *)
PickKept(source) ==
  /\ app.shown = NoPage
  /\ \E song \in Songs, o \in FreeObjects(app), p \in FreePages(app) :
       Touch(OpenPage(PlayFirst(app, o, [song |-> song, source |-> source]), p))

PickCached == PickKept("null")
PickDownloaded == PickKept("file")

PlayAllDownloads ==
  /\ app.shown = NoPage
  /\ \E songs \in SongLists : \E os \in NewObjects(app, Len(songs)) :
       Touch(PlayCurrent([ReplaceList(Stop(app), os, songs, "file")
                           EXCEPT !.currentIndex = 0]))

(* The song is removed while the list is enumerated: unless it was the     *)
(* last, the enumeration goes on and raises.  The index is left alone.     *)
PickInList ==
  /\ app.shown = NoPage
  /\ \E song \in Songs, o \in FreeObjects(app), p \in FreePages(app) :
       LET s == Allocate(app, o, [song |-> song, source |-> "null"])
           n == Len(app.playlist)
           t == InsertFirst(IF n \in Matches(app, song)
                            THEN [s EXCEPT !.playlist = Without(@, n)] ELSE s, o)
       IN  Touch(IF \E i \in Matches(app, song) : i < n THEN Crashed(s, "mutated")
                ELSE IF ~InRange(t) THEN Crashed(t, "range")
                ELSE OpenPage(t, p))

(* The play button of a list page: the index is left alone here too. *)
PlayList ==
  /\ app.shown = NoPage
  /\ \E songs \in SongLists : \E os \in NewObjects(app, Len(songs)) :
       \E p \in FreePages(app) : Touch(OpenPage(ReplaceList(app, os, songs, "null"), p))

PickFound ==
  /\ app.shown = NoPage
  /\ \E song \in Songs, o \in FreeObjects(app) :
       LET s == InsertFirst(Allocate(app, o, [song |-> song, source |-> "null"]), o)
       IN  Touch(Request([s EXCEPT !.currentIndex = 0], "search", o, NoPage))

(* A recommended song flies to the floating view for 0.8 s, and lands      *)
(* whatever is shown by then; the play button is then pressed for it.      *)
PressRecommended ==
  /\ app.shown = NoPage /\ app.flying = <<>>
  /\ \E song \in Songs, source \in {"none", "url"} :
       Touch([app EXCEPT !.flying = <<[song |-> song, source |-> source]>>])

Land ==
  /\ app.flying # <<>>
  /\ \E o \in FreeObjects(app) :
       LET s == PlayFirst([app EXCEPT !.flying = Tail(@)], o, Head(app.flying))
       IN  Step(Play([s EXCEPT !.apart = app.shown # NoPage]))

Next ==
  \/ ReadyToPlay \/ ItemFailed \/ SongEnds \/ RunBlock
  \/ \E i \in DOMAIN app.fetches : FetchAnswered(i)
  \/ PressNext \/ PressPrevious \/ PressSwitch \/ ClosePage \/ ReadCurrent
  \/ TapFloatingView \/ PressPlayerSwitches
  \/ PickCached \/ PickDownloaded \/ PlayAllDownloads
  \/ PickInList \/ PlayList \/ PickFound \/ PressRecommended \/ Land

Spec == Init /\ [][Next]_app

----------------------------------------------------------------------------
(* The state is well formed, and there is an item exactly when it has a    *)
(* status.                                                                 *)
WellFormed(s) ==
  /\ s \in App
  /\ s.item = NoObject <=> s.status = "none"

TypeOK == WellFormed(app)

(* Unless a play button emptied the list, the current index is a position  *)
(* of it, and so is the shown page's own index: whoever shortens the list  *)
(* (a dedupe, a play button, a download) also moves the index.  The list's *)
(* index is never read past the end.  The page's is only when a            *)
(* recommended song has landed under the page and moved the list's index   *)
(* alone (MusicPlayerController.mm:168 then raises, and the run gets       *)
(* there).                                                                 *)
IndexInRange ==
  ~app.emptied =>
    /\ InRange(app) /\ app.crash # "range"
    /\ app.shown # NoPage /\ ~app.apart => app.pageIndex[app.shown] < Len(app.playlist)
    /\ app.crash = "pageRange" => app.apart

(* A song that starts is the one the list says is current, although the    *)
(* URL it waited for may arrive after the list or the index has changed.   *)
StartsCurrent ==
  [][ (app'.item # app.item /\ app'.item # NoObject)
        => /\ InRange(app')
           /\ app'.heap[app'.item].song = app'.heap[Current(app')].song ]_app

(* Manager and page both observe the end of a song, the page with a block  *)
(* that may run after the page has been closed: together they advance by   *)
(* one, unless something else has moved the list.                          *)
OneAdvancePerEnd == app.due \subseteq {app.currentIndex}
=============================================================================
