# A verification project for MySpotify

MySpotify is an iOS music player (`src/MySpotify/MySpotify/`, Objective-C and
Objective-C++; the rest of `src/` is vendored pods). Its core logic has three parts:

* the **streaming cache** under `Player/缓存策略/`: AVPlayer asks for byte ranges of a
  song, and a router answers them from a memory cache, a file with holes, or the
  network, while a range index, a preloader and a database row keep account;
* the **player**: a manager, a shared playlist and a page that each know a current
  index, driven by touches, answers of the network and notifications of AVPlayer;
* what is fetched beside it: **downloads** with pause, resume and a table of their
  own, and **pages** that load as the user scrolls or types.

## 1. Inventory

| Component | State it keeps | Operations | How it meets the others | What is hard | What makes it correct |
|---|---|---|---|---|---|
| `LZCacheIndex` | `map` (cached ranges of a key, a sorted array), `loadingMap`, `totalMap`, a serial queue per key | add, remove, mark, unmark, set length, clear; is cached, is loading, next missing, completed, cached length | updates `dispatch_async`, queries `dispatch_sync`; called by router and preloader | single-pass merging, ranges edited while enumerated, queries right after updates nobody waited for, nested `dispatch_sync` | queries exact to the byte; claims disjoint; every call returns |
| `LZCacheRouter` | `pendingCallbacks`, `routerQueue`, retry timers | `getDataForKey`, completion of a download, `syncCacheInfoToDBForKey` | calls all of the others; completions are dispatched to the main queue | joins, retries, hand-over of completions between four queues | each completion called exactly once; what is served is on disk or on its way there; the two loading tables agree |
| `LZMemoryCache` | `NSCache` by key and offset, `keyMap` | read, write, clear, list keys | router, preloader; eviction by the system | eviction at any time, `keyMap` unlocked | what is answered is in it or in the file |
| `LZDiskCache` | one file per key, `ioQueue` | read, write with completion | router, preloader; cleaner deletes the file | seek past the end, order of writes | song bytes stay |
| `LZRangeDownloader` | `callbackPool`, tasks, a barrier `syncQueue` | download (sharing tasks), three cancels | router, preloader | shared task that completes while being joined | one result for each call |
| `LZPreloadManager` | an operation queue of width 2 | preload, cancelAll | started by the router, writes memory, disk and index itself | unknown to the router's tables | no second download of the same bytes |
| `LZResourceLoader` | none of note | AVAssetResourceLoader delegate | turns loading requests into `getDataForKey` | every loading request finished exactly once | as the router's |
| `DBManager` | song table in WCDB | insert, update, `updateSongCacheInfo`, `cleanCacheWithMaxSize` | main thread, `routerQueue`, cleaner's queue | read-modify-write from three threads, file and row deleted in two steps | the row's size is what can be freed |
| `MusicPlayerManager`, `PlaylistManager`, `MusicPlayerController` | the AVPlayer and its item, the playlist and its index, the page's own index | play, pause, stop, next, previous, end of a song, answer with a song's URL | notifications, blocks of the main queue, callbacks of the network; every page of the app changes the playlist directly | late answers, two observers that both advance, a page that is gone when its block runs, lists that shrink | one advance for each end of a song; what starts is current; the index is a position |
| `MusicDownloadManager` | `downloadTasks`, `resumeDataMap`, files | download, pause, cancel, two delegate callbacks | a concurrent delegate queue beside the main thread; the button's completion writes the table of downloads | callbacks beside each other, two tasks for one file, pause against completion, kills | table and files agree; each task answered once |
| `SongListViewController` | rows, index, `isLoading` | detail, next slice | callbacks on the main queue | failed slices, scrolling while loading | no song twice, skipped or out of order |
| `CommentViewController` | rows, offset, `hasMore`, `isLoading` | first page, next page | the same | the offset is advanced by the answer | as above |
| `SearchPageController` | songs, limit, `isLoading`; text, timer, results | load more, debounced search | the same, and a batch animation of UIKit | six ways out of a completion, timers, answers out of order | never left loading; only the text last typed is searched |
| `HomePage`, `MinePage`, page of downloads | their lists | put songs in the playlist and play them | the playlist, notifications | they change list and index of a player that runs | as the player's |
| services, models, views, widget, unused caches | little | requests, JSON mapping, layout | | | |

`PROJECT.json` lists every component with its status, and the hazards of the
code, each at its line, with the properties that cover it or the reason why none
does yet.

## 2. The modules

```
LZCacheRanges            operators on sets of ranges       <- LZCacheRanges_proofs
 |-- LZCacheIndex        the index, one block = one action <- LZCacheIndex_proofs
 |    |-- implements  CachedBytes         (what is promised, byte by byte)
 |    |-- implemented by LZCacheRangeArrays   (the loops over the arrays)
 |    `-- implemented by LZCacheIndexQueues   (callers and serial queues)
 |              both of these                              <- LZCacheIndexDetails_proofs
 `-- LZCacheRouter       router + memory + disk + downloader
                         + preloader + index + row         <- LZCacheRouter_proofs

CacheSongs               the song table, its three writers <- CacheSongs_proofs
                         and the cleaner
MusicPlayer              manager, playlist, page, and what <- MusicPlayer_proofs
                         every page does to them
MusicDownloadManager     tasks, resume data, files, rows   <- MusicDownloadManager_proofs
BrowsingPages            one of the three pages is shown   <- BrowsingPages_proofs
 |-- SongListViewController
 |-- CommentViewController
 `-- SearchPageController
```

* **`LZCacheRanges`**: a range is a record `[start, end]` with `end` the last
  byte, as `LZCacheRange` has it. `Merged` is the result of `addRange`, `Without`
  of `removeRange`, `NextMissing` and `CachedLength` the two folds of the readers.
  `LastByte` bounds the offsets.
* **`CachedBytes`** promises: per key a set of cached bytes, a set of bytes
  claimed by downloads, a total length. It knows no ranges. Its claim step may
  take any set of unclaimed bytes and its release any part of the claimed ones,
  since the code lets a caller unmark only what a mark recorded.
* **`LZCacheIndex`** has one action for each updating method and one operator for
  each query. A block runs alone on its key's serial queue, hence one action.
* **`LZCacheRangeArrays`** has the same methods as loops over the sorted array:
  the merge with a growing range (`LZCacheIndex.m:115-137`), the in-place edits
  and the tail pieces of `removeRange` (141-176), the readers that need the array
  sorted. Its run shows that the loops compute the set operators above.
* **`LZCacheIndexQueues`** has threads that submit blocks, asynchronously or
  sleeping until the block has run, and a queue that runs one block at a time.
  Its refinement mapping runs the queued blocks ahead (`Submitted`): seen by a
  caller, an update has happened when it is submitted. That justifies the router
  module calling the index in place.
* **`LZCacheRouter`** is the cache of one song. A step is one block run by one
  queue:

| Action | Code |
|---|---|
| `GetData` | `getDataForKey` up to `dispatch_async(routerQueue)`, called by `LZResourceLoader` |
| `AnswerFromMemory`, `AnswerFromDisk`, `JoinPending`, `RetryLater`, `StartDownload` | the five ways through the block, in the order of its early returns (`LZCacheRouter.mm:55-102`) |
| `Retry` | the `dispatch_after` of 0.1 s |
| `Downloaded`, `Flushed` | the download's completion block and the block its write submits, with the sync of the row and the preload it triggers |
| `RunPreload` | an operation of `LZPreloadManager` |
| `Download`, `Respond` | the downloader's barrier blocks: start or share a task; its completion, with what a preload's completion writes |
| `WriteData` | a block of `ioQueue`, with its completion |
| `Dispatch` in these, `CallCompletion` | each answer is `dispatch_async` to the main queue (`LZCacheRouter.mm:57, 70, 121, 140`), where a later block calls the completion |
| `Evict` | `NSCache` |
| `CleanSong`, `PlaySong` | `cleanCacheWithMaxSize` when it picks this song; `playWithSong` inserting the row |
| `Restart` | the process is killed: only file and row survive |

* **`CacheSongs`** is the table `cacheSongs` over several songs, with every database
  statement a step of its own: `PlayWithSong`, `PlayQuery`, `PlayUpdate`, `PlayInsert`
  (main thread, `MusicPlayerManager.mm:98-120`), `SyncMeasure`, `SyncRead`, `SyncWrite`
  (routerQueue, `LZCacheRouter.mm:151-168` and `DBManager.mm:170-181`), `CleanRead`,
  `RemoveFile`, `SkipFile`, `DeleteRow`, `CleanEnd` (cleanQueue,
  `DBManager.mm:183-229`). Streaming is reduced to chunks that are read, fetched and
  written (`ReadChunk`, `FetchChunk`, `WriteChunk`), which is what the sizes are made
  of; a sync may start for any song whose file was read or written since the launch. It
  splits the single steps `CleanSong`, `PlaySong` and the row of `LZCacheRouter` in
  detail and drops the requests.

* **`MusicPlayer`** is the main thread of the app. Its state is one record `app`, and a
  method of the code is an operator from a state to the state it leaves, because the
  methods call each other (`ChangeToIndex` calls `Stop`, `PrepareAndPlay`, `PlayWithSong`).
  A step is one touch, one answer, one notification, or one block of the main queue:

| Action | Code |
|---|---|
| `Init` | `fetchSongDataFromDataBase` of the home page (`HomePageController.mm:231`) |
| `ReadyToPlay`, `ItemFailed` | KVO of the item's status (`MusicPlayerManager.mm:228`) |
| `SongEnds` | `AVPlayerItemDidPlayToEnd`: `PlayerDidFinish` of the manager, then `SongDidPlayToEnd` of the page, which submits a block |
| `RunBlock` | that block (`handleSwipToNext`), or the block an answer submits (`MusicPlayerManager.mm:59-72`, `MusicPlayerController.mm:442-447`) |
| `FetchAnswered` | `fetchSongResources` answers the manager, the page, the home page or the search page |
| `PressNext`, `PressPrevious`, `PressSwitch`, `ClosePage`, `ReadCurrent` | touches on the player page |
| `TapFloatingView`, `PressPlayerSwitches`, `PressRecommended`, `Land` | the home page; a recommended song lands 0.8 s after the touch |
| `PickCached`, `PickDownloaded`, `PlayAllDownloads`, `PickInList`, `PlayList`, `PickFound` | the other pages, each with its own way of changing list and index |

* **`MusicDownloadManager`**: the callbacks of `NSURLSession` run on a queue that is not
  serial (`MusicDownloadManager.m:28`), so that every access to something shared is a
  step: `PressDownload`, `ReadResumeData`, `MakeTask`, `SaveTask` (`downloadSongWithURL`),
  `PauseDownload` with its handler (`HandlerStores`, `HandlerForgets`), `CancelDownload`
  with the two entries it removes (`CancelForgets`, `CancelDrops`),
  `MoveFile`, `Completion`, `ForgetTask`, `ForgetData` (`didFinishDownloadingToURL`),
  `DidComplete`, `StoreData`, `AnswerError` (`didCompleteWithError`), `Kill`. `Enter` is
  the completion block of the download button, with the row it inserts.
* **`SongListViewController`**, **`CommentViewController`**, **`SearchPageController`** are
  each a page with requests under way that may be answered in any order; `loadMore`, the
  completions and the early returns are the actions, and of the search page also
  `viewDidDisappear`, which empties the bar and leaves the timer running. **`BrowsingPages`** composes them:
  they share only the main thread, so that an execution follows one of them.

`MC*` modules give symmetry sets and the ranges asked for. Definitions that state
a *slip* (`WrittenAtEnd`, `StayMarked`, ...) stand just before the definition
they vary. No specification uses them: they are there so that each property can
be shown to fail on a plausible mistake (`mutants` in `PROJECT.json`).

### What is abstracted

* Data is a sequence of cells: a byte of the song at its own offset, a byte of a
  hole, a status page. Offsets are small; `NSUInteger` overflow needs files no
  phone holds and is left out.
* One song in the router module. Songs share queues and nothing else there
  (dictionaries mutated by two keys' queues at once are a listed hazard, planned
  as a module of its own).
* `getDataForKey`'s block is one step although preloader and `ioQueue` run beside
  it: its reads of memory and disk happen in succession. A preload that lands
  between the two makes the block miss in memory and hit on disk, or miss both and
  download; both ways are also taken when the preload lands before or after.
  `playWithSong` and the cleaner are one step each there; `CacheSongs` splits them.
* In `CacheSongs` the times of play differ, the order the cleaner gives to rows of the
  same time does not matter then, and a chunk is queued at most once at a time.
* Requests are never empty (AVPlayer asks for no empty range), and the server
  honours the Range header, fails, or sends a short status page. The answer may be
  shorter than asked for at the end of the song.
* `setTotalLength` is called by nobody, so `isCompleted` answers NO to the
  router and the guard of `Flushed` does not mention it.

* In `MusicPlayer` a URL fetched for a song is the same each time, so that `isSameSong`
  compares songs; the `"null"` of a song not fetched is one URL for all songs, as in the
  code. A JSON `null` for a URL is no URL (in the code an `NSNull`, which raises when it
  is compared). Notifications of AVPlayer and blocks of the main queue keep their order.
  The answer to a search opens the player page only if none is shown (UIKit refuses to
  present a second one from the page below). `% 0` is as on arm64, where it does not trap.
  Seeking, times, lyrics and labels are left out: nothing reads them back.
* In `MusicDownloadManager` a song names file and row, as the server's names do; the
  insertion of a row fails only because there is one. Two threads that mutate one
  `NSMutableDictionary` at the same instant are undefined behaviour; each access is a
  step there, no access is torn. Nothing in the app calls pause and cancel yet; they are
  modelled as the operations of the class they are.
* In the pages the server's list stays as it is while the page is shown; the songs that
  come with a playlist are its first; a slice is answered with a run of its songs, all of
  them, some, or none. `more` is whatever the server says. The scroll and the nudge
  after the first page (`tryLoadMoreIfCollectionViewNearBottom`) are one action.

## 3. The runs

| Run | Instance | Shows |
|---|---|---|
| `index` | 1 key, offsets 0..4: every set of calls on them | cached ranges stay separated, claims disjoint; `CachedAnswerExact`, `LengthAnswerExact`: these queries are exact to the byte; `UpdatesExact`: so is each update (which `CachedBytes`, whose steps have no arguments, cannot say); implements `CachedBytes` |
| `arrays` | offsets 0..7 | `ReadersAgree`: on every reachable array each reader's loop returns what the set operator says; implements `LZCacheIndex` |
| `index_queues` | 2 threads, offsets 0..1, an update submitted only to an empty queue (`MaxQueued`) while queries queue behind | `AnswersAsSubmitted`: a thread reads its own writes; implements `LZCacheIndex`; `CallsReturn` |
| `router` | 2 requests for 2 overlapping ranges, a song of 3 bytes, 1 restart | `ServedIsBacked`: what a completion was or will be called with is in the file or queued for it, whatever memory drops before the main queue calls it; `SongBytesStay`, `Answered` |
| `router_crowd` | 3 requests (symmetric), 2 overlapping ranges of 3 offsets, a song of 1 byte, status pages | `CompletionHeldOnce`, `PendingIsLoading`, `OneFetchPerPending`, `IndexBacked`, `RowBacked` |
| `cache_songs` | 3 songs (symmetric) of 1 chunk, a budget of 1, 4 plays, 1 restart | `EvictsOldestEnough`, `StreamedHasRow`, `OrphansAreStrays` |
| `stale_update`, `size_forgotten` | 1 song of 1 or 2 chunks, 2 plays, at most 1 restart | the findings below |
| `served_hole` | 2 requests for two ranges apart (a seek) | finding 1 |
| `player` | 2 songs, 4 model objects of which 3 are held when a step ends (`MaxHeld`), 2 pages, 2 answers under way, 3 touches, lists of up to 2 songs (all symmetric) | `IndexInRange`, `OneAdvancePerEnd`, `StartsCurrent` |
| `downloads` | 3 tasks (symmetric), 2 URLs of one song, 1 pause or cancel for each launch | `RowHasFile` (what is in the file is not looked at), `FileHasRow`, `AnsweredOnce`, `DataTakenOnce` |
| `pages` | a playlist of up to 5 in slices of 2; 4 comments in pages of 2, a hot one; 4 songs, limits 2, 3, 4..; 2 keywords, 2 searches under way | `SongsInOrder`, `CommentsInOrder`, `SearchesTypedText`, `LoadingEnds` |

**Why the bounds are enough.** A step of the index looks at one range against a
set of ranges: five offsets give every relation of two ranges (apart, touching,
overlapping, nested, equal) with a third one between, eight offsets give arrays of
four separate ranges; the theorems remove the bound. Two requests make joins (the
same range), retries (overlapping ranges) and preload against request; the third
makes a join while another request retries. With a song of 1 or 3 bytes one of the
ranges ends past the song and gets a short answer, or none of the song. `MaxRestarts = 1` has
a kill at every moment. `PreLen` is 2 so that a preload overlaps requests without
coinciding with them; the guard `next.end > LastByte` of `Flushed`, the
module's only bound on a preload, never decides anything in `router` (the first
missing byte is never past the song there). `CHECK_DEADLOCK FALSE` in the router's
configurations: once every request is answered nothing has to happen.
Three songs give the cleaner one to delete, one to skip or spare and one in between; the
fourth play is the replay that makes a read row stale (`MaxPlays`); the cleaner of a fresh
install finds nothing, so its interesting run is that after the restart. Deadlock is off
in `CacheSongs` too: the plays run out.
`index_queues` with its two offsets has few ranges because its subject is
order; the index over more offsets is the business of the other two runs.
In `player` four objects, three of them held, allow two copies of a song beside the new
one that makes the dedupe shorten the list (or step over every other match), also under a
shown page; two pages a block that runs after its page was closed and
another opened, two fetches an answer that comes after that of a later song, and three
touches the sequences that hurt: pick, close, pick, or next against an end. What the
touches start (answers, ends, blocks) is not bounded. `IndexInRange` is stated until a
play button of a list page whose songs never came has emptied the list. It says of the
shown page's own index too that it is a position of the list, unless a recommended song
has landed under the page: then the page's read may raise (`pageRange`), which the run
reaches, and in no other way. `OneAdvancePerEnd` is stated until something else moves list
or index. Deadlock is off: the touches
run out. In `downloads` three tasks give one to pause, one to resume it and one beside
them; the interrupts bound how often a launch pauses. Both URLs end in the same file, which
is the case that matters: different songs share nothing. The theorems remove these bounds.
In `pages` every list is longer than two pages and ends inside one; the pages run out,
hence no deadlock check.
`SongBytesStay` is checked without status pages: with them the file does get
overwritten by a page, about which the code promises nothing.

**Fairness.** Weak fairness on what the system itself runs: GCD runs a
non-empty queue (`RunRouter`, `WriteData`, `Download`, `RunBlock`, `CallCompletion`), a timer fires
(`Retry`), an operation queue starts its first operation (`RunPreload(1)`), and
a started task completes with data or an error because the session has a timeout
of 30 s (`Respond`, whichever answer). None on AVPlayer's requests, evictions, the
cleaner or restarts. `RunRouter` is fair as a whole, which a serial FIFO queue
justifies; no fairness is assumed between kinds of blocks. `Answered` therefore
also says that retries of overlapping requests end. In the pages a request is answered, by
data or by a failure: `NSURLSession` ends every request by its timeout (the default one,
for each request of `SpotifyService.mm` replaces the serializer that
`NetworkManager.m:32` gives 15 s), and UIKit calls the completion of a batch
(`Inserted`). Nothing is assumed of the user, of timers or of answers to searches.
`MusicPlayer` and `MusicDownloadManager` state safety only.

## 4. Findings

1. **A hole is served as music** (`served_hole`, `ServedIsSong`).
   `LZDiskCache` seeks past the end of the file before it writes, which fills the
   gap with zeros. The router takes a disk read of full length for a hit
   (`LZCacheRouter.mm:65`) and never asks `isRangeCached`. After a seek, the
   request for an earlier range is answered with zeros, and the index then counts
   them as cached. The design document says that seeking is supported.
2. **A sync puts an old time of play back** (`stale_update`). `updateSongCacheInfo`
   says that it updates the cache information only, and writes all columns of a row
   read before; a play in between is lost, and the cleaner may take the song for an old
   one. The mirror image, `updateObject` writing an old `cacheSize`, is the same defect.
3. **The recorded size forgets what earlier launches cached** (`size_forgotten`). The
   index is empty after a restart and the sync records its count, so that the sum the
   cleaner compares with 40 MB is smaller than what the files take.

Met while modelling, and described by no run because no document says otherwise:
a preload does not mark its range, so that a request may fetch the same bytes, and the
row lags behind the index after one; the playlist is enumerated while a song is removed
from it (`SongListViewController.m:89`); the home page of a fresh install reads the first
song of an empty history (`HomePageController.mm:241` tests `count >= 0`); songs of a
failed slice are never asked for again; after a pause `downloadTasks` may lose the task
that was started since; the search page searches for a text after `viewDidDisappear` has emptied the
bar; the player page's download button raises when a recommended song has landed under the
page and shortened the list (`MusicPlayerController.mm:168`). They are hazards in
`PROJECT.json` or part of the model's actions.

## 5. What is proved

All theorems hold for every value of the constants that satisfies the named
assumptions (`LastByteAssumption`: a natural number; `UnknownAssumption`, `NoLengthAssumption`: the
unknown length, a nil `NSNumber`, is not a number; `TotalsAssumption`: lengths told to the index lie within
the offsets; `RouterAssumption`: the ranges asked for lie
within the offsets, lengths are naturals, markers are not values;
`CacheSongsAssumption`: finitely many chunks, natural bounds, `NoRow` is no row;
`PlayerAssumption`, `DownloadAssumption`, `BrowsingAssumption`: the markers are no
values, the bounds are naturals). The modules of the pages name their own assumptions as
operators, `BrowsingAssumption` assumes the instances, and the lemmas about one page have
them as hypotheses.

Every safety invariant, every action property and every refinement that a passing run
checks is the statement of a theorem (`SongBytesStay` with the hypothesis named below).

* `LZCacheRanges_proofs`: what the operators do to bytes. `Merged` adds exactly the
  bytes of the new range and keeps the set separated; `Without` removes exactly
  those of the range and keeps the rest; between separated ranges a run of
  cached bytes lies in one range; the first missing byte is exactly that.
  `CachedLengthCounts`: for separated ranges the sum of the lengths is the number of
  bytes. `CachedLength` is a fold over a set, that is a recursive function given by a
  `CHOOSE`. Its equation has a solution one can write down (the number of bytes in the
  ranges not yet taken), hence the chosen function satisfies the equation, and a smallest
  set on which it differed from the number of bytes would contradict it. This replaces
  the induction theorems of the library, which the provers cannot instantiate.
* `LZCacheIndex_proofs`: the inductive invariant `IndexInv` is type
  correctness, `CachedSeparated` and `LoadingDisjoint`. Separation (no overlap
  *and* no touching) is what the query needs: only then is a run of cached bytes
  within a single range, which the loop of `isRangeCached` looks for. From it follow
  `CachedAnswerIsExact`, and `LengthAnswerIsExact` since
  separated ranges count no byte twice; `UpdatesAreExact` rests
  on the byte lemmas. `IndexRefinesBytes` maps every
  step to a step of `CachedBytes` or a stutter: a marked range is free of claimed
  bytes, and by disjointness an unmark releases no byte of another claim.
* `LZCacheIndexDetails_proofs` justifies what the index abstracts from. Queues and arrays
  are both written with folds over sequences, and the first part of the module shows, as
  for the sum above, that such a fold has a solution and ends where any turn by turn
  `Runs` through the sequence ends. The loops' invariants then go `Upwards`, by a least
  index at which they would fail.
  * The queues: `QueueInv` says of each queue that whoever has a query in
    it sleeps, asks once, and is due the answer that the entry will give after the
    blocks before the query have run (`Sound`). Running the first block moves it from the
    queue into the entry and changes none of these answers; submitting a block appends one
    and leaves the answers of those before it. Hence `AnsweredAsSubmitted`. For
    `QueuesImplementIndex` the mapped entry is the outcome of the whole queue, which a
    running block leaves and a submitted update changes as the atomic call would.
    `SleepersAreQueued` is the part of `CallsReturn` that is not about time: a caller
    asleep in `dispatch_sync` has its query in a queue, so that only that queue's turns
    are needed to wake it.
  * The arrays: the invariant `ArrayOK` says that the ranges are apart, in
    whatever order. `Grown` is the loop invariant of the merge: the growing range touches none that it
    did not touch at first, because it would reach there only over a range that touches
    that one (`GrownTouches`). `Cut` is that of the removal: the
    two arrays hold exactly the pieces of the ranges so far, all apart. `Passed` is that of
    the readers: all before `p` is cached, and `p` is behind the ranges so far or in
    none, which needs the array sorted; `OrderExists` and `SortedFacts` say that it can be and
    that sorting keeps the ranges. Hence `ReadersAgreeAlways` and `ArraysImplementIndex`.
  * From the code's shape to the promise: `QueuesImplementBytes` and
    `ArraysImplementBytes` compose these refinements with `IndexRefinesBytes`, so that
    callers with their queues, and loops over arrays, implement `CachedBytes`. The proofs
    instantiate `LZCacheIndex_proofs` with the mapped state (`Facts`, `SetFacts`) and cite
    its theorem; the lemmas before them show that the two instances of the index name the
    same operators and steps.
* `LZCacheRouter_proofs` follows the requests, the fetches and the bytes:
  * `TypeCorrect`, by one step per action; the lengths are
    the delicate part, for a result must fit its range for the write and the index
    to stay within the offsets.
  * `TablesInv` (`PendingIsLoading` on top of the types) is inductive: mark and join
    happen in one block, and so do unmark and the emptying of the list. From it
    `TablesAgree`.
  * `OneFetchForWhoWaits` and `CompletionsHeldOnce` count: `FetchInv` says that the fetches
    of a range submitted, under way and arrived are one if somebody waits for it and none
    otherwise, `HeldInv` that a request that has been made is in one of six places, each
    counted (the main queue is one of them). A step moves one from a place to the next; the lemmas on `CountIn` say
    what appending, removing the first and joining do to a count.
  * `WhatIsServedIsBacked`: whatever the memory cache holds, a write carries, or a
    completion was or will be called with lies where the index has recorded it
    (`IndexedInv`); only the cleaner takes anything from under the index, and what is
    recorded is in the file or queued for it (`IndexBacked`). `WaitInv` says that whoever
    waits for a range has asked for it, in the table and in the writes queued, so that the
    offset the data was stored at is the one asked for; `HeldInv` that a request is made
    once, so that nothing waits on the main queue under another range.
  * `IndexIsBacked` and `RowIsBacked`: `BytesInv` needs the separation of the ranges, or the
    row would count a byte twice (`RouterRangesStaySeparated` states that for itself). Both
    stand with the precondition stated below.
  * `SongBytesStayThere`: if no status page is sent, whatever is on its way to the file
    is a piece of the song for its own place (`SongInv`). With `StatusBody = TRUE` the
    property does not hold; that is a hypothesis of the theorem, as it is a constant of
    the run.
* `CacheSongs_proofs`: `TypeCorrect`; `StreamedSongsHaveRows`, strengthened by
  `SeenRowStays` (between its look at the table and its update the main thread's row is
  there or evicted: only the cleaner deletes, and it notes what it deletes);
  `OrphansAreStrayWrites`, strengthened by `RemovedOrStray` (when a row is about to be
  deleted, its file is gone or was written anew); and `CleanerEvictsOldest`. There the
  loop's invariant keeps account of every song of the table (deleted, refused, in hand or left), of
  the size that remains, and of the order in which the songs were taken, with lemmas on
  the sum of sizes over finite sets.
* `MusicPlayer_proofs`: types under `PlayerAssumption`. `IndexStaysInRange`: every
  operator that shortens the list also sets the index or lengthens the list again
  (`Dedupe` is followed by `InsertFirst`), and it is `Clamped` that brings a page's index
  into the list (`ListInRange`). For the shown page's own index it needs `Advances` below:
  a page not separated from the list is at the list's index or, with a block to come, at
  another position of it (`Together`), so that its read cannot raise. `OnlyCurrentStarts` follows each of the
  ways to `PlayWithSong` and shows that the object handed to it carries the song of the
  list's current position in the state that is left. `OneAdvanceForOneEnd` rests on the
  invariant `Advances`: one end at a time is under way (`OneEnded`), a page that has not been
  separated from the list is where the list is or has a block to come (`Together`), and a
  page whose block is to come is one behind the list (`Lagging`), so that the block
  arrives where the manager already is.
* `MusicDownloadManager_proofs`: types; `RowsHaveFiles` and `FilesHaveRows`, from the shape
  of a task's life (`Shaped`) and the fact that a file is moved in place before its task
  answers (`Moved`); `TasksAnsweredOnce`, since the two callbacks of one
  task answer on disjoint conditions; `ResumeDataTakenOnce`, strengthened by `Singles`: of
  an unpaused task the data is at one place (about to be stored, kept, read, or
  taken) at a time.
* `BrowsingPages_proofs`: the theorems are about the composition, each page's actions beside
  the steps of the two others, which leave its variables. `OneSlice` and
  `OneRequest` (while loading exactly one request is under way, and it starts at the
  present index or offset) make the order of rows inductive; `OnlyTypedTextIsSearched`
  needs that the only timer that runs is that of the text last typed, also after the page
  has been left. `LoadsOneAtATime`
  adds `OneFetch` for the page of the search, which loads while a fetch is under way or
  cells are being inserted: each page's flag is set exactly while one load is on its way.
  That is the safety half of `LoadingEnds`.

Three theorems delimit the findings of section 4: they say that what the run shows is the
only way to the violation.

* `OnlyHolesSpoil` (`LZCacheRouter_proofs`): `Spec /\ []NoHole => []ServedIsSong`, with no
  status pages. While no write has left a hole, memory cache, file and results hold
  nothing but the song (`ServedInv`, on top of `SongInv`).
* `OnlyPlaysGetLost` (`CacheSongs_proofs`): `Spec /\ PlaysApart => UpdatesOnlyCacheInfo`.
  If the main thread writes no row while `routerQueue` holds one it has read, the row held
  is the table's or is gone from it (`HeldIsCurrent`); the cleaner only deletes, and an
  UPDATE does not insert.
* `FirstLaunchIsCovered` (`CacheSongs_proofs`): before the first kill the index knows every
  chunk of every file (`IndexKnows`), so that a sync records at least the file's size.

**Only model-checked:** liveness (`Answered`, `CallsReturn`, `LoadingEnds`), which the prover
does not handle: fairness makes queues, downloads and answers take their turns, and that
there is always one to take is proved (`OneFetchForWhoWaits` with `CompletionsHeldOnce`,
`SleepersAreQueued`, `LoadsOneAtATime`). The three properties that are violated have
counterexamples instead, and the theorems above that bound them.

Two properties have a precondition worth knowing. `IndexBacked` and `RowBacked`
speak of the time until the cleaner runs: it deletes the file and tells neither
the index nor the memory cache. `RowBacked` also excludes a kill with writes
queued: the row may then be ahead of the file, and no document says otherwise
(listed as a hazard).

## 6. Plan

1. *(done)* ranges, index, arrays, queues, router; first theorems.
2. *(done)* the song table with its three writers and the cleaner.
3. *(done)* the player; the download manager; the three pages that load.
4. Next: dictionaries shared by two queues (`LZCacheIndex`, `LZMemoryCache.keyMap`),
   cancels of the downloader and preloader, lyrics and their late answers.
5. *(done)* proofs of the safety properties and the refinements of every module.
6. Proofs: leaner invariants where two theorems of the router repeat an argument; the
   modules of item 4 as they are written.

## 7. Not modelled

Views, JSON mapping, URL building, the widget and Live Activity (no
protocol of their own), `MusicCacheManager` and `LZWebCacheManager` (used by
nothing), vendored pods.
