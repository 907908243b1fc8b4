--------------------------- MODULE LZCacheRouter ---------------------------
(***************************************************************************)
(* The streaming cache of one song: LZCacheRouter composed with the memory *)
(* cache, the disk cache, the range downloader, the preloader and the      *)
(* index it drives, and the database row that records the cached size.     *)
(*                                                                         *)
(* The parts are joined by queues, and a step is one block run by one of   *)
(* them: the serial routerQueue, the serial ioQueue of the disk cache, the *)
(* barrier blocks of the downloader, the operations of the preloader, the  *)
(* retry timers, and the main queue, where AVPlayer's completions are      *)
(* called.  Index calls take effect when they are made: they are           *)
(* linearizable there (LZCacheIndexQueues).  Another song has other        *)
(* entries in every dictionary and another file, and shares only queues.   *)
(***************************************************************************)
EXTENDS LZCacheRanges, Sequences

CONSTANTS
  Requests,     (* the loading requests of AVPlayer; each has a completion *)
  Wanted,       (* the byte ranges AVPlayer asks for *)
  FileLength,   (* the length of the song on the server *)
  PreLen,       (* how much is preloaded after a download (256 KB) *)
  StatusBody,   (* TRUE: the server may answer a status page with a body *)
  MaxRestarts,  (* bound: how often the app is killed and started again *)
  NoRange,      (* the range of a request not made yet *)
  NoRow         (* the database holds no row for the song *)

ASSUME RouterAssumption ==
  /\ Wanted \subseteq CacheRange
  /\ FileLength \in Nat
  /\ PreLen \in Nat \ {0}
  /\ StatusBody \in BOOLEAN
  /\ MaxRestarts \in Nat
  /\ NoRange \notin CacheRange
  /\ NoRow \notin Nat

VARIABLES
  asked,        (* asked[r]: the range request r asks for, or NoRange *)
  routerQueue,  (* the blocks submitted to routerQueue *)
  retryTimers,  (* the requests a dispatch_after will submit again *)
  pendingCallbacks, (* pendingCallbacks[d]: who waits for range d, if any *)
  loadingMap,   (* the index: ranges marked as loading *)
  map,          (* the index: cached ranges *)
  memory,       (* memory[o]: the block cached at offset o; <<>> if none *)
  disk,         (* the bytes of the cache file; <<>> if there is none *)
  ioQueue,      (* the writes submitted to ioQueue *)
  syncQueue,    (* the downloads submitted to the downloader's syncQueue *)
  callbackPool, (* callbackPool[d]: whom the task for d calls; <<>> if no task *)
  preloadOps,   (* the operations of LZPreloadManager not started yet *)
  mainQueue,    (* mainQueue[r]: results r's completion will be called with *)
  replies,      (* replies[r]: the results r's completion was called with *)
  row,          (* cacheSize of the song's row, or NoRow *)
  cleaned,      (* cleanCacheWithMaxSize has run since the app started *)
  restarts      (* how often the app was killed *)

vars == <<asked, routerQueue, retryTimers, pendingCallbacks, loadingMap, map,
          memory, disk, ioQueue, syncQueue, callbackPool, preloadOps,
          mainQueue, replies, row, cleaned, restarts>>

----------------------------------------------------------------------------
(* Data is a sequence of bytes, told apart by where they come from: the    *)
(* song at this very offset, a hole of the file, or a server's status page. *)
Cell == {"song", "hole", "page"}

Length(d) == d.end - d.start + 1

(* The slip of recording one byte too many. *)
ExtentPastEnd(o, data) == RangeOf(o, Len(data) + 1)

(* The range of the bytes `data' takes when it begins at offset o. *)
Extent(o, data) == RangeOf(o, Len(data))

GetBlock(r) == [type |-> "getData", request |-> r]
DownloadedBlock(d, data) == [type |-> "downloaded", range |-> d, data |-> data]
FlushedBlock == [type |-> "flushed"]

(* A call of the downloader, by the router or by the preloader. *)
DownloadCall(d, who) == [range |-> d, who |-> who]

(* How many members of the sequence q satisfy a condition. *)
Count(q, Is(_)) == Cardinality({i \in DOMAIN q : Is(q[i])})

(* LZDiskCache: a read is cut off at the end of the file. *)
ReadData(o, length) == SubSeq(disk, o + 1, Min({Len(disk), o + length}))

(* The slips of not seeking before a write, and of creating the file anew  *)
(* in place of opening it.                                                 *)
WrittenAtEnd(o, data) == disk \o data

WrittenAnew(o, data) ==
  [i \in 1 .. o + Len(data) |->
     IF i - o \in DOMAIN data THEN data[i - o] ELSE "hole"]

(* A write beyond the end of the file leaves a hole of zeros before it. *)
Written(o, data) ==
  [i \in 1 .. Max({Len(disk), o + Len(data)}) |->
     IF i - o \in DOMAIN data THEN data[i - o]
     ELSE IF i \in DOMAIN disk THEN disk[i] ELSE "hole"]

(* The slip of a Range header without an end. *)
SongTail(d) == [i \in 1 .. FileLength - d.start |-> "song"]

(* What the server sends for the bytes d: the part of the song it holds,   *)
(* or nothing and an error, or a page the downloader takes for data: it    *)
(* never looks at the status code.                                         *)
SongPart(d) ==
  [i \in 1 .. Min({Length(d), FileLength - d.start}) |-> "song"]

Responses(d) ==
  {SongPart(d), <<>>} \cup (IF StatusBody THEN {<<"page">>} ELSE {})

Init ==
  /\ asked = [r \in Requests |-> NoRange]
  /\ routerQueue = <<>>
  /\ retryTimers = {}
  /\ pendingCallbacks = [d \in Wanted |-> {}]
  /\ loadingMap = {}
  /\ map = {}
  /\ memory = [o \in Offset |-> <<>>]
  /\ disk = <<>>
  /\ ioQueue = <<>>
  /\ syncQueue = <<>>
  /\ callbackPool = [d \in CacheRange |-> <<>>]
  /\ preloadOps = <<>>
  /\ mainQueue = [r \in Requests |-> <<>>]
  /\ replies = [r \in Requests |-> <<>>]
  /\ row = 0
  /\ cleaned = FALSE
  /\ restarts = 0

----------------------------------------------------------------------------
(* AVPlayer asks for a range: getDataForKey submits a block. *)
GetData(r, d) ==
  /\ asked[r] = NoRange
  /\ asked' = [asked EXCEPT ![r] = d]
  /\ routerQueue' = Append(routerQueue, GetBlock(r))
  /\ UNCHANGED <<retryTimers, pendingCallbacks, loadingMap, map, memory,
                 disk, ioQueue, syncQueue, callbackPool, preloadOps,
                 mainQueue, replies, row, cleaned, restarts>>

(* For each completion of the set a block that calls it with the data is   *)
(* dispatched to the main queue.  Blocks for different completions share   *)
(* nothing, so that only the order of those for one is kept.               *)
Dispatch(waiting, data) ==
  mainQueue' = [r \in Requests |->
                  IF r \in waiting THEN Append(mainQueue[r], data)
                  ELSE mainQueue[r]]

(* The slip of adding the size to the one recorded. *)
AddToRow(ranges) ==
  row' = IF row = NoRow THEN NoRow ELSE row + CachedLength(ranges)

(* The row is told the size the index counts, if there is a row. *)
SyncCacheInfoToDB(ranges) ==
  row' = IF row = NoRow THEN NoRow ELSE CachedLength(ranges)

(* The head of routerQueue is the getData block of r, for the range d. *)
Getting(r, d) ==
  /\ routerQueue # <<>>
  /\ Head(routerQueue) = GetBlock(r)
  /\ asked[r] = d
  /\ routerQueue' = Tail(routerQueue)

InMemory(d) == Len(memory[d.start]) = Length(d)
OnDisk(d) == Len(ReadData(d.start, Length(d))) = Length(d)

IsLoading(d) == \E q \in loadingMap : Overlaps(d, q)

AnswerFromMemory(r, d) ==
  /\ Getting(r, d)
  /\ InMemory(d)
  /\ Dispatch({r}, memory[d.start])
  /\ UNCHANGED <<asked, retryTimers, pendingCallbacks, loadingMap, map,
                 memory, disk, ioQueue, syncQueue, callbackPool, preloadOps,
                 replies, row, cleaned, restarts>>

AnswerFromDisk(r, d) ==
  /\ Getting(r, d)
  /\ ~InMemory(d)
  /\ OnDisk(d)
  /\ LET data == ReadData(d.start, Length(d))
     IN  /\ memory' = [memory EXCEPT ![d.start] = data]
         /\ map' = Merged(map, d)
         /\ SyncCacheInfoToDB(map')
         /\ Dispatch({r}, data)
  /\ UNCHANGED <<asked, retryTimers, pendingCallbacks, loadingMap, disk,
                 ioQueue, syncQueue, callbackPool, preloadOps, replies,
                 cleaned, restarts>>

JoinPending(r, d) ==
  /\ Getting(r, d)
  /\ ~InMemory(d) /\ ~OnDisk(d)
  /\ pendingCallbacks[d] # {}
  /\ pendingCallbacks' = [pendingCallbacks EXCEPT ![d] = @ \cup {r}]
  /\ UNCHANGED <<asked, retryTimers, loadingMap, map, memory, disk, ioQueue,
                 syncQueue, callbackPool, preloadOps, mainQueue, replies,
                 row, cleaned, restarts>>

(* markRangeLoading answers NO: try again in 0.1 s. *)
RetryLater(r, d) ==
  /\ Getting(r, d)
  /\ ~InMemory(d) /\ ~OnDisk(d)
  /\ pendingCallbacks[d] = {}
  /\ IsLoading(d)
  /\ retryTimers' = retryTimers \cup {r}
  /\ UNCHANGED <<asked, pendingCallbacks, loadingMap, map, memory, disk,
                 ioQueue, syncQueue, callbackPool, preloadOps, mainQueue,
                 replies, row, cleaned, restarts>>

(* The range is marked, and a download submitted for it. *)
StartDownload(r, d) ==
  /\ Getting(r, d)
  /\ ~InMemory(d) /\ ~OnDisk(d)
  /\ pendingCallbacks[d] = {}
  /\ ~IsLoading(d)
  /\ loadingMap' = loadingMap \cup {d}
  /\ pendingCallbacks' = [pendingCallbacks EXCEPT ![d] = {r}]
  /\ syncQueue' = Append(syncQueue, DownloadCall(d, "router"))
  /\ UNCHANGED <<asked, retryTimers, map, memory, disk, ioQueue,
                 callbackPool, preloadOps, mainQueue, replies, row, cleaned,
                 restarts>>

(* The slip of a timer that repeats. *)
RetryRepeating(r) ==
  /\ r \in retryTimers
  /\ routerQueue' = Append(routerQueue, GetBlock(r))
  /\ UNCHANGED <<asked, retryTimers, pendingCallbacks, loadingMap, map,
                 memory, disk, ioQueue, syncQueue, callbackPool, preloadOps,
                 mainQueue, replies, row, cleaned, restarts>>

(* The timer's block runs on routerQueue and only submits getData again. *)
Retry(r) ==
  /\ r \in retryTimers
  /\ retryTimers' = retryTimers \ {r}
  /\ routerQueue' = Append(routerQueue, GetBlock(r))
  /\ UNCHANGED <<asked, pendingCallbacks, loadingMap, map, memory, disk,
                 ioQueue, syncQueue, callbackPool, preloadOps, mainQueue,
                 replies, row, cleaned, restarts>>

(* The slip of leaving the range marked. *)
StayMarked(d) == UNCHANGED loadingMap

UnmarkRangeLoading(d) == loadingMap' = loadingMap \ {d}

(* The completion of a download, on routerQueue.  Data goes to the memory  *)
(* cache and the index at once and to ioQueue, which will call those who   *)
(* wait; without data they are called with the error.                      *)
Downloaded(d, data) ==
  /\ routerQueue # <<>>
  /\ Head(routerQueue) = DownloadedBlock(d, data)
  /\ routerQueue' = Tail(routerQueue)
  /\ pendingCallbacks' = [pendingCallbacks EXCEPT ![d] = {}]
  /\ UnmarkRangeLoading(d)
  /\ IF data # <<>>
     THEN /\ memory' = [memory EXCEPT ![d.start] = data]
          /\ map' = Merged(map, Extent(d.start, data))
          /\ ioQueue' = Append(ioQueue, [offset |-> d.start, data |-> data,
                                        waiting |-> pendingCallbacks[d],
                                        notify |-> TRUE])
          /\ UNCHANGED mainQueue
     ELSE /\ Dispatch(pendingCallbacks[d], <<>>)
          /\ UNCHANGED <<memory, map, ioQueue>>
  /\ UNCHANGED <<asked, retryTimers, disk, syncQueue, callbackPool,
                 preloadOps, replies, row, cleaned, restarts>>

(* After the write: record the size, and preload the first missing bytes   *)
(* unless some of them are loading.  The total length is never set, so     *)
(* isCompleted answers NO.                                                 *)
Flushed ==
  /\ routerQueue # <<>>
  /\ Head(routerQueue) = FlushedBlock
  /\ routerQueue' = Tail(routerQueue)
  /\ SyncCacheInfoToDB(map)
  /\ LET next == RangeOf(NextMissing(map), PreLen)
     IN  preloadOps' = IF IsLoading(next) \/ next.end > LastByte
                       THEN preloadOps ELSE Append(preloadOps, next)
  /\ UNCHANGED <<asked, retryTimers, pendingCallbacks, loadingMap, map,
                 memory, disk, ioQueue, syncQueue, callbackPool, mainQueue,
                 replies, cleaned, restarts>>

----------------------------------------------------------------------------
(* An operation of the preloader calls the downloader.  Two operations run *)
(* at a time, so the second may get there first.                           *)
RunPreload(i) ==
  /\ i \in DOMAIN preloadOps
  /\ syncQueue' = Append(syncQueue, DownloadCall(preloadOps[i], "preload"))
  /\ preloadOps' = SubSeq(preloadOps, 1, i - 1)
                     \o SubSeq(preloadOps, i + 1, Len(preloadOps))
  /\ UNCHANGED <<asked, routerQueue, retryTimers, pendingCallbacks,
                 loadingMap, map, memory, disk, ioQueue, callbackPool,
                 mainQueue, replies, row, cleaned, restarts>>

(* The slip of a list per call: whoever waits for the task is forgotten. *)
CallbacksReplaced(pool, c) == [pool EXCEPT ![c.range] = <<c.who>>]

(* The callbacks of a task the downloader starts, or has already. *)
CallbacksWith(pool, c) == [pool EXCEPT ![c.range] = Append(@, c.who)]

(* The downloader starts a task, or adds the completion to the one it has. *)
Download ==
  /\ syncQueue # <<>>
  /\ syncQueue' = Tail(syncQueue)
  /\ callbackPool' = CallbacksWith(callbackPool, Head(syncQueue))
  /\ UNCHANGED <<asked, routerQueue, retryTimers, pendingCallbacks,
                 loadingMap, map, memory, disk, ioQueue, preloadOps,
                 mainQueue, replies, row, cleaned, restarts>>

(* The task for d completes: every completion is called, and the task is   *)
(* forgotten.  The router's only submits a block; a preload's writes the   *)
(* data to disk, memory and index itself, whatever the router is doing.    *)
Respond(d, data) ==
  /\ callbackPool[d] # <<>>
  /\ data \in Responses(d)
  /\ callbackPool' = [callbackPool EXCEPT ![d] = <<>>]
  /\ LET Calls(who) == Count(callbackPool[d], LAMBDA w : w = who)
         preloads == IF data = <<>> THEN 0 ELSE Calls("preload")
     IN  /\ routerQueue' = routerQueue \o
              [i \in 1 .. Calls("router") |-> DownloadedBlock(d, data)]
         /\ ioQueue' = ioQueue \o
              [i \in 1 .. preloads |-> [offset |-> d.start, data |-> data,
                                       waiting |-> {}, notify |-> FALSE]]
         /\ IF preloads # 0
            THEN /\ memory' = [memory EXCEPT ![d.start] = data]
                 /\ map' = Merged(map, Extent(d.start, data))
            ELSE UNCHANGED <<memory, map>>
  /\ UNCHANGED <<asked, retryTimers, pendingCallbacks, loadingMap, disk,
                 syncQueue, preloadOps, mainQueue, replies, row, cleaned,
                 restarts>>

(* ioQueue writes the first chunk and, for the router, calls those who     *)
(* wait for it and submits the block that follows up.                      *)
WriteData ==
  /\ ioQueue # <<>>
  /\ LET w == Head(ioQueue)
     IN  /\ disk' = Written(w.offset, w.data)
         /\ Dispatch(w.waiting, w.data)
         /\ routerQueue' = IF w.notify THEN Append(routerQueue, FlushedBlock)
                           ELSE routerQueue
  /\ ioQueue' = Tail(ioQueue)
  /\ UNCHANGED <<asked, retryTimers, pendingCallbacks, loadingMap, map,
                 memory, syncQueue, callbackPool, preloadOps, replies, row,
                 cleaned, restarts>>

(* The main queue runs a block: the completion of r is called. *)
CallCompletion(r) ==
  /\ mainQueue[r] # <<>>
  /\ replies' = [replies EXCEPT ![r] = Append(@, Head(mainQueue[r]))]
  /\ mainQueue' = [mainQueue EXCEPT ![r] = Tail(@)]
  /\ UNCHANGED <<asked, routerQueue, retryTimers, pendingCallbacks, loadingMap,
                 map, memory, disk, ioQueue, syncQueue, callbackPool,
                 preloadOps, row, cleaned, restarts>>

(* NSCache drops a block whenever it likes. *)
Evict(o) ==
  /\ memory[o] # <<>>
  /\ memory' = [memory EXCEPT ![o] = <<>>]
  /\ UNCHANGED <<asked, routerQueue, retryTimers, pendingCallbacks,
                 loadingMap, map, disk, ioQueue, syncQueue, callbackPool,
                 preloadOps, mainQueue, replies, row, cleaned, restarts>>

(* cleanCacheWithMaxSize, once after the start, on a queue of its own, when *)
(* it picks this song: the file and the row go, and nobody else is told.   *)
CleanSong ==
  /\ ~cleaned
  /\ row # NoRow
  /\ cleaned' = TRUE
  /\ disk' = <<>>
  /\ row' = NoRow
  /\ UNCHANGED <<asked, routerQueue, retryTimers, pendingCallbacks,
                 loadingMap, map, memory, ioQueue, syncQueue, callbackPool,
                 preloadOps, mainQueue, replies, restarts>>

(* The song is played again after it was cleaned: playWithSong inserts the *)
(* row anew.                                                               *)
PlaySong ==
  /\ row = NoRow
  /\ row' = 0
  /\ UNCHANGED <<asked, routerQueue, retryTimers, pendingCallbacks,
                 loadingMap, map, memory, disk, ioQueue, syncQueue,
                 callbackPool, preloadOps, mainQueue, replies, cleaned,
                 restarts>>

(* The app is killed and started again, and plays the song: only the file  *)
(* and the row survive, and playWithSong inserts the row if it is gone.    *)
Restart ==
  /\ restarts < MaxRestarts
  /\ restarts' = restarts + 1
  /\ row' = IF row = NoRow THEN 0 ELSE row
  /\ asked' = [r \in Requests |-> NoRange]
  /\ routerQueue' = <<>>
  /\ retryTimers' = {}
  /\ pendingCallbacks' = [d \in Wanted |-> {}]
  /\ loadingMap' = {}
  /\ map' = {}
  /\ memory' = [o \in Offset |-> <<>>]
  /\ ioQueue' = <<>>
  /\ syncQueue' = <<>>
  /\ callbackPool' = [d \in CacheRange |-> <<>>]
  /\ preloadOps' = <<>>
  /\ mainQueue' = [r \in Requests |-> <<>>]
  /\ replies' = [r \in Requests |-> <<>>]
  /\ cleaned' = FALSE
  /\ UNCHANGED disk

----------------------------------------------------------------------------
(* A turn of routerQueue. *)
RunRouter ==
  \/ \E r \in Requests, d \in Wanted :
       \/ AnswerFromMemory(r, d)
       \/ AnswerFromDisk(r, d)
       \/ JoinPending(r, d)
       \/ RetryLater(r, d)
       \/ StartDownload(r, d)
  \/ \E d \in Wanted : \E data \in Responses(d) : Downloaded(d, data)
  \/ Flushed

Next ==
  \/ \E r \in Requests, d \in Wanted : GetData(r, d)
  \/ RunRouter
  \/ \E r \in Requests : Retry(r)
  \/ \E i \in {1, 2} : RunPreload(i)
  \/ Download
  \/ \E d \in CacheRange : \E data \in Responses(d) : Respond(d, data)
  \/ WriteData
  \/ \E r \in Requests : CallCompletion(r)
  \/ \E o \in Offset : Evict(o)
  \/ CleanSong
  \/ PlaySong
  \/ Restart

(* GCD runs what was submitted, a timer fires, a started task completes    *)
(* (the session times out after 30 s), and an operation is started.        *)
Fairness ==
  /\ WF_vars(RunRouter)
  /\ WF_vars(WriteData)
  /\ WF_vars(RunPreload(1))
  /\ WF_vars(Download)
  /\ \A r \in Requests : WF_vars(Retry(r)) /\ WF_vars(CallCompletion(r))
  /\ \A d \in CacheRange : WF_vars(\E data \in Responses(d) : Respond(d, data))

Spec == Init /\ [][Next]_vars /\ Fairness
----------------------------------------------------------------------------
(* The blocks routerQueue holds, and the writes ioQueue holds. *)
RouterBlock ==
  [type : {"getData"}, request : Requests]
    \cup {b \in [type : {"downloaded"}, range : CacheRange, data : Seq(Cell)] :
            Len(b.data) <= Length(b.range)}
    \cup {FlushedBlock}

Write == {w \in [offset : Offset, data : Seq(Cell), waiting : SUBSET Requests,
                 notify : BOOLEAN] :
            w.data # <<>> /\ w.offset + Len(w.data) - 1 <= LastByte}

(* The queues hold blocks, the index ranges, the caches bytes (what the    *)
(* row may hold is RowBacked).                                             *)
TypeOK ==
  /\ asked \in [Requests -> Wanted \cup {NoRange}]
  /\ routerQueue \in Seq(RouterBlock)
  /\ retryTimers \subseteq Requests
  /\ pendingCallbacks \in [Wanted -> SUBSET Requests]
  /\ loadingMap \subseteq Wanted
  /\ map \subseteq CacheRange
  /\ memory \in [Offset -> Seq(Cell)]
  /\ \A o \in Offset : o + Len(memory[o]) - 1 <= LastByte
  /\ disk \in Seq(Cell) /\ Len(disk) <= LastByte + 1
  /\ ioQueue \in Seq(Write)
  /\ syncQueue \in Seq([range : CacheRange, who : {"router", "preload"}])
  /\ callbackPool \in [CacheRange -> Seq({"router", "preload"})]
  /\ preloadOps \in Seq(CacheRange)
  /\ mainQueue \in [Requests -> Seq(Seq(Cell))]
  /\ replies \in [Requests -> Seq(Seq(Cell))]
  /\ cleaned \in BOOLEAN
  /\ restarts \in 0 .. MaxRestarts

----------------------------------------------------------------------------
(* The places the completion of r is kept or has been used: a getData      *)
(* block, a retry timer, a list of waiting callbacks, a queued write, a    *)
(* block of the main queue, or the calls made to it.                       *)
Holders(r) ==
  Count(routerQueue, LAMBDA b : b = GetBlock(r))
    + Cardinality({t \in retryTimers : t = r})
    + Cardinality({d \in Wanted : r \in pendingCallbacks[d]})
    + Count(ioQueue, LAMBDA w : r \in w.waiting)
    + Len(mainQueue[r]) + Len(replies[r])

(* AVPlayer's completion is never lost and never called twice, through all *)
(* the hand-overs between queues, joins and retries: AVPlayer hangs on a   *)
(* request nobody answers and raises on one finished twice.                *)
CompletionHeldOnce ==
  \A r \in Requests : Holders(r) = IF asked[r] = NoRange THEN 0 ELSE 1

(* The router's table of waiting callbacks and the index's table of        *)
(* loading ranges, kept by two objects, name the same ranges: a range that *)
(* is marked always has somebody waiting for it and the other way round.   *)
PendingIsLoading ==
  loadingMap = {d \in Wanted : pendingCallbacks[d] # {}}

(* For every range somebody waits for, exactly one download is submitted,  *)
(* under way or has its result queued; for the others there is none.  A    *)
(* second one would empty the list of those who joined in between.         *)
OneFetchPerPending ==
  \A d \in Wanted :
    Count(syncQueue, LAMBDA c : c = DownloadCall(d, "router"))
      + Count(callbackPool[d], LAMBDA who : who = "router")
      + Count(routerQueue, LAMBDA b : b.type = "downloaded" /\ b.range = d)
    = IF pendingCallbacks[d] # {} THEN 1 ELSE 0

(* The bytes of the file and of the writes queued for it. *)
Backed ==
  {x \in Offset :
     \/ x < Len(disk)
     \/ \E i \in DOMAIN ioQueue :
          x - ioQueue[i].offset + 1 \in DOMAIN ioQueue[i].data}

(* Until the cleaner runs, every byte the index calls cached is in the     *)
(* file, or in a write already queued for it.                              *)
IndexBacked == ~cleaned => Bytes(map) \subseteq Backed

(* Until the cleaner runs, and while the app is not killed with writes     *)
(* still queued, the row claims no more bytes than the file holds or will: *)
(* the size the cleaner budgets with is never more than it can free.       *)
RowBacked ==
  ~cleaned /\ restarts = 0 /\ row # NoRow => row <= Cardinality(Backed)

(* Until the cleaner runs, the data a completion was called with, or will  *)
(* be by a block of the main queue, lies in the file or in a write queued  *)
(* for it: the memory cache, which answers before the file is written, may *)
(* drop a block at any time, before or after the call, and no byte given   *)
(* to AVPlayer has to be fetched again.                                    *)
ServedIsBacked ==
  ~cleaned =>
    \A r \in Requests : \A data \in Range(mainQueue[r]) \cup Range(replies[r]) :
      \A i \in DOMAIN data : asked[r].start + i - 1 \in Backed

(* A byte of the song, once in the file, stays until the file is cleaned:  *)
(* overlapping writes of router and preloader, in either order, and holes  *)
(* left by later writes never damage it.                                   *)
SongBytesStay ==
  [][cleaned' = cleaned \/ restarts' # restarts =>
       \A i \in DOMAIN disk :
         disk[i] = "song" => i \in DOMAIN disk' /\ disk'[i] = "song"]_vars

(* Every request is answered, unless the app is killed first: retries end, *)
(* for a range that is loading is answered for sooner or later.            *)
Answered ==
  \A r \in Requests :
    (asked[r] # NoRange) ~> (replies[r] # <<>> \/ asked[r] = NoRange)

----------------------------------------------------------------------------
(* What the comments and the design document say, and the code does not.   *)

(* Every byte a completion is called with is the song's byte at that       *)
(* offset: the cache supports seeking ("支持 seek", design document line 11). *)
ServedIsSong ==
  \A r \in Requests : \A n \in DOMAIN replies[r] :
    \A i \in DOMAIN replies[r][n] : replies[r][n][i] = "song"
=============================================================================
