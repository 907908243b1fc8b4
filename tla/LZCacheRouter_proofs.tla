------------------------ MODULE LZCacheRouter_proofs ------------------------
(***************************************************************************)
(* The router, for any number of requests, any ranges, any file and any    *)
(* number of restarts.  First the type invariant, and that the table of    *)
(* waiting callbacks and the index's table of loading ranges agree; then   *)
(* what the bytes of the index and the size of the row stand on; then the  *)
(* hand-overs of completions between queues, joins and retries; last what  *)
(* the data they are called with stands on.                                *)
(***************************************************************************)
EXTENDS LZCacheRouter, LZCacheRanges_proofs, SequenceTheorems,
        FiniteSetTheorems

(* The minimum of two integers, as SubSeq's bound uses it. *)
LEMMA MinOfTwo ==
  ASSUME NEW a \in Int, NEW b \in Int
  PROVE  Min({a, b}) = IF a <= b THEN a ELSE b
BY DEF Min

(* The maximum of two integers: the length of a file after a write. *)
LEMMA MaxOfTwo ==
  ASSUME NEW a \in Int, NEW b \in Int
  PROVE  Max({a, b}) = IF a >= b THEN a ELSE b
BY DEF Max

(* A range has a positive length that ends inside the offsets. *)
LEMMA LengthType ==
  ASSUME NEW d \in CacheRange
  PROVE  /\ d.start \in Offset /\ d.end \in Offset
         /\ Length(d) \in Nat \ {0}
         /\ d.start + Length(d) - 1 <= LastByte
BY LastByteAssumption DEF CacheRange, Offset, Length

(* The server answers with cells, and with no more than it was asked for. *)
LEMMA ResponsesType ==
  ASSUME NEW d \in CacheRange, NEW data \in Responses(d)
  PROVE  data \in Seq(Cell) /\ Len(data) <= Length(d)
<1> USE LengthType
<1>1. SongPart(d) \in Seq(Cell) /\ Len(SongPart(d)) <= Length(d)
  <2> DEFINE n == Min({Length(d), FileLength - d.start})
  <2>1. n \in Int /\ n <= Length(d)
    BY MinOfTwo, RouterAssumption DEF Offset
  <2>2. SongPart(d) = [i \in 1 .. n |-> "song"]
    BY DEF SongPart
  <2> HIDE DEF n
  <2>3. CASE n >= 0
    BY <2>1, <2>2, <2>3 DEF Cell
  <2>4. CASE n < 0
    <3>1. 1 .. n = 1 .. 0
      BY <2>1, <2>4
    <3>2. SongPart(d) = [i \in 1 .. 0 |-> "song"]
      BY <2>2, <3>1, Zenon
    <3>3. SongPart(d) = <<>>
      BY <3>2
    <3> QED
      BY <3>3
  <2> QED
    BY <2>1, <2>3, <2>4
<1>2. <<>> \in Seq(Cell) /\ Len(<<>>) <= Length(d)
  OBVIOUS
<1>3. <<"page">> \in Seq(Cell) /\ Len(<<"page">>) <= Length(d)
  BY DEF Cell
<1> QED
  BY <1>1, <1>2, <1>3 DEF Responses

(* Reading the file gives cells, and no more of them than asked for. *)
LEMMA ReadDataType ==
  ASSUME disk \in Seq(Cell), NEW o \in Offset, NEW n \in Nat
  PROVE  ReadData(o, n) \in Seq(Cell)
<1> DEFINE e == Min({Len(disk), o + n})
<1>1. e \in Int /\ e <= Len(disk)
  BY MinOfTwo DEF Offset
<1>2. \A i \in o + 1 .. e : disk[i] \in Cell
  BY <1>1, ElementOfSeq DEF Offset
<1> HIDE DEF e
<1>3. SubSeq(disk, o + 1, e) \in Seq(Cell)
  BY <1>1, <1>2, SubSeqProperties DEF Offset
<1> QED
  BY <1>3 DEF ReadData, e

(* A write that stays inside the offsets keeps the file inside them. *)
LEMMA WrittenType ==
  ASSUME disk \in Seq(Cell), Len(disk) <= LastByte + 1,
         NEW o \in Offset, NEW data \in Seq(Cell), o + Len(data) - 1 <= LastByte
  PROVE  Written(o, data) \in Seq(Cell) /\ Len(Written(o, data)) <= LastByte + 1
<1> DEFINE n == Max({Len(disk), o + Len(data)})
<1>1. n \in Nat /\ n <= LastByte + 1
  BY MaxOfTwo, LastByteAssumption DEF Offset
<1> DEFINE e(i) == IF i - o \in DOMAIN data THEN data[i - o]
                   ELSE IF i \in DOMAIN disk THEN disk[i] ELSE "hole"
<1>2. \A i \in 1 .. n : e(i) \in Cell
  BY DEF Cell
<1>3. Written(o, data) = [i \in 1 .. n |-> e(i)]
  BY DEF Written
<1> HIDE DEF n, e
<1>4. [i \in 1 .. n |-> e(i)] \in Seq(Cell) /\ Len([i \in 1 .. n |-> e(i)]) = n
  BY <1>1, <1>2
<1> QED
  BY <1>1, <1>3, <1>4

(* The first missing offset is one of the file or the one after its last. *)
LEMMA NextMissingType ==
  ASSUME NEW R, R \subseteq CacheRange
  PROVE  NextMissing(R) \in 0 .. LastByte + 1
<1>1. LastByte + 1 \notin Bytes(R)
  BY InBytes, LastByteAssumption DEF CacheRange, Offset
<1>2. (0 .. LastByte + 1) \ Bytes(R) # {}
  BY <1>1, LastByteAssumption
<1>3. (0 .. LastByte + 1) \ Bytes(R) \subseteq Nat
  BY LastByteAssumption
<1> QED
  BY <1>2, <1>3, MinProperties DEF NextMissing

----------------------------------------------------------------------------
(* What the blocks the handlers submit are made of. *)
LEMMA BlockTypes ==
  /\ \A r \in Requests : GetBlock(r) \in RouterBlock
  /\ FlushedBlock \in RouterBlock
  /\ \A d \in CacheRange : \A data \in Seq(Cell) :
       Len(data) <= Length(d) => DownloadedBlock(d, data) \in RouterBlock
BY DEF RouterBlock, GetBlock, FlushedBlock, DownloadedBlock

(* The data of a downloaded block fits the range that was asked for. *)
LEMMA DownloadedFits ==
  ASSUME routerQueue \in Seq(RouterBlock), routerQueue # <<>>,
         NEW d \in CacheRange, NEW data, Head(routerQueue) = DownloadedBlock(d, data)
  PROVE  data \in Seq(Cell) /\ d.start + Len(data) - 1 <= LastByte
<1>1. Head(routerQueue) \in RouterBlock
  BY HeadTailProperties
<1>2. Head(routerQueue).type = "downloaded"
  BY DEF DownloadedBlock
<1>3. /\ Head(routerQueue).data \in Seq(Cell)
      /\ Len(Head(routerQueue).data) <= Length(Head(routerQueue).range)
  BY <1>1, <1>2 DEF RouterBlock, GetBlock, FlushedBlock
<1>4. data \in Seq(Cell) /\ Len(data) <= Length(d)
  BY <1>3 DEF DownloadedBlock
<1>5. Len(data) \in Nat
  BY <1>4, LenProperties
<1> QED
  BY <1>4, <1>5, LengthType, LastByteAssumption DEF Offset

(* Dispatching completions keeps the lists of results well formed. *)
LEMMA DispatchType ==
  ASSUME mainQueue \in [Requests -> Seq(Seq(Cell))],
         NEW waiting, NEW data \in Seq(Cell), Dispatch(waiting, data)
  PROVE  mainQueue' \in [Requests -> Seq(Seq(Cell))]
BY DEF Dispatch

(* The bytes a non-empty block takes are a range. *)
LEMMA ExtentType ==
  ASSUME NEW o \in Offset, NEW data \in Seq(Cell), data # <<>>,
         o + Len(data) - 1 <= LastByte
  PROVE  Extent(o, data) \in CacheRange
<1>1. Len(data) \in Nat \ {0}
  BY EmptySeq
<1> QED
  BY <1>1, LastByteAssumption DEF Extent, RangeOf, CacheRange, Offset

(* As many members of a sequence as of any set of its indices. *)
LEMMA CountType ==
  ASSUME NEW S, NEW q \in Seq(S), NEW I, I \subseteq DOMAIN q
  PROVE  IsFiniteSet(I) /\ Cardinality(I) \in Nat
<1>1. IsFiniteSet(DOMAIN q)
  BY LenProperties, FS_Interval
<1> QED
  BY <1>1, FS_Subset, FS_CardinalityType

----------------------------------------------------------------------------
(* An app just started is well formed. *)
LEMMA TypeInit == Init => TypeOK
<1> SUFFICES ASSUME Init PROVE TypeOK
  OBVIOUS
<1> USE LastByteAssumption, RouterAssumption
<1>1. \A o \in Offset : o + Len(memory[o]) - 1 <= LastByte
  BY DEF Init, Offset
<1>2. disk \in Seq(Cell) /\ Len(disk) <= LastByte + 1
  BY DEF Init
<1>3. /\ memory \in [Offset -> Seq(Cell)]
      /\ mainQueue \in [Requests -> Seq(Seq(Cell))]
      /\ replies \in [Requests -> Seq(Seq(Cell))]
  BY DEF Init
<1>4. /\ routerQueue \in Seq(RouterBlock) /\ ioQueue \in Seq(Write)
      /\ syncQueue \in Seq([range : CacheRange, who : {"router", "preload"}])
      /\ callbackPool \in [CacheRange -> Seq({"router", "preload"})]
      /\ preloadOps \in Seq(CacheRange)
  BY DEF Init
<1>5. asked \in [Requests -> Wanted \cup {NoRange}]
  BY DEF Init
<1>6. pendingCallbacks \in [Wanted -> SUBSET Requests]
  BY DEF Init
<1>7. /\ retryTimers \subseteq Requests
      /\ loadingMap \subseteq Wanted /\ map \subseteq CacheRange
  BY DEF Init
<1>8. cleaned \in BOOLEAN
  BY Zenon DEF Init
<1>9. restarts \in 0 .. MaxRestarts
  BY DEF Init
<1> QED
  BY <1>1, <1>2, <1>3, <1>4, <1>5, <1>6, <1>7, <1>8, <1>9, Zenon DEF TypeOK

(* getDataForKey and the timers submit a block. *)
LEMMA TypeSubmit ==
  ASSUME TypeOK, NEW r \in Requests
  PROVE  /\ \A d \in Wanted : GetData(r, d) => TypeOK'
         /\ Retry(r) => TypeOK'
<1>1. Append(routerQueue, GetBlock(r)) \in Seq(RouterBlock)
  BY BlockTypes DEF TypeOK
<1>2. ASSUME NEW d \in Wanted, GetData(r, d) PROVE TypeOK'
  BY <1>1, <1>2 DEF TypeOK, GetData
<1>3. ASSUME Retry(r) PROVE TypeOK'
  BY <1>1, <1>3 DEF TypeOK, Retry
<1> QED
  BY <1>2, <1>3

(* A getData block: answered from a cache, joined, postponed, or started. *)
LEMMA TypeGetting ==
  ASSUME TypeOK, NEW r \in Requests, NEW d \in Wanted
  PROVE  /\ AnswerFromMemory(r, d) => TypeOK'
         /\ AnswerFromDisk(r, d) => TypeOK'
         /\ JoinPending(r, d) => TypeOK'
         /\ RetryLater(r, d) => TypeOK'
         /\ StartDownload(r, d) => TypeOK'
<1>1. d \in CacheRange /\ d.start \in Offset
  BY RouterAssumption, LengthType
<1>2. Getting(r, d) => routerQueue' \in Seq(RouterBlock)
  BY HeadTailProperties DEF Getting, TypeOK
<1>3. ASSUME AnswerFromMemory(r, d) PROVE TypeOK'
  <2>1. mainQueue' \in [Requests -> Seq(Seq(Cell))]
    BY <1>1, <1>3, DispatchType DEF AnswerFromMemory, TypeOK
  <2> QED
    BY <1>2, <1>3, <2>1 DEF AnswerFromMemory, TypeOK
<1>4. ASSUME AnswerFromDisk(r, d) PROVE TypeOK'
  <2> DEFINE data == ReadData(d.start, Length(d))
  <2>1. data \in Seq(Cell) /\ d.start + Len(data) - 1 <= LastByte
    BY <1>1, <1>4, ReadDataType, LengthType DEF AnswerFromDisk, OnDisk, TypeOK
  <2>2. /\ memory' = [memory EXCEPT ![d.start] = data]
        /\ map' = Merged(map, d)
        /\ Dispatch({r}, data)
    BY <1>4 DEF AnswerFromDisk
  <2> HIDE DEF data
  <2>3. mainQueue' \in [Requests -> Seq(Seq(Cell))]
    BY <2>1, <2>2, DispatchType DEF TypeOK
  <2>4. map' \subseteq CacheRange
    BY <1>1, <2>2, MergedType DEF TypeOK
  <2>5. /\ memory' \in [Offset -> Seq(Cell)]
        /\ \A o \in Offset : o + Len(memory'[o]) - 1 <= LastByte
    BY <1>1, <2>1, <2>2 DEF TypeOK
  <2> QED
    BY <1>2, <1>4, <2>3, <2>4, <2>5 DEF AnswerFromDisk, TypeOK
<1>5. ASSUME JoinPending(r, d) PROVE TypeOK'
  BY <1>2, <1>5 DEF JoinPending, TypeOK
<1>6. ASSUME RetryLater(r, d) PROVE TypeOK'
  BY <1>2, <1>6 DEF RetryLater, TypeOK
<1>7. ASSUME StartDownload(r, d) PROVE TypeOK'
  <2>1. DownloadCall(d, "router") \in [range : CacheRange, who : {"router", "preload"}]
    BY <1>1 DEF DownloadCall
  <2> QED
    BY <1>2, <1>7, <2>1 DEF StartDownload, TypeOK
<1> QED
  BY <1>3, <1>4, <1>5, <1>6, <1>7

(* The completion of a download: the block ends, and either the data goes  *)
(* on to the disk queue or the error to those who wait.                    *)
LEMMA TypeDownloaded ==
  ASSUME TypeOK, NEW d \in Wanted, NEW data, Downloaded(d, data)
  PROVE  TypeOK'
<1>1. d \in CacheRange /\ d.start \in Offset
  BY RouterAssumption, LengthType
<1>2. data \in Seq(Cell) /\ d.start + Len(data) - 1 <= LastByte
  BY <1>1, DownloadedFits DEF Downloaded, TypeOK
<1>3. routerQueue' \in Seq(RouterBlock)
  BY HeadTailProperties DEF Downloaded, TypeOK
<1>4. /\ pendingCallbacks' \in [Wanted -> SUBSET Requests]
      /\ loadingMap' \subseteq Wanted
      /\ pendingCallbacks[d] \subseteq Requests
  BY DEF Downloaded, UnmarkRangeLoading, TypeOK
<1>5. UNCHANGED <<asked, retryTimers, disk, syncQueue, callbackPool, preloadOps,
                  replies, cleaned, restarts>>
  BY DEF Downloaded
<1>6. CASE data # <<>>
  <2>1. /\ memory' = [memory EXCEPT ![d.start] = data]
        /\ map' = Merged(map, Extent(d.start, data))
        /\ ioQueue' = Append(ioQueue, [offset |-> d.start, data |-> data,
                                      waiting |-> pendingCallbacks[d],
                                      notify |-> TRUE])
        /\ UNCHANGED mainQueue
    BY <1>6 DEF Downloaded
  <2>2. /\ memory' \in [Offset -> Seq(Cell)]
        /\ \A o \in Offset : o + Len(memory'[o]) - 1 <= LastByte
    BY <1>1, <1>2, <2>1 DEF TypeOK
  <2>3. map' \subseteq CacheRange
    BY <1>1, <1>2, <1>6, <2>1, ExtentType, MergedType DEF TypeOK
  <2>4. [offset |-> d.start, data |-> data, waiting |-> pendingCallbacks[d],
         notify |-> TRUE] \in Write
    BY <1>1, <1>2, <1>4, <1>6 DEF Write
  <2>5. ioQueue' \in Seq(Write)
    BY <2>1, <2>4 DEF TypeOK
  <2> QED
    BY <1>3, <1>4, <1>5, <2>1, <2>2, <2>3, <2>5 DEF TypeOK
<1>7. CASE data = <<>>
  <2>1. mainQueue' \in [Requests -> Seq(Seq(Cell))]
    BY <1>2, <1>7, DispatchType DEF Downloaded, TypeOK
  <2>2. UNCHANGED <<memory, map, ioQueue>>
    BY <1>7 DEF Downloaded
  <2> QED
    BY <1>3, <1>4, <1>5, <2>1, <2>2 DEF TypeOK
<1> QED
  BY <1>6, <1>7

(* The follow-up of a write: a preload is queued only inside the offsets. *)
LEMMA TypeFlushed ==
  ASSUME TypeOK, Flushed
  PROVE  TypeOK'
<1> DEFINE next == RangeOf(NextMissing(map), PreLen)
<1>0. NextMissing(map) \in 0 .. LastByte + 1
  BY NextMissingType DEF TypeOK
<1>1. next.end <= LastByte => next \in CacheRange
  BY <1>0, RouterAssumption, LastByteAssumption DEF RangeOf, CacheRange, Offset
<1>2. preloadOps' = IF IsLoading(next) \/ next.end > LastByte
                    THEN preloadOps ELSE Append(preloadOps, next)
  BY DEF Flushed
<1>3. next.end \in Int
  BY <1>0, RouterAssumption, LastByteAssumption DEF RangeOf
<1> HIDE DEF next
<1>4. preloadOps' \in Seq(CacheRange)
  BY <1>1, <1>2, <1>3, LastByteAssumption DEF TypeOK
<1>5. routerQueue' \in Seq(RouterBlock)
  BY HeadTailProperties DEF Flushed, TypeOK
<1> QED
  BY <1>4, <1>5 DEF Flushed, TypeOK

(* An operation of the preloader leaves its queue and calls the downloader. *)
LEMMA TypeRunPreload ==
  ASSUME TypeOK, NEW i \in {1, 2}, RunPreload(i)
  PROVE  TypeOK'
<1>1. preloadOps \in Seq(CacheRange) /\ i \in 1 .. Len(preloadOps)
  BY LenProperties DEF RunPreload, TypeOK
<1>2. preloadOps[i] \in CacheRange
  BY <1>1, ElementOfSeq
<1>3. syncQueue' \in Seq([range : CacheRange, who : {"router", "preload"}])
  BY <1>2 DEF RunPreload, DownloadCall, TypeOK
<1>4. SubSeq(preloadOps, 1, i - 1) \in Seq(CacheRange)
  BY <1>1, ElementOfSeq, SubSeqProperties
<1>5. SubSeq(preloadOps, i + 1, Len(preloadOps)) \in Seq(CacheRange)
  BY <1>1, ElementOfSeq, SubSeqProperties
<1>6. preloadOps' \in Seq(CacheRange)
  BY <1>4, <1>5, ConcatProperties DEF RunPreload
<1> QED
  BY <1>3, <1>6 DEF RunPreload, TypeOK

(* The downloader notes whom the task for a range calls. *)
LEMMA TypeDownload ==
  ASSUME TypeOK, Download
  PROVE  TypeOK'
<1> DEFINE c == Head(syncQueue)
<1>1. /\ c \in [range : CacheRange, who : {"router", "preload"}]
      /\ syncQueue' \in Seq([range : CacheRange, who : {"router", "preload"}])
  BY HeadTailProperties DEF Download, TypeOK
<1>2. callbackPool' = [callbackPool EXCEPT ![c.range] = Append(@, c.who)]
  BY DEF Download, CallbacksWith
<1> HIDE DEF c
<1>3. callbackPool' \in [CacheRange -> Seq({"router", "preload"})]
  BY <1>1, <1>2 DEF TypeOK
<1> QED
  BY <1>1, <1>3 DEF Download, TypeOK

(* A task completes: the router's block and the preloader's write and data *)
(* go where they belong, as often as either is among the callbacks.        *)
LEMMA TypeRespond ==
  ASSUME TypeOK, NEW d \in CacheRange, NEW data \in Responses(d), Respond(d, data)
  PROVE  TypeOK'
<1> DEFINE Calls(who) == Count(callbackPool[d], LAMBDA w : w = who)
           preloads == IF data = <<>> THEN 0 ELSE Calls("preload")
           block == DownloadedBlock(d, data)
           write == [offset |-> d.start, data |-> data, waiting |-> {},
                     notify |-> FALSE]
<1>1. d.start \in Offset /\ data \in Seq(Cell) /\ d.start + Len(data) - 1 <= LastByte
  <2>1. data \in Seq(Cell) /\ Len(data) <= Length(d)
    BY ResponsesType
  <2> QED
    BY <2>1, LengthType, LenProperties, LastByteAssumption DEF Offset
<1>2. Calls("router") \in Nat /\ Calls("preload") \in Nat
  <2>1. callbackPool[d] \in Seq({"router", "preload"})
    BY DEF TypeOK
  <2> QED
    BY <2>1, CountType DEF Count
<1>3. block \in RouterBlock
  BY ResponsesType, BlockTypes
<1>4. data # <<>> => write \in Write
  BY <1>1 DEF Write
<1>5. /\ routerQueue' = routerQueue \o [i \in 1 .. Calls("router") |-> block]
      /\ ioQueue' = ioQueue \o [i \in 1 .. preloads |-> write]
      /\ callbackPool' = [callbackPool EXCEPT ![d] = <<>>]
      /\ IF preloads # 0
         THEN /\ memory' = [memory EXCEPT ![d.start] = data]
              /\ map' = Merged(map, Extent(d.start, data))
         ELSE UNCHANGED <<memory, map>>
  BY DEF Respond
<1>6. preloads \in Nat /\ (preloads # 0 => data # <<>>)
  BY <1>2
<1> HIDE DEF Calls, preloads, block, write
<1>7. routerQueue' \in Seq(RouterBlock)
  <2>1. [i \in 1 .. Calls("router") |-> block] \in Seq(RouterBlock)
    BY <1>2, <1>3
  <2> QED
    BY <1>5, <2>1, ConcatProperties DEF TypeOK
<1>8. ioQueue' \in Seq(Write)
  <2>1. [i \in 1 .. preloads |-> write] \in Seq(Write)
    BY <1>4, <1>6
  <2> QED
    BY <1>5, <2>1, ConcatProperties DEF TypeOK
<1>9. /\ memory' \in [Offset -> Seq(Cell)]
      /\ \A o \in Offset : o + Len(memory'[o]) - 1 <= LastByte
  BY <1>1, <1>5 DEF TypeOK
<1>10. map' \subseteq CacheRange
  BY <1>1, <1>5, <1>6, ExtentType, MergedType DEF TypeOK
<1>11. callbackPool' \in [CacheRange -> Seq({"router", "preload"})]
  BY <1>5 DEF TypeOK
<1> QED
  BY <1>7, <1>8, <1>9, <1>10, <1>11 DEF Respond, TypeOK

(* A write of ioQueue. *)
LEMMA TypeWriteData ==
  ASSUME TypeOK, WriteData
  PROVE  TypeOK'
<1> DEFINE w == Head(ioQueue)
<1>1. w \in Write /\ ioQueue' \in Seq(Write)
  BY HeadTailProperties DEF WriteData, TypeOK
<1>2. /\ w.offset \in Offset /\ w.data \in Seq(Cell)
      /\ w.offset + Len(w.data) - 1 <= LastByte
  BY <1>1 DEF Write
<1>3. /\ disk' = Written(w.offset, w.data)
      /\ Dispatch(w.waiting, w.data)
      /\ routerQueue' = IF w.notify THEN Append(routerQueue, FlushedBlock)
                        ELSE routerQueue
  BY DEF WriteData
<1> HIDE DEF w
<1>4. disk' \in Seq(Cell) /\ Len(disk') <= LastByte + 1
  BY <1>2, <1>3, WrittenType DEF TypeOK
<1>5. mainQueue' \in [Requests -> Seq(Seq(Cell))]
  BY <1>2, <1>3, DispatchType DEF TypeOK
<1>6. routerQueue' \in Seq(RouterBlock)
  BY <1>3, BlockTypes DEF TypeOK
<1> QED
  BY <1>1, <1>4, <1>5, <1>6 DEF WriteData, TypeOK

(* A completion is called. *)
LEMMA TypeCallCompletion ==
  ASSUME TypeOK, NEW r \in Requests, CallCompletion(r)
  PROVE  TypeOK'
<1>1. /\ mainQueue[r] \in Seq(Seq(Cell)) /\ mainQueue[r] # <<>>
      /\ replies[r] \in Seq(Seq(Cell))
  BY DEF CallCompletion, TypeOK
<1>2. /\ Tail(mainQueue[r]) \in Seq(Seq(Cell))
      /\ Append(replies[r], Head(mainQueue[r])) \in Seq(Seq(Cell))
  BY <1>1, HeadTailProperties
<1>3. /\ mainQueue' \in [Requests -> Seq(Seq(Cell))]
      /\ replies' \in [Requests -> Seq(Seq(Cell))]
  BY <1>2 DEF CallCompletion, TypeOK
<1> QED
  BY <1>3 DEF CallCompletion, TypeOK

(* What the system does behind the cache's back. *)
LEMMA TypeOutside ==
  ASSUME TypeOK
  PROVE  /\ \A o \in Offset : Evict(o) => TypeOK'
         /\ CleanSong => TypeOK'
         /\ PlaySong => TypeOK'
         /\ Restart => TypeOK'
<1>1. ASSUME NEW o \in Offset, Evict(o) PROVE TypeOK'
  <2>1. /\ memory' \in [Offset -> Seq(Cell)]
        /\ \A p \in Offset : p + Len(memory'[p]) - 1 <= LastByte
    BY <1>1, LastByteAssumption DEF Evict, TypeOK, Offset
  <2> QED
    BY <1>1, <2>1 DEF Evict, TypeOK
<1>2. ASSUME CleanSong PROVE TypeOK'
  <2>1. disk' \in Seq(Cell) /\ Len(disk') <= LastByte + 1
    BY <1>2, LastByteAssumption DEF CleanSong
  <2>2. cleaned' \in BOOLEAN
    BY <1>2, Zenon DEF CleanSong
  <2> QED
    BY <1>2, <2>1, <2>2 DEF CleanSong, TypeOK
<1>3. ASSUME PlaySong PROVE TypeOK'
  BY <1>3 DEF PlaySong, TypeOK
<1>4. ASSUME Restart PROVE TypeOK'
  <2> USE <1>4, LastByteAssumption, RouterAssumption
  <2>1. \A o \in Offset : o + Len(memory'[o]) - 1 <= LastByte
    BY DEF Restart, Offset
  <2>2. /\ memory' \in [Offset -> Seq(Cell)]
        /\ mainQueue' \in [Requests -> Seq(Seq(Cell))]
        /\ replies' \in [Requests -> Seq(Seq(Cell))]
    BY DEF Restart
  <2>3. /\ routerQueue' \in Seq(RouterBlock) /\ ioQueue' \in Seq(Write)
        /\ syncQueue' \in Seq([range : CacheRange, who : {"router", "preload"}])
        /\ callbackPool' \in [CacheRange -> Seq({"router", "preload"})]
        /\ preloadOps' \in Seq(CacheRange)
    BY DEF Restart
  <2>4. asked' \in [Requests -> Wanted \cup {NoRange}]
    BY DEF Restart
  <2>5. pendingCallbacks' \in [Wanted -> SUBSET Requests]
    BY DEF Restart
  <2>6. /\ retryTimers' \subseteq Requests
        /\ loadingMap' \subseteq Wanted /\ map' \subseteq CacheRange
    BY DEF Restart
  <2>7. cleaned' \in BOOLEAN
    BY Zenon DEF Restart
  <2>8. restarts' \in 0 .. MaxRestarts
    BY DEF Restart, TypeOK
  <2>9. disk' \in Seq(Cell) /\ Len(disk') <= LastByte + 1
    BY DEF Restart, TypeOK
  <2> QED
    BY <2>1, <2>2, <2>3, <2>4, <2>5, <2>6, <2>7, <2>8, <2>9, Zenon DEF TypeOK
<1> QED
  BY <1>1, <1>2, <1>3, <1>4

(* Every step keeps the state well formed. *)
LEMMA TypeStep == TypeOK /\ [Next]_vars => TypeOK'
<1> SUFFICES ASSUME TypeOK, [Next]_vars PROVE TypeOK'
  OBVIOUS
<1>1. CASE RunRouter
  BY <1>1, TypeGetting, TypeDownloaded, TypeFlushed DEF RunRouter
<1>2. CASE UNCHANGED vars
  BY <1>2 DEF vars, TypeOK
<1> QED
  BY <1>1, <1>2, TypeSubmit, TypeRunPreload, TypeDownload, TypeRespond,
     TypeWriteData, TypeCallCompletion, TypeOutside DEF Next

(* Every reachable state is well formed: the queues hold only blocks of    *)
(* the shapes the handlers expect, and no offset leaves the model.         *)
THEOREM TypeCorrect == Spec => []TypeOK
BY TypeInit, TypeStep, PTL DEF Spec

----------------------------------------------------------------------------
(* The inductive invariant of the two tables: the router's table of        *)
(* waiting callbacks is what the getData block tests for equality of       *)
(* ranges, the index's table is what it tests for overlap, and only as     *)
(* long as the two agree does a range that is marked have a download that  *)
(* will unmark it.                                                         *)
TablesInv == TypeOK /\ PendingIsLoading

(* Both tables start empty. *)
LEMMA TablesInit == Init => TablesInv
<1> SUFFICES ASSUME Init PROVE TablesInv
  OBVIOUS
<1>1. PendingIsLoading
  BY DEF Init, PendingIsLoading
<1> QED
  BY <1>1, TypeInit DEF TablesInv

(* A handler that leaves both tables alone. *)
LEMMA TablesUntouched ==
  ASSUME TablesInv, UNCHANGED <<pendingCallbacks, loadingMap>>
  PROVE  PendingIsLoading'
BY DEF TablesInv, PendingIsLoading

(* A request that joins finds its range marked already. *)
LEMMA JoinKeepsTables ==
  ASSUME TablesInv, NEW r \in Requests, NEW d \in Wanted, JoinPending(r, d)
  PROVE  PendingIsLoading'
<1>1. /\ pendingCallbacks[d] # {}
      /\ pendingCallbacks' = [pendingCallbacks EXCEPT ![d] = @ \cup {r}]
      /\ loadingMap' = loadingMap
  BY DEF JoinPending
<1>2. pendingCallbacks \in [Wanted -> SUBSET Requests]
  BY DEF TablesInv, TypeOK
<1>3. \A e \in Wanted : pendingCallbacks'[e] # {} <=> pendingCallbacks[e] # {}
  BY <1>1, <1>2
<1> QED
  BY <1>1, <1>3 DEF TablesInv, PendingIsLoading

(* A download that starts is entered in both tables. *)
LEMMA StartKeepsTables ==
  ASSUME TablesInv, NEW r \in Requests, NEW d \in Wanted, StartDownload(r, d)
  PROVE  PendingIsLoading'
<1>1. /\ loadingMap' = loadingMap \cup {d}
      /\ pendingCallbacks' = [pendingCallbacks EXCEPT ![d] = {r}]
  BY DEF StartDownload
<1>2. pendingCallbacks \in [Wanted -> SUBSET Requests]
  BY DEF TablesInv, TypeOK
<1>3. \A e \in Wanted : pendingCallbacks'[e] # {} <=> (e = d \/ pendingCallbacks[e] # {})
  BY <1>1, <1>2
<1> QED
  BY <1>1, <1>3 DEF TablesInv, PendingIsLoading

(* The end of a download clears both entries. *)
LEMMA DownloadedKeepsTables ==
  ASSUME TablesInv, NEW d \in Wanted, NEW data, Downloaded(d, data)
  PROVE  PendingIsLoading'
<1>1. /\ pendingCallbacks' = [pendingCallbacks EXCEPT ![d] = {}]
      /\ loadingMap' = loadingMap \ {d}
  BY DEF Downloaded, UnmarkRangeLoading
<1>2. pendingCallbacks \in [Wanted -> SUBSET Requests] /\ loadingMap \subseteq Wanted
  BY DEF TablesInv, TypeOK
<1>3. \A e \in Wanted : pendingCallbacks'[e] # {} <=> (e # d /\ pendingCallbacks[e] # {})
  BY <1>1, <1>2
<1> QED
  BY <1>1, <1>2, <1>3 DEF TablesInv, PendingIsLoading

(* A restart empties both tables. *)
LEMMA RestartKeepsTables == Restart => PendingIsLoading'
<1> SUFFICES ASSUME Restart PROVE PendingIsLoading'
  OBVIOUS
<1>1. pendingCallbacks' = [d \in Wanted |-> {}] /\ loadingMap' = {}
  BY DEF Restart
<1> QED
  BY <1>1 DEF PendingIsLoading

(* Every step keeps the tables in agreement. *)
LEMMA TablesStep == TablesInv /\ [Next]_vars => TablesInv'
<1> SUFFICES ASSUME TablesInv, [Next]_vars
             PROVE  PendingIsLoading'
  BY TypeStep DEF TablesInv
<1> DEFINE Same == UNCHANGED <<pendingCallbacks, loadingMap>>
<1>1. CASE RunRouter
  <2>1. ASSUME NEW r \in Requests, NEW d \in Wanted,
               \/ AnswerFromMemory(r, d)
               \/ AnswerFromDisk(r, d)
               \/ RetryLater(r, d)
        PROVE  Same
    BY <2>1 DEF AnswerFromMemory, AnswerFromDisk, RetryLater
  <2>2. Flushed => Same
    BY DEF Flushed
  <2> QED
    BY <1>1, <2>1, <2>2, TablesUntouched, JoinKeepsTables, StartKeepsTables,
       DownloadedKeepsTables DEF RunRouter
<1>2. ASSUME NEW r \in Requests, \/ \E d \in Wanted : GetData(r, d)
                                 \/ Retry(r)
      PROVE  Same
  BY <1>2 DEF GetData, Retry
<1>3. ASSUME NEW i \in {1, 2}, RunPreload(i) PROVE Same
  BY <1>3 DEF RunPreload
<1>4. ASSUME NEW d \in CacheRange, NEW data \in Responses(d), Respond(d, data)
      PROVE  Same
  BY <1>4 DEF Respond
<1>5. ASSUME NEW o \in Offset, Evict(o) PROVE Same
  BY <1>5 DEF Evict
<1>6. \/ Download \/ WriteData \/ CleanSong \/ PlaySong
      \/ \E r \in Requests : CallCompletion(r)
      => Same
  BY DEF Download, WriteData, CleanSong, PlaySong, CallCompletion
<1>7. UNCHANGED vars => Same
  BY DEF vars
<1> HIDE DEF Same
<1>8. Same \/ RunRouter \/ Restart
  BY <1>2, <1>3, <1>4, <1>5, <1>6, <1>7 DEF Next
<1> QED
  BY <1>1, <1>8, TablesUntouched, RestartKeepsTables DEF Same

(* The tables agree in every reachable state. *)
LEMMA TablesInvariance == Spec => []TablesInv
BY TablesInit, TablesStep, PTL DEF Spec

(* Whoever finds its range in pendingCallbacks joins a download the index  *)
(* knows of, and a range stays marked exactly as long as somebody waits.   *)
THEOREM TablesAgree == Spec => []PendingIsLoading
BY TablesInvariance, PTL DEF TablesInv

----------------------------------------------------------------------------
(* The bytes the index and the row claim, and those the file and ioQueue   *)
(* hold.  The inductive invariant needs the ranges apart, or the row would *)
(* count a byte twice.                                                     *)
BytesInv ==
  /\ TypeOK
  /\ row \in Nat \cup {NoRow}
  /\ Separated(map)
  /\ IndexBacked
  /\ RowBacked

(* A write of the queue q will put the byte x into the file. *)
Puts(w, x) == x - w.offset + 1 \in DOMAIN w.data
QueueHolds(q, x) == \E i \in DOMAIN q : Puts(q[i], x)

(* What a longer queue holds, and what is left of one after its head. *)
LEMMA QueueHoldsProperties ==
  ASSUME NEW S, NEW q \in Seq(S), NEW x
  PROVE  /\ \A w \in S : QueueHolds(q, x) \/ Puts(w, x) => QueueHolds(Append(q, w), x)
         /\ \A p \in Seq(S) : QueueHolds(q, x) \/ QueueHolds(p, x) => QueueHolds(q \o p, x)
         /\ q # <<>> /\ QueueHolds(q, x) => QueueHolds(Tail(q), x) \/ Puts(Head(q), x)
<1>1. ASSUME NEW w \in S, QueueHolds(q, x) \/ Puts(w, x)
      PROVE  QueueHolds(Append(q, w), x)
  <2>1. /\ DOMAIN Append(q, w) = 1 .. Len(q) + 1
        /\ \A i \in 1 .. Len(q) : Append(q, w)[i] = q[i]
        /\ Append(q, w)[Len(q) + 1] = w
    OBVIOUS
  <2>2. Len(q) \in Nat /\ DOMAIN q = 1 .. Len(q)
    OBVIOUS
  <2> QED
    BY <1>1, <2>1, <2>2 DEF QueueHolds
<1>2. ASSUME NEW p \in Seq(S), QueueHolds(q, x) \/ QueueHolds(p, x)
      PROVE  QueueHolds(q \o p, x)
  <2>1. /\ DOMAIN (q \o p) = 1 .. Len(q) + Len(p)
        /\ \A i \in 1 .. Len(q) : (q \o p)[i] = q[i]
        /\ \A i \in 1 .. Len(p) : (q \o p)[Len(q) + i] = p[i]
    OBVIOUS
  <2>2. /\ Len(q) \in Nat /\ DOMAIN q = 1 .. Len(q)
        /\ Len(p) \in Nat /\ DOMAIN p = 1 .. Len(p)
    OBVIOUS
  <2>3. CASE QueueHolds(q, x)
    BY <2>1, <2>2, <2>3 DEF QueueHolds
  <2>4. CASE QueueHolds(p, x)
    <3>1. PICK i \in 1 .. Len(p) : Puts(p[i], x)
      BY <2>2, <2>4 DEF QueueHolds
    <3>2. Len(q) + i \in 1 .. Len(q) + Len(p) /\ (q \o p)[Len(q) + i] = p[i]
      BY <2>1, <2>2
    <3> QED
      BY <2>1, <3>1, <3>2 DEF QueueHolds
  <2> QED
    BY <1>2, <2>3, <2>4
<1>3. ASSUME q # <<>>, QueueHolds(q, x)
      PROVE  QueueHolds(Tail(q), x) \/ Puts(Head(q), x)
  <2>1. PICK i \in DOMAIN q : Puts(q[i], x)
    BY <1>3 DEF QueueHolds
  <2>2. CASE i = 1
    BY <1>3, <2>1, <2>2
  <2>3. CASE i # 1
    <3>1. i - 1 \in DOMAIN Tail(q) /\ Tail(q)[i - 1] = q[i]
      BY <1>3, <2>3
    <3> QED
      BY <2>1, <3>1 DEF QueueHolds
  <2> QED
    BY <2>2, <2>3
<1> QED
  BY <1>1, <1>2, <1>3

(* A byte is backed by the file or by the queue. *)
LEMMA BackedProperties ==
  /\ Backed \subseteq Offset
  /\ \A x \in Offset : x \in Backed <=> x < Len(disk) \/ QueueHolds(ioQueue, x)
BY DEF Backed, QueueHolds, Puts

LEMMA BackedNext ==
  /\ Backed' \subseteq Offset
  /\ \A x \in Offset : x \in Backed' <=> x < Len(disk') \/ QueueHolds(ioQueue', x)
BY DEF Backed, QueueHolds, Puts

(* A set of bytes is finite, and no larger than one that contains it. *)
LEMMA BytesCounted ==
  ASSUME NEW A, NEW B, A \subseteq B, B \subseteq Offset
  PROVE  /\ Cardinality(A) \in Nat /\ Cardinality(B) \in Nat
         /\ Cardinality(A) <= Cardinality(B)
<1>1. IsFiniteSet(Offset)
  BY LastByteAssumption, FS_Interval DEF Offset
<1>2. IsFiniteSet(B)
  BY <1>1, FS_Subset
<1> QED
  BY <1>2, FS_Subset, FS_CardinalityType

(* What a step has to show: it takes no backing away, backs what it lets   *)
(* the index claim, and lets the row claim what it did, nothing, or what   *)
(* the index claims.                                                       *)
LEMMA BytesKept ==
  ASSUME BytesInv, TypeOK', Separated(map'),
         cleaned' = cleaned, restarts' = restarts, Backed \subseteq Backed',
         ~cleaned => Bytes(map') \subseteq Backed',
         row' \in {row, 0, NoRow, CachedLength(map')}
  PROVE  BytesInv'
<1>1. map' \subseteq CacheRange
  BY DEF TypeOK
<1>2. CachedLength(map') = Cardinality(Bytes(map'))
  BY <1>1, CachedLengthCounts
<1>3. Cardinality(Bytes(map')) \in Nat
  BY <1>1, RangesFinite
<1>4. IndexBacked'
  BY DEF IndexBacked
<1>5. row' \in Nat \cup {NoRow}
  BY <1>2, <1>3 DEF BytesInv
<1>6. ASSUME ~cleaned', restarts' = 0, row' # NoRow
      PROVE  row' <= Cardinality(Backed')
  <2>1. /\ Cardinality(Backed) \in Nat /\ Cardinality(Backed') \in Nat
        /\ Cardinality(Backed) <= Cardinality(Backed')
    BY BackedNext, BytesCounted
  <2>2. Cardinality(Bytes(map')) <= Cardinality(Backed')
    BY <1>6, BackedNext, BytesCounted
  <2>3. CASE row' = row
    <3>1. row <= Cardinality(Backed) /\ row \in Nat
      BY <1>6, <2>3 DEF BytesInv, RowBacked
    <3> QED
      BY <2>1, <2>3, <3>1
  <2>4. CASE row' = 0
    BY <2>1, <2>4
  <2>5. CASE row' = CachedLength(map')
    BY <1>2, <2>2, <2>5
  <2> QED
    BY <1>6, <2>3, <2>4, <2>5
<1>7. RowBacked'
  BY <1>6 DEF RowBacked
<1> QED
  BY <1>4, <1>5, <1>7 DEF BytesInv

(* A range the file or the queue holds may be merged into the index. *)
LEMMA MergeKept ==
  ASSUME BytesInv, NEW d \in CacheRange, map' = Merged(map, d),
         Backed \subseteq Backed', d.start .. d.end \subseteq Backed'
  PROVE  /\ Separated(map')
         /\ ~cleaned => Bytes(map') \subseteq Backed'
<1>1. map \subseteq CacheRange /\ Separated(map)
  BY DEF BytesInv, TypeOK
<1>2. Bytes(map') = Bytes(map) \cup (d.start .. d.end)
  BY <1>1, MergedBytes
<1>3. Separated(map')
  BY <1>1, MergedSeparated
<1> QED
  BY <1>2, <1>3 DEF BytesInv, IndexBacked

(* The bytes of a block are those of its extent. *)
LEMMA ExtentPuts ==
  ASSUME NEW o \in Offset, NEW data \in Seq(Cell), data # <<>>,
         o + Len(data) - 1 <= LastByte,
         NEW w, w.offset = o, w.data = data
  PROVE  /\ Extent(o, data) \in CacheRange
         /\ \A x \in Extent(o, data).start .. Extent(o, data).end :
              x \in Offset /\ Puts(w, x)
<1>1. Len(data) \in Nat /\ DOMAIN data = 1 .. Len(data)
  OBVIOUS
<1> QED
  BY <1>1, ExtentType, LastByteAssumption DEF Extent, RangeOf, Puts, Offset

(* Reading a whole range from the file shows that the file reaches as far. *)
LEMMA OnDiskReaches ==
  ASSUME TypeOK, NEW d \in CacheRange, OnDisk(d)
  PROVE  \A x \in d.start .. d.end : x \in Offset /\ x < Len(disk)
<1>1. /\ d.start \in Nat /\ d.end \in Nat /\ d.end <= LastByte
      /\ Length(d) = d.end - d.start + 1 /\ d.start <= d.end
  BY LastByteAssumption DEF CacheRange, Offset, Length
<1>2. disk \in Seq(Cell) /\ Len(disk) \in Nat
  BY DEF TypeOK
<1> DEFINE e == Min({Len(disk), d.start + Length(d)})
<1>3. e = IF Len(disk) <= d.start + Length(d) THEN Len(disk) ELSE d.start + Length(d)
  BY <1>1, <1>2, MinOfTwo
<1>4. e \in Int /\ e <= Len(disk)
  BY <1>1, <1>2, <1>3
<1>5. Len(SubSeq(disk, d.start + 1, e)) = Length(d)
  BY DEF OnDisk, ReadData
<1> HIDE DEF e
<1>6. Len(SubSeq(disk, d.start + 1, e)) =
        IF d.start + 1 <= e THEN e - d.start ELSE 0
  <2>1. \A i \in d.start + 1 .. e : disk[i] \in Cell
    BY <1>1, <1>2, <1>4, ElementOfSeq
  <2> QED
    BY <1>1, <1>4, <2>1, SubSeqProperties
<1>7. d.end < Len(disk)
  BY <1>1, <1>4, <1>5, <1>6
<1> QED
  BY <1>1, <1>2, <1>7, LastByteAssumption DEF Offset

(* A getData block answered from the file: what is read is in the file.    *)
LEMMA BytesAnswerFromDisk ==
  ASSUME BytesInv, TypeOK', NEW r \in Requests, NEW d \in Wanted,
         AnswerFromDisk(r, d)
  PROVE  BytesInv'
<1>1. /\ OnDisk(d)
      /\ map' = Merged(map, d)
      /\ SyncCacheInfoToDB(map')
      /\ UNCHANGED <<disk, ioQueue, cleaned, restarts>>
  BY DEF AnswerFromDisk
<1>2. d \in CacheRange
  BY RouterAssumption
<1>3. Backed' = Backed
  BY <1>1 DEF Backed
<1>4. d.start .. d.end \subseteq Backed'
  BY <1>1, <1>2, <1>3, OnDiskReaches, BackedProperties DEF BytesInv
<1>5. row' \in {row, 0, NoRow, CachedLength(map')}
  BY <1>1 DEF SyncCacheInfoToDB
<1>6. Separated(map') /\ (~cleaned => Bytes(map') \subseteq Backed')
  BY <1>1, <1>2, <1>3, <1>4, MergeKept
<1> QED
  BY <1>1, <1>3, <1>5, <1>6, BytesKept

(* The completion of a download: what the index is told is queued for the  *)
(* file in the same step.                                                  *)
LEMMA BytesDownloaded ==
  ASSUME BytesInv, TypeOK', NEW d \in Wanted, NEW data, Downloaded(d, data)
  PROVE  BytesInv'
<1>1. UNCHANGED <<disk, row, cleaned, restarts>>
  BY DEF Downloaded
<1>2. CASE data = <<>>
  <2>1. UNCHANGED <<map, ioQueue>>
    BY <1>2 DEF Downloaded
  <2>2. Backed' = Backed
    BY <1>1, <2>1 DEF Backed
  <2>3. Separated(map') /\ (~cleaned => Bytes(map') \subseteq Backed')
    BY <2>1, <2>2 DEF BytesInv, IndexBacked
  <2> QED
    BY <1>1, <2>2, <2>3, BytesKept
<1>3. CASE data # <<>>
  <2> DEFINE w == [offset |-> d.start, data |-> data,
                   waiting |-> pendingCallbacks[d], notify |-> TRUE]
             e == Extent(d.start, data)
  <2>1. map' = Merged(map, e) /\ ioQueue' = Append(ioQueue, w)
    BY <1>3 DEF Downloaded
  <2>2. /\ d \in CacheRange /\ d.start \in Offset
        /\ data \in Seq(Cell) /\ d.start + Len(data) - 1 <= LastByte
    <3>1. /\ routerQueue \in Seq(RouterBlock) /\ routerQueue # <<>>
          /\ Head(routerQueue) = DownloadedBlock(d, data)
      BY DEF Downloaded, BytesInv, TypeOK
    <3> QED
      BY <3>1, RouterAssumption, LengthType, DownloadedFits
  <2>3. w.offset = d.start /\ w.data = data
    OBVIOUS
  <2>4. ioQueue \in Seq(Write) /\ w \in Write
    <3>1. pendingCallbacks[d] \in SUBSET Requests
      BY DEF BytesInv, TypeOK
    <3> QED
      BY <1>3, <2>2, <3>1 DEF BytesInv, TypeOK, Write
  <2> HIDE DEF w, e
  <2>5. e \in CacheRange /\ \A x \in e.start .. e.end : x \in Offset /\ Puts(w, x)
    BY <1>3, <2>2, <2>3, ExtentPuts DEF e
  <2>6. \A x : QueueHolds(ioQueue, x) \/ Puts(w, x) => QueueHolds(ioQueue', x)
    BY <2>1, <2>4, QueueHoldsProperties
  <2>7. Backed \subseteq Backed'
    BY <1>1, <2>6, BackedProperties, BackedNext
  <2>8. e.start .. e.end \subseteq Backed'
    BY <2>5, <2>6, BackedNext
  <2>9. Separated(map') /\ (~cleaned => Bytes(map') \subseteq Backed')
    BY <2>1, <2>5, <2>7, <2>8, MergeKept
  <2> QED
    BY <1>1, <2>7, <2>9, BytesKept
<1> QED
  BY <1>2, <1>3

(* A task completes for the preloader: the same, in one step of its own. *)
LEMMA BytesRespond ==
  ASSUME BytesInv, TypeOK', NEW d \in CacheRange, NEW data \in Responses(d),
         Respond(d, data)
  PROVE  BytesInv'
<1> DEFINE n == IF data = <<>> THEN 0
                ELSE Count(callbackPool[d], LAMBDA who : who = "preload")
           w == [offset |-> d.start, data |-> data, waiting |-> {},
                 notify |-> FALSE]
           u == [i \in 1 .. n |-> w]
           e == Extent(d.start, data)
<1>1. /\ ioQueue' = ioQueue \o u
      /\ IF n # 0 THEN map' = Merged(map, e) ELSE map' = map
      /\ UNCHANGED <<disk, row, cleaned, restarts>>
  BY DEF Respond
<1>2. n \in Nat /\ (n # 0 => data # <<>>)
  <2>1. callbackPool[d] \in Seq({"router", "preload"})
    BY DEF BytesInv, TypeOK
  <2> QED
    BY <2>1, CountType DEF Count
<1>3. /\ d.start \in Offset /\ data \in Seq(Cell)
      /\ d.start + Len(data) - 1 <= LastByte
  <2>1. data \in Seq(Cell) /\ Len(data) <= Length(d)
    BY ResponsesType
  <2> QED
    BY <2>1, LengthType, LenProperties, LastByteAssumption DEF Offset
<1>4. w.offset = d.start /\ w.data = data /\ (n # 0 => w \in Write)
  BY <1>2, <1>3 DEF Write
<1> HIDE DEF n, w, e
<1>5. u \in Seq(Write) /\ Len(u) = n /\ \A i \in 1 .. n : u[i] = w
  BY <1>2, <1>4
<1> HIDE DEF u
<1>6. \A x : \/ QueueHolds(ioQueue, x)
             \/ n # 0 /\ Puts(w, x)
             => QueueHolds(ioQueue', x)
  <2> TAKE x
  <2>1. ioQueue \in Seq(Write)
    BY DEF BytesInv, TypeOK
  <2>2. n # 0 /\ Puts(w, x) => QueueHolds(u, x)
    <3>1. DOMAIN u = 1 .. n
      BY <1>5
    <3> QED
      BY <1>2, <1>5, <3>1 DEF QueueHolds
  <2> QED
    BY <1>1, <1>5, <2>1, <2>2, QueueHoldsProperties
<1>7. Backed \subseteq Backed'
  BY <1>1, <1>6, BackedProperties, BackedNext
<1>8. Separated(map') /\ (~cleaned => Bytes(map') \subseteq Backed')
  <2>1. CASE n = 0
    BY <1>1, <1>7, <2>1 DEF BytesInv, IndexBacked
  <2>2. CASE n # 0
    <3>1. e \in CacheRange /\ \A x \in e.start .. e.end : x \in Offset /\ Puts(w, x)
      BY <1>2, <1>3, <1>4, <2>2, ExtentPuts DEF e
    <3>2. e.start .. e.end \subseteq Backed'
      BY <1>6, <2>2, <3>1, BackedNext
    <3> QED
      BY <1>1, <1>7, <2>2, <3>1, <3>2, MergeKept
  <2> QED
    BY <2>1, <2>2
<1> QED
  BY <1>1, <1>7, <1>8, BytesKept

(* A write moves bytes from the queue to the file and shortens neither. *)
LEMMA BytesWriteData ==
  ASSUME BytesInv, TypeOK', WriteData
  PROVE  BytesInv'
<1> DEFINE w == Head(ioQueue)
<1>1. /\ ioQueue # <<>> /\ ioQueue' = Tail(ioQueue)
      /\ disk' = Written(w.offset, w.data)
      /\ UNCHANGED <<map, row, cleaned, restarts>>
  BY DEF WriteData
<1>2. ioQueue \in Seq(Write) /\ w \in Write /\ disk \in Seq(Cell)
  BY <1>1, HeadTailProperties DEF BytesInv, TypeOK
<1>3. w.offset \in Nat /\ w.data \in Seq(Cell) /\ Len(w.data) \in Nat
  BY <1>2, LastByteAssumption DEF Write, Offset
<1> HIDE DEF w
<1>4. Len(disk') \in Nat /\ Len(disk') >= Len(disk) /\ Len(disk') >= w.offset + Len(w.data)
  <2> DEFINE m == Max({Len(disk), w.offset + Len(w.data)})
             v(i) == IF i - w.offset \in DOMAIN w.data THEN w.data[i - w.offset]
                     ELSE IF i \in DOMAIN disk THEN disk[i] ELSE "hole"
  <2>1. m \in Nat /\ m >= Len(disk) /\ m >= w.offset + Len(w.data)
    <3>1. Len(disk) \in Int /\ w.offset + Len(w.data) \in Int
      BY <1>2, <1>3
    <3>2. m = IF Len(disk) >= w.offset + Len(w.data) THEN Len(disk)
              ELSE w.offset + Len(w.data)
      BY <3>1, MaxOfTwo
    <3> HIDE DEF m
    <3> QED
      BY <1>2, <1>3, <3>2
  <2>2. disk' = [i \in 1 .. m |-> v(i)]
    BY <1>1 DEF Written
  <2> HIDE DEF m, v
  <2>3. Len(disk') = m
    BY <2>1, <2>2
  <2> QED
    BY <2>1, <2>3
<1>5. \A x \in Offset : Puts(w, x) => x < w.offset + Len(w.data)
  BY <1>3, LastByteAssumption DEF Puts, Offset
<1>6. \A x : QueueHolds(ioQueue, x) => QueueHolds(ioQueue', x) \/ Puts(w, x)
  BY <1>1, <1>2, QueueHoldsProperties DEF w
<1>7. Backed \subseteq Backed'
  <2> SUFFICES ASSUME NEW x \in Backed PROVE x \in Backed'
    OBVIOUS
  <2>1. x \in Offset /\ (x < Len(disk) \/ QueueHolds(ioQueue, x))
    BY BackedProperties
  <2>2. x < Len(disk') \/ QueueHolds(ioQueue', x)
    <3>1. Len(disk) \in Nat /\ x \in Nat
      BY <1>2, <2>1 DEF Offset
    <3>2. CASE x < Len(disk)
      BY <1>4, <3>1, <3>2
    <3>3. CASE QueueHolds(ioQueue, x)
      BY <1>3, <1>4, <1>5, <1>6, <2>1, <3>1, <3>3
    <3> QED
      BY <2>1, <3>2, <3>3
  <2> QED
    BY <2>1, <2>2, BackedNext
<1>8. Separated(map') /\ (~cleaned => Bytes(map') \subseteq Backed')
  BY <1>1, <1>7 DEF BytesInv, IndexBacked
<1> QED
  BY <1>1, <1>7, <1>8, BytesKept

(* The steps that touch neither the bytes nor the claims, except that the  *)
(* row may be told the index's size or begin anew.                         *)
LEMMA BytesUntouched ==
  ASSUME BytesInv, TypeOK', UNCHANGED <<map, disk, ioQueue, cleaned, restarts>>,
         row' \in {row, 0, NoRow, CachedLength(map)}
  PROVE  BytesInv'
<1>1. Backed' = Backed
  BY DEF Backed
<1>2. Separated(map') /\ (~cleaned => Bytes(map') \subseteq Backed')
  BY <1>1 DEF BytesInv, IndexBacked
<1> QED
  BY <1>1, <1>2, BytesKept

(* After the cleaner nothing is claimed, and a restart empties the index.  *)
LEMMA BytesForgotten ==
  ASSUME BytesInv, TypeOK', CleanSong \/ Restart
  PROVE  BytesInv'
<1>1. CASE CleanSong
  <2>1. cleaned' /\ row' = NoRow /\ map' = map
    BY <1>1 DEF CleanSong
  <2> QED
    BY <2>1 DEF BytesInv, IndexBacked, RowBacked, Separated
<1>2. CASE Restart
  <2>1. map' = {} /\ restarts' = restarts + 1 /\ row' \in {row, 0}
    BY <1>2 DEF Restart
  <2>2. restarts \in Nat
    BY DEF BytesInv, TypeOK
  <2>3. restarts' # 0
    BY <2>1, <2>2
  <2>4. Bytes(map') = {} /\ Separated(map')
    BY <2>1 DEF Bytes, Separated
  <2>5. row' \in Nat \cup {NoRow}
    BY <2>1 DEF BytesInv
  <2> QED
    BY <2>3, <2>4, <2>5 DEF BytesInv, IndexBacked, RowBacked
<1> QED
  BY <1>1, <1>2

(* Every step keeps the claims within what is there. *)
LEMMA BytesStep == BytesInv /\ [Next]_vars => BytesInv'
<1> SUFFICES ASSUME BytesInv, [Next]_vars PROVE BytesInv'
  OBVIOUS
<1>1. TypeOK'
  BY TypeStep DEF BytesInv
<1> DEFINE Same == /\ UNCHANGED <<map, disk, ioQueue, cleaned, restarts>>
                   /\ row' \in {row, 0, NoRow, CachedLength(map)}
<1>2. CASE RunRouter
  <2>1. ASSUME NEW r \in Requests, NEW d \in Wanted,
               \/ AnswerFromMemory(r, d)
               \/ JoinPending(r, d)
               \/ RetryLater(r, d)
               \/ StartDownload(r, d)
        PROVE  Same
    BY <2>1 DEF AnswerFromMemory, JoinPending, RetryLater, StartDownload
  <2>2. Flushed => Same
    BY DEF Flushed, SyncCacheInfoToDB
  <2> HIDE DEF Same
  <2>3. Same => BytesInv'
    BY <1>1, BytesUntouched DEF Same
  <2> QED
    BY <1>1, <1>2, <2>1, <2>2, <2>3, BytesAnswerFromDisk, BytesDownloaded
       DEF RunRouter
<1>3. ASSUME NEW r \in Requests, \/ \E d \in Wanted : GetData(r, d)
                                 \/ Retry(r)
      PROVE  Same
  BY <1>3 DEF GetData, Retry
<1>4. ASSUME NEW i \in {1, 2}, RunPreload(i) PROVE Same
  BY <1>4 DEF RunPreload
<1>5. ASSUME NEW o \in Offset, Evict(o) PROVE Same
  BY <1>5 DEF Evict
<1>6. Download \/ PlaySong \/ (\E r \in Requests : CallCompletion(r)) => Same
  BY DEF Download, PlaySong, CallCompletion
<1>7. UNCHANGED vars => Same
  BY DEF vars
<1> HIDE DEF Same
<1>8. Same => BytesInv'
  BY <1>1, BytesUntouched DEF Same
<1> QED
  BY <1>1, <1>2, <1>3, <1>4, <1>5, <1>6, <1>7, <1>8, BytesRespond,
     BytesWriteData, BytesForgotten DEF Next

(* The induction both theorems below rest on. *)
LEMMA BytesInvariance == Spec => []BytesInv
<1>1. Init => BytesInv
  <2> SUFFICES ASSUME Init PROVE BytesInv
    OBVIOUS
  <2>1. map = {} /\ row = 0
    BY DEF Init
  <2>2. Bytes(map) = {} /\ Separated(map)
    BY <2>1 DEF Bytes, Separated
  <2>3. Cardinality(Backed) \in Nat
    BY BackedProperties, BytesCounted
  <2> QED
    BY <2>1, <2>2, <2>3, TypeInit DEF BytesInv, IndexBacked, RowBacked
<1> QED
  BY <1>1, BytesStep, PTL DEF Spec

(* Every byte the index calls cached is in the file or queued for it, from *)
(* whichever queue it came, until the cleaner removes the file.            *)
THEOREM IndexIsBacked == Spec => []IndexBacked
BY BytesInvariance, PTL DEF BytesInv

(* The ranges the router has told the index stay apart, in whatever order  *)
(* answers, writes and the cleaner come: the premise under which the       *)
(* answers of the index are exact and cachedTotalLength counts once.       *)
THEOREM RouterRangesStaySeparated == Spec => []Separated(map)
BY BytesInvariance, PTL DEF BytesInv

(* The size the database is told is never more than the bytes the file     *)
(* holds or is about to: no byte is counted twice, and none that was never *)
(* written, until the cleaner runs or the app is killed.                   *)
THEOREM RowIsBacked == Spec => []RowBacked
BY BytesInvariance, PTL DEF BytesInv

----------------------------------------------------------------------------
(* The bytes of the song in the file.  When the server sends no status     *)
(* page, whatever is on its way to the file is the song's.                 *)
SongBlock == {b \in RouterBlock : b.type = "downloaded" => b.data \in Seq({"song"})}
SongWrite == {w \in Write : w.data \in Seq({"song"})}

SongInv ==
  /\ TypeOK
  /\ routerQueue \in Seq(SongBlock)
  /\ ioQueue \in Seq(SongWrite)

(* The server sends the song or nothing. *)
LEMMA ResponsesAreSong ==
  ASSUME StatusBody = FALSE, NEW d \in CacheRange, NEW data \in Responses(d)
  PROVE  data \in Seq({"song"})
<1>1. data \in Seq(Cell)
  BY ResponsesType
<1>2. data = SongPart(d) \/ data = <<>>
  BY DEF Responses
<1>3. ASSUME NEW i \in DOMAIN data PROVE data[i] = "song"
  <2> DEFINE n == Min({Length(d), FileLength - d.start})
  <2>1. SongPart(d) = [j \in 1 .. n |-> "song"]
    BY DEF SongPart
  <2> HIDE DEF n
  <2>2. data # <<>>
    BY <1>3
  <2> QED
    BY <1>2, <1>3, <2>1, <2>2, Zenon
<1>4. Len(data) \in Nat /\ DOMAIN data = 1 .. Len(data) /\ data = [i \in DOMAIN data |-> data[i]]
  BY <1>1
<1>5. data = [i \in 1 .. Len(data) |-> "song"]
  BY <1>3, <1>4
<1> QED
  BY <1>4, <1>5

(* The blocks that carry no data. *)
LEMMA SongBlocks ==
  /\ \A r \in Requests : GetBlock(r) \in SongBlock
  /\ FlushedBlock \in SongBlock
  /\ \A d \in CacheRange : \A data \in Seq({"song"}) :
       DownloadedBlock(d, data) \in RouterBlock => DownloadedBlock(d, data) \in SongBlock
BY BlockTypes DEF SongBlock, GetBlock, FlushedBlock, DownloadedBlock

(* The data of a finished download moves from one queue to the other. *)
LEMMA SongDownloaded ==
  ASSUME SongInv, TypeOK', NEW d \in Wanted, NEW data, Downloaded(d, data)
  PROVE  SongInv'
<1> DEFINE w == [offset |-> d.start, data |-> data,
                 waiting |-> pendingCallbacks[d], notify |-> TRUE]
<1>1. /\ routerQueue # <<>> /\ Head(routerQueue) = DownloadedBlock(d, data)
      /\ routerQueue' = Tail(routerQueue)
      /\ ioQueue' = IF data # <<>> THEN Append(ioQueue, w) ELSE ioQueue
  BY DEF Downloaded
<1>2. routerQueue \in Seq(SongBlock) /\ ioQueue \in Seq(SongWrite)
  BY DEF SongInv
<1>3. Head(routerQueue) \in SongBlock /\ routerQueue' \in Seq(SongBlock)
  BY <1>1, <1>2, HeadTailProperties
<1>4. data \in Seq({"song"})
  BY <1>1, <1>3 DEF SongBlock, DownloadedBlock
<1>5. data # <<>> => w \in SongWrite
  <2> SUFFICES ASSUME data # <<>> PROVE w \in SongWrite
    OBVIOUS
  <2>1. /\ d \in CacheRange /\ d.start \in Offset
        /\ data \in Seq(Cell) /\ d.start + Len(data) - 1 <= LastByte
    <3>1. routerQueue \in Seq(RouterBlock)
      BY DEF SongInv, TypeOK
    <3> QED
      BY <1>1, <3>1, RouterAssumption, LengthType, DownloadedFits
  <2>2. pendingCallbacks[d] \in SUBSET Requests
    BY DEF SongInv, TypeOK
  <2> QED
    BY <1>4, <2>1, <2>2 DEF SongWrite, Write
<1> HIDE DEF w
<1>6. ioQueue' \in Seq(SongWrite)
  BY <1>1, <1>2, <1>5
<1> QED
  BY <1>3, <1>6 DEF SongInv

(* What the server sent goes to both queues. *)
LEMMA SongRespond ==
  ASSUME StatusBody = FALSE, SongInv, TypeOK', NEW d \in CacheRange,
         NEW data \in Responses(d), Respond(d, data)
  PROVE  SongInv'
<1> DEFINE Calls(who) == Count(callbackPool[d], LAMBDA c : c = who)
           m == Calls("router")
           n == IF data = <<>> THEN 0 ELSE Calls("preload")
           b == DownloadedBlock(d, data)
           w == [offset |-> d.start, data |-> data, waiting |-> {},
                 notify |-> FALSE]
           t == [i \in 1 .. m |-> b]
           u == [i \in 1 .. n |-> w]
<1>1. routerQueue' = routerQueue \o t /\ ioQueue' = ioQueue \o u
  BY DEF Respond
<1>2. m \in Nat /\ n \in Nat /\ (n # 0 => data # <<>>)
  <2>1. callbackPool[d] \in Seq({"router", "preload"})
    BY DEF SongInv, TypeOK
  <2> QED
    BY <2>1, CountType DEF Count
<1>3. data \in Seq({"song"}) /\ data \in Seq(Cell) /\ Len(data) <= Length(d)
  BY ResponsesAreSong, ResponsesType
<1>4. d.start \in Offset /\ d.start + Len(data) - 1 <= LastByte
  BY <1>3, LengthType, LenProperties, LastByteAssumption DEF Offset
<1>5. b \in SongBlock
  BY <1>3, BlockTypes, SongBlocks
<1>6. n # 0 => w \in SongWrite
  BY <1>2, <1>3, <1>4 DEF SongWrite, Write
<1> HIDE DEF m, n, b, w
<1>7. t \in Seq(SongBlock) /\ u \in Seq(SongWrite)
  BY <1>2, <1>5, <1>6
<1> HIDE DEF t, u
<1>8. routerQueue' \in Seq(SongBlock) /\ ioQueue' \in Seq(SongWrite)
  BY <1>1, <1>7, ConcatProperties DEF SongInv
<1> QED
  BY <1>8 DEF SongInv

(* The steps that submit or end a block without data. *)
LEMMA SongQuiet ==
  ASSUME SongInv, TypeOK',
         ioQueue' \in Seq(SongWrite), routerQueue' \in Seq(SongBlock)
  PROVE  SongInv'
BY DEF SongInv

(* Every step keeps the queues to the song. *)
LEMMA SongStep ==
  ASSUME StatusBody = FALSE, SongInv, [Next]_vars
  PROVE  SongInv'
<1> DEFINE Quiet == ioQueue' \in Seq(SongWrite) /\ routerQueue' \in Seq(SongBlock)
<1>1. TypeOK'
  BY TypeStep DEF SongInv
<1>2. routerQueue \in Seq(SongBlock) /\ ioQueue \in Seq(SongWrite)
  BY DEF SongInv
<1>3. routerQueue # <<>> => Tail(routerQueue) \in Seq(SongBlock)
  BY <1>2, HeadTailProperties
<1>4. \A r \in Requests : Append(routerQueue, GetBlock(r)) \in Seq(SongBlock)
  BY <1>2, SongBlocks
<1>5. ASSUME NEW r \in Requests, NEW d \in Wanted,
             \/ AnswerFromMemory(r, d)
             \/ AnswerFromDisk(r, d)
             \/ JoinPending(r, d)
             \/ RetryLater(r, d)
             \/ StartDownload(r, d)
      PROVE  Quiet
  BY <1>2, <1>3, <1>5
     DEF AnswerFromMemory, AnswerFromDisk, JoinPending, RetryLater,
         StartDownload, Getting
<1>6. Flushed => Quiet
  BY <1>2, <1>3 DEF Flushed
<1>7. ASSUME NEW r \in Requests, \/ \E d \in Wanted : GetData(r, d)
                                 \/ Retry(r)
      PROVE  Quiet
  BY <1>2, <1>4, <1>7 DEF GetData, Retry
<1>8. ASSUME NEW i \in {1, 2}, RunPreload(i) PROVE Quiet
  BY <1>2, <1>8 DEF RunPreload
<1>9. ASSUME NEW o \in Offset, Evict(o) PROVE Quiet
  BY <1>2, <1>9 DEF Evict
<1>10. \/ Download \/ CleanSong \/ PlaySong \/ UNCHANGED vars
       \/ \E r \in Requests : CallCompletion(r)
       => Quiet
  BY <1>2 DEF Download, CleanSong, PlaySong, CallCompletion, vars
<1>11. WriteData => Quiet
  <2> SUFFICES ASSUME WriteData PROVE Quiet
    OBVIOUS
  <2>1. ioQueue' \in Seq(SongWrite)
    BY <1>2, HeadTailProperties DEF WriteData
  <2>2. routerQueue' = routerQueue \/ routerQueue' = Append(routerQueue, FlushedBlock)
    BY DEF WriteData
  <2>3. FlushedBlock \in SongBlock
    BY SongBlocks
  <2>4. routerQueue' \in Seq(SongBlock)
    BY <1>2, <2>2, <2>3, AppendProperties
  <2> QED
    BY <2>1, <2>4
<1>12. Restart => Quiet
  BY DEF Restart
<1> HIDE DEF Quiet
<1>13. Quiet => SongInv'
  BY <1>1, SongQuiet DEF Quiet
<1> QED
  BY <1>1, <1>5, <1>6, <1>7, <1>8, <1>9, <1>10, <1>11, <1>12, <1>13,
     SongDownloaded, SongRespond DEF Next, RunRouter

(* A write leaves a byte of the song alone, or puts the same in its place. *)
LEMMA SongWritten ==
  ASSUME disk \in Seq(Cell), NEW o \in Nat, NEW data \in Seq({"song"}),
         NEW i \in DOMAIN disk, disk[i] = "song"
  PROVE  i \in DOMAIN Written(o, data) /\ Written(o, data)[i] = "song"
<1> DEFINE m == Max({Len(disk), o + Len(data)})
<1>1. Len(disk) \in Nat /\ Len(data) \in Nat /\ i \in 1 .. Len(disk)
  OBVIOUS
<1>2. i \in 1 .. m
  <2>1. m = IF Len(disk) >= o + Len(data) THEN Len(disk) ELSE o + Len(data)
    BY <1>1, MaxOfTwo
  <2> HIDE DEF m
  <2> QED
    BY <1>1, <2>1
<1>3. Written(o, data) =
        [j \in 1 .. m |-> IF j - o \in DOMAIN data THEN data[j - o]
                          ELSE IF j \in DOMAIN disk THEN disk[j] ELSE "hole"]
  BY DEF Written
<1>4. \A j \in DOMAIN data : data[j] = "song"
  OBVIOUS
<1> HIDE DEF m
<1> QED
  BY <1>2, <1>3, <1>4

(* No step but the cleaner's damages a byte of the song. *)
LEMMA SongBytesKept ==
  ASSUME SongInv, [Next]_vars, cleaned' = cleaned \/ restarts' # restarts,
         NEW i \in DOMAIN disk, disk[i] = "song"
  PROVE  i \in DOMAIN disk' /\ disk'[i] = "song"
<1> DEFINE Same == disk' = disk
<1>1. CASE WriteData
  <2> DEFINE w == Head(ioQueue)
  <2>1. ioQueue # <<>> /\ disk' = Written(w.offset, w.data)
    BY <1>1 DEF WriteData
  <2>2. w \in SongWrite
    BY <2>1, HeadTailProperties DEF SongInv
  <2> HIDE DEF w
  <2>3. w.offset \in Nat /\ w.data \in Seq({"song"}) /\ disk \in Seq(Cell)
    BY <2>2, LastByteAssumption DEF SongWrite, Write, Offset, SongInv, TypeOK
  <2> QED
    BY <2>1, <2>3, SongWritten
<1>2. RunRouter => Same
  BY DEF RunRouter, AnswerFromMemory, AnswerFromDisk, JoinPending, RetryLater,
         StartDownload, Downloaded, Flushed
<1>3. ASSUME NEW r \in Requests, \/ \E d \in Wanted : GetData(r, d)
                                 \/ Retry(r)
      PROVE  Same
  BY <1>3 DEF GetData, Retry
<1>4. ASSUME NEW j \in {1, 2}, RunPreload(j) PROVE Same
  BY <1>4 DEF RunPreload
<1>5. ASSUME NEW d \in CacheRange, NEW data \in Responses(d), Respond(d, data)
      PROVE  Same
  BY <1>5 DEF Respond
<1>6. ASSUME NEW o \in Offset, Evict(o) PROVE Same
  BY <1>6 DEF Evict
<1>7. \/ Download \/ PlaySong \/ Restart \/ UNCHANGED vars
      \/ \E r \in Requests : CallCompletion(r)
      => Same
  BY DEF Download, PlaySong, Restart, CallCompletion, vars
<1>8. ~CleanSong
  <2>1. CleanSong => ~cleaned /\ cleaned' /\ restarts' = restarts
    BY DEF CleanSong
  <2> QED
    BY <2>1
<1> HIDE DEF Same
<1>9. Same \/ WriteData
  BY <1>2, <1>3, <1>4, <1>5, <1>6, <1>7, <1>8 DEF Next
<1> QED
  BY <1>1, <1>9 DEF Same

(* When the server sends no status page for data, a byte of the song stays *)
(* in the file until the cleaner takes it, however the writes of router    *)
(* and preloader overlap and whatever is killed in between.                *)
THEOREM SongBytesStayThere ==
  ASSUME StatusBody = FALSE
  PROVE  Spec => SongBytesStay
<1>1. Init => SongInv
  <2> SUFFICES ASSUME Init PROVE SongInv
    OBVIOUS
  <2>1. routerQueue = <<>> /\ ioQueue = <<>>
    BY DEF Init
  <2> QED
    BY <2>1, TypeInit DEF SongInv
<1>2. SongInv /\ [Next]_vars => SongInv'
  BY SongStep
<1>3. SongInv /\ [Next]_vars =>
        [cleaned' = cleaned \/ restarts' # restarts =>
           \A i \in DOMAIN disk :
             disk[i] = "song" => i \in DOMAIN disk' /\ disk'[i] = "song"]_vars
  BY SongBytesKept
<1> QED
  BY <1>1, <1>2, <1>3, PTL DEF Spec, SongBytesStay
----------------------------------------------------------------------------
(* What is served.  ServedIsSong does not hold: a write beyond the end of  *)
(* the file leaves a hole, which a later read takes for data.  The hole is *)
(* the only way: while the file has none, and no status page is sent, all  *)
(* that is in the caches or has been served is the song.                   *)
NoHole == \A i \in DOMAIN disk : disk[i] # "hole"

ServedInv ==
  /\ SongInv
  /\ disk \in Seq({"song", "hole"})
  /\ memory \in [Offset -> Seq({"song"})]
  /\ mainQueue \in [Requests -> Seq(Seq({"song"}))]
  /\ replies \in [Requests -> Seq(Seq({"song"}))]

(* Bytes of the song are dispatched, where nothing else was. *)
LEMMA ServedDispatch ==
  ASSUME mainQueue \in [Requests -> Seq(Seq({"song"}))],
         NEW waiting, NEW data \in Seq({"song"}), Dispatch(waiting, data)
  PROVE  mainQueue' \in [Requests -> Seq(Seq({"song"}))]
BY DEF Dispatch

(* A file without a hole is read as the song. *)
LEMMA ReadIsSong ==
  ASSUME disk \in Seq({"song", "hole"}), NoHole, NEW o \in Offset, NEW n \in Nat
  PROVE  ReadData(o, n) \in Seq({"song"})
<1> DEFINE e == Min({Len(disk), o + n})
<1>1. e \in Int /\ e <= Len(disk)
  BY MinOfTwo DEF Offset
<1>2. \A i \in DOMAIN disk : disk[i] \in {"song"}
  BY ElementOfSeq DEF NoHole
<1>3. disk \in Seq({"song"})
  <2>1. Len(disk) \in Nat /\ DOMAIN disk = 1 .. Len(disk) /\ disk = [i \in DOMAIN disk |-> disk[i]]
    OBVIOUS
  <2>2. disk = [i \in 1 .. Len(disk) |-> disk[i]]
    BY <2>1
  <2> QED
    BY <1>2, <2>1, <2>2
<1> HIDE DEF e
<1>4. \A i \in o + 1 .. e : disk[i] \in {"song"}
  BY <1>1, <1>2 DEF Offset
<1>5. SubSeq(disk, o + 1, e) \in Seq({"song"})
  BY <1>1, <1>3, <1>4, SubSeqProperties DEF Offset
<1> QED
  BY <1>5 DEF ReadData, e

(* A write of the song leaves nothing in the file but the song and holes. *)
LEMMA WrittenSongOrHole ==
  ASSUME disk \in Seq({"song", "hole"}), NEW o \in Nat, NEW data \in Seq({"song"})
  PROVE  Written(o, data) \in Seq({"song", "hole"})
<1> DEFINE n == Max({Len(disk), o + Len(data)})
           e(i) == IF i - o \in DOMAIN data THEN data[i - o]
                   ELSE IF i \in DOMAIN disk THEN disk[i] ELSE "hole"
<1>1. n \in Nat
  BY MaxOfTwo
<1>2. \A i \in 1 .. n : e(i) \in {"song", "hole"}
  <2>1. \A i \in DOMAIN data : data[i] = "song"
    OBVIOUS
  <2>2. \A i \in DOMAIN disk : disk[i] \in {"song", "hole"}
    OBVIOUS
  <2> HIDE DEF n
  <2> QED
    BY <2>1, <2>2
<1>3. Written(o, data) = [i \in 1 .. n |-> e(i)]
  BY DEF Written
<1> HIDE DEF n, e
<1> QED
  BY <1>1, <1>2, <1>3

(* A request is answered from a cache that holds nothing but the song. *)
LEMMA ServedAnswers ==
  ASSUME ServedInv, NoHole, NEW r \in Requests, NEW d \in Wanted,
         AnswerFromMemory(r, d) \/ AnswerFromDisk(r, d)
  PROVE  /\ memory' \in [Offset -> Seq({"song"})]
         /\ mainQueue' \in [Requests -> Seq(Seq({"song"}))]
         /\ disk' = disk
<1>1. d \in CacheRange /\ d.start \in Offset /\ Length(d) \in Nat
  BY RouterAssumption, LengthType
<1>2. CASE AnswerFromMemory(r, d)
  <2>1. memory[d.start] \in Seq({"song"})
    BY <1>1 DEF ServedInv
  <2>2. Dispatch({r}, memory[d.start]) /\ memory' = memory /\ disk' = disk
    BY <1>2 DEF AnswerFromMemory
  <2> QED
    BY <2>1, <2>2, ServedDispatch DEF ServedInv
<1>3. CASE AnswerFromDisk(r, d)
  <2> DEFINE data == ReadData(d.start, Length(d))
  <2>1. data \in Seq({"song"})
    BY <1>1, ReadIsSong DEF ServedInv
  <2>2. /\ memory' = [memory EXCEPT ![d.start] = data]
        /\ Dispatch({r}, data) /\ disk' = disk
    BY <1>3 DEF AnswerFromDisk
  <2> HIDE DEF data
  <2> QED
    BY <2>1, <2>2, ServedDispatch DEF ServedInv
<1> QED
  BY <1>2, <1>3

(* A finished download brings the song to the memory cache, or an error to *)
(* those who wait.                                                         *)
LEMMA ServedDownloaded ==
  ASSUME ServedInv, NEW d \in Wanted, NEW data, Downloaded(d, data)
  PROVE  /\ memory' \in [Offset -> Seq({"song"})]
         /\ mainQueue' \in [Requests -> Seq(Seq({"song"}))]
         /\ disk' = disk
<1>1. Head(routerQueue) \in SongBlock
  BY HeadTailProperties DEF Downloaded, ServedInv, SongInv
<1>2. data \in Seq({"song"})
  BY <1>1 DEF Downloaded, SongBlock, DownloadedBlock
<1>3. \/ memory' = [memory EXCEPT ![d.start] = data] /\ mainQueue' = mainQueue
      \/ memory' = memory /\ Dispatch(pendingCallbacks[d], <<>>)
  BY DEF Downloaded
<1>4. disk' = disk
  BY DEF Downloaded
<1>5. <<>> \in Seq({"song"})
  OBVIOUS
<1> QED
  BY <1>2, <1>3, <1>4, <1>5, ServedDispatch DEF ServedInv

(* A write calls those who wait with what it wrote. *)
LEMMA ServedWriteData ==
  ASSUME ServedInv, WriteData
  PROVE  /\ memory' \in [Offset -> Seq({"song"})]
         /\ mainQueue' \in [Requests -> Seq(Seq({"song"}))]
         /\ disk' \in Seq({"song", "hole"})
<1> DEFINE w == Head(ioQueue)
<1>1. w \in SongWrite
  BY HeadTailProperties DEF WriteData, ServedInv, SongInv
<1>2. disk' = Written(w.offset, w.data) /\ Dispatch(w.waiting, w.data) /\ memory' = memory
  BY DEF WriteData
<1> HIDE DEF w
<1>3. w.offset \in Nat /\ w.data \in Seq({"song"})
  BY <1>1, LastByteAssumption DEF SongWrite, Write, Offset
<1> QED
  BY <1>2, <1>3, ServedDispatch, WrittenSongOrHole DEF ServedInv

(* Every other step leaves memory cache, file and results, or empties them. *)
LEMMA ServedStep ==
  ASSUME StatusBody = FALSE, NoHole, ServedInv, [Next]_vars
  PROVE  ServedInv'
<1> DEFINE Song == /\ memory' \in [Offset -> Seq({"song"})]
                   /\ mainQueue' \in [Requests -> Seq(Seq({"song"}))]
                   /\ replies' \in [Requests -> Seq(Seq({"song"}))]
                   /\ disk' \in Seq({"song", "hole"})
           Same == UNCHANGED <<memory, mainQueue, replies, disk>>
<1>1. /\ memory \in [Offset -> Seq({"song"})]
      /\ mainQueue \in [Requests -> Seq(Seq({"song"}))]
      /\ replies \in [Requests -> Seq(Seq({"song"}))]
      /\ disk \in Seq({"song", "hole"})
  BY DEF ServedInv
<1>2. Same => Song
  BY <1>1
<1>3. ASSUME NEW r \in Requests, NEW d \in Wanted,
             AnswerFromMemory(r, d) \/ AnswerFromDisk(r, d)
      PROVE  Song
  BY <1>1, <1>3, ServedAnswers DEF AnswerFromMemory, AnswerFromDisk
<1>4. ASSUME NEW r \in Requests, NEW d \in Wanted,
             JoinPending(r, d) \/ RetryLater(r, d) \/ StartDownload(r, d) \/ GetData(r, d)
      PROVE  Same
  BY <1>4 DEF JoinPending, RetryLater, StartDownload, GetData
<1>5. ASSUME NEW d \in Wanted, NEW data, Downloaded(d, data) PROVE Song
  BY <1>1, <1>5, ServedDownloaded DEF Downloaded
<1>6. ASSUME NEW d \in CacheRange, NEW data \in Responses(d), Respond(d, data)
      PROVE  Song
  <2>1. data \in Seq({"song"})
    BY ResponsesAreSong
  <2>2. /\ memory' = memory \/ memory' = [memory EXCEPT ![d.start] = data]
        /\ UNCHANGED <<mainQueue, replies, disk>>
    BY <1>6 DEF Respond
  <2> QED
    BY <1>1, <2>1, <2>2
<1>7. ASSUME NEW o \in Offset, Evict(o) PROVE Song
  <2>1. memory' = [memory EXCEPT ![o] = <<>>] /\ UNCHANGED <<mainQueue, replies, disk>>
    BY <1>7 DEF Evict
  <2> QED
    BY <1>1, <2>1
<1>8. WriteData => Song
  BY <1>1, ServedWriteData DEF WriteData
<1>9. CleanSong => Song
  BY <1>1 DEF CleanSong
<1>10. Restart => Song
  BY <1>1 DEF Restart
<1>11. ASSUME NEW r \in Requests, Retry(r) PROVE Same
  BY <1>11 DEF Retry
<1>12. ASSUME NEW i \in {1, 2}, RunPreload(i) PROVE Same
  BY <1>12 DEF RunPreload
<1>13. Flushed \/ Download \/ PlaySong \/ UNCHANGED vars => Same
  BY DEF Flushed, Download, PlaySong, vars
<1>14. ASSUME NEW r \in Requests, CallCompletion(r) PROVE Song
  <2>1. /\ mainQueue[r] \in Seq(Seq({"song"})) /\ mainQueue[r] # <<>>
        /\ replies[r] \in Seq(Seq({"song"}))
    BY <1>1, <1>14 DEF CallCompletion
  <2>2. /\ Tail(mainQueue[r]) \in Seq(Seq({"song"}))
        /\ Append(replies[r], Head(mainQueue[r])) \in Seq(Seq({"song"}))
    BY <2>1, HeadTailProperties
  <2> QED
    BY <1>1, <1>14, <2>2 DEF CallCompletion
<1>15. SongInv'
  BY SongStep DEF ServedInv
<1> HIDE DEF Same, Song
<1>16. Song
  BY <1>2, <1>3, <1>4, <1>5, <1>6, <1>7, <1>8, <1>9, <1>10, <1>11, <1>12, <1>13,
     <1>14 DEF Next, RunRouter
<1> QED
  BY <1>15, <1>16 DEF Song, ServedInv

(* As long as the file has no hole and no status page is sent for data,    *)
(* every byte a completion is called with is the song's at that offset,    *)
(* whatever is evicted, cleaned, killed, or preloaded at the same time.    *)
THEOREM OnlyHolesSpoil ==
  ASSUME StatusBody = FALSE
  PROVE  Spec /\ []NoHole => []ServedIsSong
<1>1. Init => ServedInv
  <2> SUFFICES ASSUME Init PROVE ServedInv
    OBVIOUS
  <2>1. routerQueue = <<>> /\ ioQueue = <<>> /\ disk = <<>>
    BY DEF Init
  <2>2. /\ memory = [o \in Offset |-> <<>>]
        /\ mainQueue = [r \in Requests |-> <<>>] /\ replies = [r \in Requests |-> <<>>]
    BY DEF Init
  <2> QED
    BY <2>1, <2>2, TypeInit DEF ServedInv, SongInv
<1>2. NoHole /\ ServedInv /\ [Next]_vars => ServedInv'
  BY ServedStep
<1>3. ServedInv => ServedIsSong
  <2> SUFFICES ASSUME ServedInv, NEW r \in Requests, NEW n \in DOMAIN replies[r],
                      NEW i \in DOMAIN replies[r][n]
               PROVE  replies[r][n][i] = "song"
    BY DEF ServedIsSong
  <2>1. replies[r] \in Seq(Seq({"song"}))
    BY DEF ServedInv
  <2>2. replies[r][n] \in Seq({"song"})
    BY <2>1
  <2> QED
    BY <2>2
<1> QED
  BY <1>1, <1>2, <1>3, PTL DEF Spec
----------------------------------------------------------------------------
(* The hand-overs: a completion is kept in one place at a time until it is *)
(* called, and a range somebody waits for has one download.  Both are      *)
(* counts over the queues, so they begin with how a count changes when a   *)
(* block is submitted or run.                                              *)

(* How many members of the sequence q lie in the set S. *)
CountIn(q, S) == Cardinality({i \in DOMAIN q : q[i] \in S})

(* A count is a natural number. *)
LEMMA CountInType ==
  ASSUME NEW T, NEW q \in Seq(T), NEW S
  PROVE  CountIn(q, S) \in Nat
<1> DEFINE I == {i \in DOMAIN q : q[i] \in S}
<1>1. I \subseteq DOMAIN q /\ CountIn(q, S) = Cardinality(I)
  BY DEF CountIn
<1> HIDE DEF I
<1> QED
  BY <1>1, CountType

(* Nothing is counted where nothing is found, and what is counted is found. *)
LEMMA CountInZero ==
  ASSUME NEW T, NEW q \in Seq(T), NEW S
  PROVE  CountIn(q, S) = 0 <=> \A i \in 1 .. Len(q) : q[i] \notin S
<1> DEFINE I == {i \in DOMAIN q : q[i] \in S}
<1>1. I \subseteq DOMAIN q /\ CountIn(q, S) = Cardinality(I)
  BY DEF CountIn
<1>2. I = {} <=> \A i \in 1 .. Len(q) : q[i] \notin S
  BY LenProperties
<1> HIDE DEF I
<1>3. Cardinality(I) = 0 <=> I = {}
  BY <1>1, CountType, FS_EmptySet
<1> QED
  BY <1>1, <1>2, <1>3

(* An empty queue holds nothing. *)
LEMMA CountInEmpty == \A S : CountIn(<<>>, S) = 0
<1>1. \A S : {i \in DOMAIN <<>> : <<>>[i] \in S} = {}
  OBVIOUS
<1> QED
  BY <1>1, FS_EmptySet DEF CountIn

(* A member appended counts for itself. *)
LEMMA CountInAppend ==
  ASSUME NEW T, NEW q \in Seq(T), NEW e \in T, NEW S
  PROVE  CountIn(Append(q, e), S) = CountIn(q, S) + (IF e \in S THEN 1 ELSE 0)
<1> DEFINE p == Append(q, e)
           n == Len(q) + 1
           I == {i \in DOMAIN q : q[i] \in S}
           J == {i \in DOMAIN p : p[i] \in S}
<1>1. /\ DOMAIN q = 1 .. Len(q) /\ Len(q) \in Nat
      /\ DOMAIN p = 1 .. Len(q) + 1
      /\ \A i \in 1 .. Len(q) : p[i] = q[i]
      /\ p[Len(q) + 1] = e
  BY LenProperties, AppendProperties
<1>2. J = (IF e \in S THEN I \cup {n} ELSE I) /\ n \notin I
  BY <1>1
<1>3. I \subseteq DOMAIN q /\ CountIn(q, S) = Cardinality(I) /\ CountIn(p, S) = Cardinality(J)
  BY DEF CountIn
<1> HIDE DEF I, J, n
<1>4. IsFiniteSet(I) /\ Cardinality(I) \in Nat
  BY <1>3, CountType
<1>5. Cardinality(I \cup {n}) = Cardinality(I) + 1
  BY <1>2, <1>4, FS_AddElement
<1> QED
  BY <1>2, <1>3, <1>4, <1>5

(* The head of a sequence counts for itself, and the tail for the rest. *)
LEMMA CountInTail ==
  ASSUME NEW T, NEW q \in Seq(T), q # <<>>, NEW S
  PROVE  CountIn(q, S) = CountIn(Tail(q), S) + (IF Head(q) \in S THEN 1 ELSE 0)
<1> DEFINE p == Tail(q)
           I == {i \in DOMAIN p : p[i] \in S}
           J == {i \in DOMAIN q : q[i] \in S}
           K == {i \in 2 .. Len(q) : q[i] \in S}
           f == [i \in I |-> i + 1]
<1>1. /\ DOMAIN q = 1 .. Len(q) /\ Len(q) \in Nat \ {0}
      /\ DOMAIN p = 1 .. Len(q) - 1
      /\ \A i \in 1 .. Len(q) - 1 : p[i] = q[i + 1]
      /\ Head(q) = q[1]
      /\ p \in Seq(T)
  BY LenProperties, HeadTailProperties, EmptySeq
<1>2. f \in Bijection(I, K)
  <2>1. \A i \in I : i + 1 \in K
    BY <1>1
  <2>2. \A k \in K : k - 1 \in I /\ f[k - 1] = k
    BY <1>1
  <2>3. f \in [I -> K]
    BY <2>1
  <2>4. \A a, b \in I : f[a] = f[b] => a = b
    BY <1>1
  <2>5. f \in Injection(I, K)
    BY <2>3, <2>4 DEF Injection, IsInjective
  <2>6. f \in Surjection(I, K)
    BY <2>2, <2>3 DEF Surjection
  <2> QED
    BY <2>5, <2>6 DEF Bijection
<1>3. J = (IF Head(q) \in S THEN K \cup {1} ELSE K) /\ 1 \notin K
  BY <1>1
<1>4. I \subseteq DOMAIN p /\ CountIn(p, S) = Cardinality(I) /\ CountIn(q, S) = Cardinality(J)
  BY DEF CountIn
<1> HIDE DEF I, J, K, f, p
<1>5. IsFiniteSet(I) /\ Cardinality(I) \in Nat
  BY <1>1, <1>4, CountType
<1>6. IsFiniteSet(K) /\ Cardinality(K) = Cardinality(I)
  BY <1>2, <1>5, FS_Bijection DEF ExistsBijection
<1>7. Cardinality(K \cup {1}) = Cardinality(K) + 1
  BY <1>3, <1>6, FS_AddElement
<1> QED
  BY <1>3, <1>4, <1>5, <1>6, <1>7 DEF p

(* A block submitted several times at once counts as often. *)
LEMMA CountInRepeat ==
  ASSUME NEW T, NEW q \in Seq(T), NEW u \in Seq(T), NEW e,
         \A i \in 1 .. Len(u) : u[i] = e, NEW S
  PROVE  CountIn(q \o u, S) = CountIn(q, S) + (IF e \in S THEN Len(u) ELSE 0)
<1> DEFINE p == q \o u
           n == Len(u)
           I == {i \in DOMAIN q : q[i] \in S}
           J == {i \in DOMAIN p : p[i] \in S}
           K == Len(q) + 1 .. Len(q) + n
<1>1. Len(q) \in Nat /\ DOMAIN q = 1 .. Len(q) /\ n \in Nat
  BY LenProperties
<1>2. /\ DOMAIN p = 1 .. Len(q) + n
      /\ \A i \in 1 .. Len(q) : p[i] = q[i]
      /\ \A i \in K : p[i] = e
  BY <1>1
<1>3. J = (IF e \in S THEN I \cup K ELSE I) /\ I \cap K = {}
  BY <1>1, <1>2
<1>4. I \subseteq DOMAIN q /\ CountIn(q, S) = Cardinality(I) /\ CountIn(p, S) = Cardinality(J)
  BY DEF CountIn
<1>5. Len(q) + 1 \in Int /\ Len(q) + n \in Int
  BY <1>1
<1>6. IsFiniteSet(K) /\ Cardinality(K) = IF Len(q) + 1 > Len(q) + n THEN 0 ELSE (Len(q) + n) - (Len(q) + 1) + 1
  BY <1>5, FS_Interval, Zenon
<1> HIDE DEF I, J, K, n, p
<1>7. Cardinality(K) = n
  BY <1>1, <1>6
<1>8. IsFiniteSet(I) /\ Cardinality(I) \in Nat
  BY <1>4, CountType
<1>9. Cardinality(I \cup K) = Cardinality(I) + Cardinality(K) - Cardinality(I \cap K)
  BY <1>6, <1>8, FS_Union
<1>10. Cardinality(I \cap K) = 0
  BY <1>3, FS_EmptySet
<1> QED
  BY <1>3, <1>4, <1>7, <1>8, <1>9, <1>10 DEF p, n

----------------------------------------------------------------------------
(* A download of the router for d is a call of syncQueue, a callback of the *)
(* task for d, or a block of routerQueue that brings the result.           *)
DownloadedFor(d) == {b \in RouterBlock : b.type = "downloaded" /\ b.range = d}

Submitted(d) == CountIn(syncQueue, {DownloadCall(d, "router")})
UnderWay(d) == CountIn(callbackPool[d], {"router"})
Arrived(d) == CountIn(routerQueue, DownloadedFor(d))

(* The inductive invariant of OneFetchPerPending: the same sum, with sets  *)
(* to count in.                                                            *)
FetchInv ==
  /\ TypeOK
  /\ \A d \in Wanted :
       Submitted(d) + UnderWay(d) + Arrived(d) = IF pendingCallbacks[d] # {} THEN 1 ELSE 0

(* Counting with a condition is counting in the set of those that meet it. *)
LEMMA FetchesCounted == FetchInv => OneFetchPerPending
<1> SUFFICES ASSUME FetchInv, NEW d \in Wanted
             PROVE  Count(syncQueue, LAMBDA c : c = DownloadCall(d, "router"))
                      + Count(callbackPool[d], LAMBDA who : who = "router")
                      + Count(routerQueue, LAMBDA b : b.type = "downloaded" /\ b.range = d)
                    = IF pendingCallbacks[d] # {} THEN 1 ELSE 0
  BY DEF OneFetchPerPending
<1>1. Count(syncQueue, LAMBDA c : c = DownloadCall(d, "router")) = Submitted(d)
  BY DEF Count, CountIn, Submitted
<1>2. Count(callbackPool[d], LAMBDA who : who = "router") = UnderWay(d)
  BY DEF Count, CountIn, UnderWay
<1>3. Count(routerQueue, LAMBDA b : b.type = "downloaded" /\ b.range = d) = Arrived(d)
  <2>1. \A i \in DOMAIN routerQueue : routerQueue[i] \in RouterBlock
    BY LenProperties, ElementOfSeq DEF FetchInv, TypeOK
  <2>2. {i \in DOMAIN routerQueue : routerQueue[i].type = "downloaded" /\ routerQueue[i].range = d}
          = {i \in DOMAIN routerQueue : routerQueue[i] \in DownloadedFor(d)}
    BY <2>1 DEF DownloadedFor
  <2> QED
    BY <2>2 DEF Count, CountIn, Arrived
<1> QED
  BY <1>1, <1>2, <1>3 DEF FetchInv

(* Which blocks bring the result of a download for d. *)
LEMMA BlocksThatArrive ==
  ASSUME NEW d
  PROVE  /\ \A r : GetBlock(r) \notin DownloadedFor(d)
         /\ FlushedBlock \notin DownloadedFor(d)
         /\ \A e, data : DownloadedBlock(e, data) \in RouterBlock =>
              (DownloadedBlock(e, data) \in DownloadedFor(d) <=> e = d)
BY DEF DownloadedFor, GetBlock, FlushedBlock, DownloadedBlock

(* A handler that leaves the fetches and those who wait alone. *)
LEMMA FetchUntouched ==
  ASSUME FetchInv, TypeOK', UNCHANGED <<syncQueue, callbackPool>>,
         \A d \in Wanted : Arrived(d)' = Arrived(d),
         \A d \in Wanted : pendingCallbacks'[d] # {} <=> pendingCallbacks[d] # {}
  PROVE  FetchInv'
BY DEF FetchInv, Submitted, UnderWay

(* A block that brings nothing is submitted, or has its turn. *)
LEMMA ArrivedUntouched ==
  ASSUME TypeOK, NEW d \in Wanted, NEW b \in RouterBlock, b \notin DownloadedFor(d)
  PROVE  /\ routerQueue' = Append(routerQueue, b) => Arrived(d)' = Arrived(d)
         /\ routerQueue # <<>> /\ Head(routerQueue) = b /\ routerQueue' = Tail(routerQueue)
              => Arrived(d)' = Arrived(d)
<1>1. CountIn(routerQueue, DownloadedFor(d)) \in Nat
  BY CountInType DEF TypeOK
<1>2. ASSUME routerQueue' = Append(routerQueue, b) PROVE Arrived(d)' = Arrived(d)
  BY <1>1, <1>2, CountInAppend DEF Arrived, TypeOK
<1>3. ASSUME routerQueue # <<>>, Head(routerQueue) = b, routerQueue' = Tail(routerQueue)
      PROVE  Arrived(d)' = Arrived(d)
  <2>1. Tail(routerQueue) \in Seq(RouterBlock)
    BY <1>3, HeadTailProperties DEF TypeOK
  <2>2. CountIn(Tail(routerQueue), DownloadedFor(d)) \in Nat
    BY <2>1, CountInType
  <2> QED
    BY <1>1, <1>3, <2>2, CountInTail DEF Arrived, TypeOK
<1> QED
  BY <1>2, <1>3

(* The three counts are naturals. *)
LEMMA FetchesAreNatural ==
  ASSUME TypeOK, NEW d \in Wanted
  PROVE  Submitted(d) \in Nat /\ UnderWay(d) \in Nat /\ Arrived(d) \in Nat
BY CountInType, RouterAssumption DEF Submitted, UnderWay, Arrived, TypeOK

(* The turns of routerQueue that bring nothing and start nothing. *)
LEMMA FetchQuietTurns ==
  ASSUME FetchInv, TypeOK'
  PROVE  /\ \A r \in Requests, d \in Wanted :
              (\/ AnswerFromMemory(r, d)
               \/ AnswerFromDisk(r, d)
               \/ RetryLater(r, d)
               \/ JoinPending(r, d)) => FetchInv'
         /\ Flushed => FetchInv'
<1>1. ASSUME NEW r \in Requests, NEW d \in Wanted,
             \/ AnswerFromMemory(r, d)
             \/ AnswerFromDisk(r, d)
             \/ RetryLater(r, d)
             \/ JoinPending(r, d)
      PROVE  FetchInv'
  <2>1. /\ Getting(r, d)
        /\ UNCHANGED <<syncQueue, callbackPool>>
        /\ UNCHANGED pendingCallbacks \/ JoinPending(r, d)
    BY <1>1 DEF AnswerFromMemory, AnswerFromDisk, RetryLater, JoinPending
  <2>2. \A e \in Wanted : Arrived(e)' = Arrived(e)
    BY <2>1, ArrivedUntouched, BlockTypes, BlocksThatArrive DEF Getting, FetchInv
  <2>3. pendingCallbacks \in [Wanted -> SUBSET Requests]
    BY DEF FetchInv, TypeOK
  <2>4. \/ pendingCallbacks' = pendingCallbacks
        \/ /\ pendingCallbacks[d] # {}
           /\ pendingCallbacks' = [pendingCallbacks EXCEPT ![d] = @ \cup {r}]
    BY <2>1 DEF JoinPending
  <2>5. \A e \in Wanted : pendingCallbacks'[e] # {} <=> pendingCallbacks[e] # {}
    BY <2>3, <2>4
  <2> QED
    BY <2>1, <2>2, <2>5, FetchUntouched
<1>2. ASSUME Flushed PROVE FetchInv'
  <2>1. UNCHANGED <<syncQueue, callbackPool, pendingCallbacks>>
    BY <1>2 DEF Flushed
  <2>2. \A e \in Wanted : Arrived(e)' = Arrived(e)
    BY <1>2, ArrivedUntouched, BlockTypes, BlocksThatArrive DEF Flushed, FetchInv
  <2> QED
    BY <2>1, <2>2, FetchUntouched
<1> QED
  BY <1>1, <1>2

(* A download starts for a range nobody waited for, so that no fetch of it *)
(* was in flight, and is the one of those who wait from now on.            *)
LEMMA FetchStart ==
  ASSUME FetchInv, TypeOK', NEW r \in Requests, NEW d \in Wanted, StartDownload(r, d)
  PROVE  FetchInv'
<1> DEFINE call == DownloadCall(d, "router")
           Calls == [range : CacheRange, who : {"router", "preload"}]
<1>1. /\ Getting(r, d) /\ pendingCallbacks[d] = {}
      /\ pendingCallbacks' = [pendingCallbacks EXCEPT ![d] = {r}]
      /\ syncQueue' = Append(syncQueue, call)
      /\ callbackPool' = callbackPool
  BY DEF StartDownload
<1>2. pendingCallbacks \in [Wanted -> SUBSET Requests]
  BY DEF FetchInv, TypeOK
<1>3. syncQueue \in Seq(Calls) /\ call \in Calls
  BY RouterAssumption DEF FetchInv, TypeOK, DownloadCall
<1>4. \A e \in Wanted : call \in {DownloadCall(e, "router")} <=> e = d
  BY DEF DownloadCall
<1> HIDE DEF call, Calls
<1>5. ASSUME NEW e \in Wanted
      PROVE  Submitted(e)' + UnderWay(e)' + Arrived(e)'
               = IF pendingCallbacks'[e] # {} THEN 1 ELSE 0
  <2>1. Submitted(e)' = Submitted(e) + (IF call \in {DownloadCall(e, "router")} THEN 1 ELSE 0)
    BY <1>1, <1>3, CountInAppend DEF Submitted
  <2>2. Arrived(e)' = Arrived(e)
    BY <1>1, ArrivedUntouched, BlockTypes, BlocksThatArrive DEF Getting, FetchInv
  <2>3. UnderWay(e)' = UnderWay(e)
    BY <1>1 DEF UnderWay
  <2>4. Submitted(e) \in Nat /\ UnderWay(e) \in Nat /\ Arrived(e) \in Nat
    BY FetchesAreNatural DEF FetchInv
  <2>5. Submitted(e) + UnderWay(e) + Arrived(e)
          = IF pendingCallbacks[e] # {} THEN 1 ELSE 0
    BY DEF FetchInv
  <2>6. /\ pendingCallbacks'[e] # {} <=> e = d \/ pendingCallbacks[e] # {}
        /\ e = d => pendingCallbacks[e] = {}
    BY <1>1, <1>2
  <2>7. call \in {DownloadCall(e, "router")} <=> e = d
    BY <1>4
  <2> QED
    BY <2>1, <2>2, <2>3, <2>4, <2>5, <2>6, <2>7
<1> QED
  BY <1>5 DEF FetchInv

(* The result of a download: it was the only one of those who waited. *)
LEMMA FetchDownloaded ==
  ASSUME FetchInv, TypeOK', NEW d \in Wanted, NEW data, Downloaded(d, data)
  PROVE  FetchInv'
<1>1. /\ routerQueue # <<>>
      /\ Head(routerQueue) = DownloadedBlock(d, data)
      /\ routerQueue' = Tail(routerQueue)
      /\ pendingCallbacks' = [pendingCallbacks EXCEPT ![d] = {}]
      /\ UNCHANGED <<syncQueue, callbackPool>>
  BY DEF Downloaded
<1>2. /\ pendingCallbacks \in [Wanted -> SUBSET Requests]
      /\ routerQueue \in Seq(RouterBlock) /\ routerQueue' \in Seq(RouterBlock)
  BY DEF FetchInv, TypeOK
<1>3. Head(routerQueue) \in RouterBlock
  BY <1>1, <1>2, HeadTailProperties
<1>4. \A e \in Wanted : Head(routerQueue) \in DownloadedFor(e) <=> e = d
  BY <1>1, <1>3, BlocksThatArrive
<1>7. ASSUME NEW e \in Wanted
      PROVE  Submitted(e) \in Nat /\ UnderWay(e) \in Nat /\ Arrived(e)' \in Nat
  BY <1>2, CountInType, RouterAssumption DEF Submitted, UnderWay, Arrived, FetchInv, TypeOK
<1>8. ASSUME NEW e \in Wanted
      PROVE  Submitted(e)' + UnderWay(e)' + Arrived(e)'
               = IF pendingCallbacks'[e] # {} THEN 1 ELSE 0
  <2>1. Submitted(e) + UnderWay(e) + Arrived(e)
          = IF pendingCallbacks[e] # {} THEN 1 ELSE 0
    BY DEF FetchInv
  <2>2. pendingCallbacks'[e] = IF e = d THEN {} ELSE pendingCallbacks[e]
    BY <1>1, <1>2
  <2>3. Arrived(e) = Arrived(e)' + (IF Head(routerQueue) \in DownloadedFor(e) THEN 1 ELSE 0)
    BY <1>1, <1>2, CountInTail DEF Arrived
  <2>4. Submitted(e)' = Submitted(e) /\ UnderWay(e)' = UnderWay(e)
    BY <1>1 DEF Submitted, UnderWay
  <2> QED
    BY <1>4, <1>7, <2>1, <2>2, <2>3, <2>4
<1> QED
  BY <1>8 DEF FetchInv

(* Which call of the downloader's queue a range's own is. *)
LEMMA CallFields ==
  ASSUME NEW c \in [range : CacheRange, who : {"router", "preload"}], NEW e
  PROVE  c \in {DownloadCall(e, "router")} <=> c.range = e /\ c.who = "router"
<1>1. c = [range |-> c.range, who |-> c.who]
  OBVIOUS
<1>2. DownloadCall(e, "router").range = e /\ DownloadCall(e, "router").who = "router"
  BY DEF DownloadCall
<1>3. c.range = e /\ c.who = "router" => c = DownloadCall(e, "router")
  BY <1>1, Zenon DEF DownloadCall
<1> QED
  BY <1>2, <1>3, Zenon

(* The downloader takes a call: the fetch goes from its queue to its pool. *)
LEMMA FetchDownload ==
  ASSUME FetchInv, TypeOK', Download
  PROVE  FetchInv'
<1> DEFINE c == Head(syncQueue)
           Calls == [range : CacheRange, who : {"router", "preload"}]
<1>1. /\ syncQueue # <<>> /\ syncQueue' = Tail(syncQueue)
      /\ callbackPool' = [callbackPool EXCEPT ![c.range] = Append(@, c.who)]
      /\ UNCHANGED <<routerQueue, pendingCallbacks>>
  BY DEF Download, CallbacksWith
<1>2. /\ syncQueue \in Seq(Calls) /\ syncQueue' \in Seq(Calls) /\ c \in Calls
      /\ callbackPool \in [CacheRange -> Seq({"router", "preload"})]
  BY HeadTailProperties DEF FetchInv, TypeOK, Download
<1> HIDE DEF Calls
<1>3. \A e \in Wanted : c \in {DownloadCall(e, "router")} <=> c.range = e /\ c.who = "router"
  BY <1>2, CallFields, Zenon DEF Calls
<1>4. ASSUME NEW e \in Wanted
      PROVE  Submitted(e) = Submitted(e)'
                              + (IF c.range = e /\ c.who = "router" THEN 1 ELSE 0)
  <2>1. Submitted(e) = Submitted(e)' + (IF c \in {DownloadCall(e, "router")} THEN 1 ELSE 0)
    BY <1>1, <1>2, CountInTail DEF Submitted
  <2> QED
    BY <1>3, <2>1
<1>5. c.who \in {"router", "preload"} /\ c.range \in CacheRange
  BY <1>2 DEF Calls
<1> HIDE DEF c
<1>6. ASSUME NEW e \in Wanted
      PROVE  UnderWay(e)' = UnderWay(e)
                              + (IF c.range = e /\ c.who = "router" THEN 1 ELSE 0)
  <2>1. e \in CacheRange /\ callbackPool[e] \in Seq({"router", "preload"})
    BY <1>2, RouterAssumption
  <2>2. callbackPool'[e] = IF c.range = e THEN Append(callbackPool[e], c.who)
                                          ELSE callbackPool[e]
    BY <1>1, <1>2, <1>5, <2>1
  <2>3. CountIn(callbackPool[e], {"router"}) \in Nat
    BY <2>1, CountInType
  <2>4. CountIn(Append(callbackPool[e], c.who), {"router"})
          = CountIn(callbackPool[e], {"router"}) + (IF c.who \in {"router"} THEN 1 ELSE 0)
    BY <1>5, <2>1, CountInAppend
  <2> QED
    BY <2>2, <2>3, <2>4 DEF UnderWay
<1>7. \A e \in Wanted : Arrived(e)' = Arrived(e)
  BY <1>1 DEF Arrived
<1>8. ASSUME NEW e \in Wanted
      PROVE  Submitted(e)' \in Nat /\ UnderWay(e) \in Nat /\ Arrived(e) \in Nat
  BY <1>2, CountInType, RouterAssumption DEF Submitted, UnderWay, Arrived, FetchInv, TypeOK
<1>9. ASSUME NEW e \in Wanted
      PROVE  Submitted(e)' + UnderWay(e)' + Arrived(e)'
               = IF pendingCallbacks'[e] # {} THEN 1 ELSE 0
  <2>1. Submitted(e) + UnderWay(e) + Arrived(e)
          = IF pendingCallbacks[e] # {} THEN 1 ELSE 0
    BY DEF FetchInv
  <2>2. /\ Submitted(e) = Submitted(e)'
                            + (IF c.range = e /\ c.who = "router" THEN 1 ELSE 0)
        /\ UnderWay(e)' = UnderWay(e)
                            + (IF c.range = e /\ c.who = "router" THEN 1 ELSE 0)
        /\ Arrived(e)' = Arrived(e)
    BY <1>4, <1>6, <1>7
  <2>3. pendingCallbacks' = pendingCallbacks
    BY <1>1
  <2>4. Submitted(e)' \in Nat /\ UnderWay(e) \in Nat /\ Arrived(e) \in Nat
    BY <1>8
  <2> QED
    BY <2>1, <2>2, <2>3, <2>4
<1> QED
  BY <1>9 DEF FetchInv

(* A task completes: each of the router's callbacks becomes a block. *)
LEMMA FetchRespond ==
  ASSUME FetchInv, TypeOK', NEW d \in CacheRange, NEW data \in Responses(d),
         Respond(d, data)
  PROVE  FetchInv'
<1> DEFINE n == Count(callbackPool[d], LAMBDA w : w = "router")
           block == DownloadedBlock(d, data)
           blocks == [i \in 1 .. n |-> block]
<1>1. /\ routerQueue' = routerQueue \o blocks
      /\ callbackPool' = [callbackPool EXCEPT ![d] = <<>>]
      /\ UNCHANGED <<syncQueue, pendingCallbacks>>
  BY DEF Respond
<1>2. n = CountIn(callbackPool[d], {"router"})
  BY DEF Count, CountIn
<1>3. block \in RouterBlock
  BY ResponsesType, BlockTypes
<1>4. /\ routerQueue \in Seq(RouterBlock)
      /\ callbackPool \in [CacheRange -> Seq({"router", "preload"})]
  BY DEF FetchInv, TypeOK
<1>5. n \in Nat
  BY <1>2, <1>4, CountInType
<1>6. \A e \in Wanted : block \in DownloadedFor(e) <=> e = d
  BY <1>3, BlocksThatArrive
<1> HIDE DEF n, block
<1>7. /\ blocks \in Seq(RouterBlock) /\ Len(blocks) = n
       /\ \A i \in 1 .. Len(blocks) : blocks[i] = block
  BY <1>3, <1>5
<1> HIDE DEF blocks
<1>8. ASSUME NEW e \in Wanted
      PROVE  Arrived(e)' = Arrived(e) + (IF e = d THEN n ELSE 0)
  <2>1. Arrived(e)' = Arrived(e) + (IF block \in DownloadedFor(e) THEN n ELSE 0)
    BY <1>1, <1>4, <1>7, CountInRepeat DEF Arrived
  <2> QED
    BY <1>6, <2>1
<1>9. ASSUME NEW e \in Wanted
      PROVE  UnderWay(e) = UnderWay(e)' + (IF e = d THEN n ELSE 0)
  <2>1. e \in CacheRange
    BY RouterAssumption
  <2>2. callbackPool'[e] = IF e = d THEN <<>> ELSE callbackPool[e]
    BY <1>1, <1>4, <2>1
  <2>3. CountIn(<<>>, {"router"}) = 0
    BY CountInEmpty
  <2>4. CountIn(callbackPool[e], {"router"}) \in Nat
    BY <1>4, <2>1, CountInType
  <2> QED
    BY <1>2, <1>5, <2>2, <2>3, <2>4 DEF UnderWay
<1>10. \A e \in Wanted : Submitted(e)' = Submitted(e)
  BY <1>1 DEF Submitted
<1>11. ASSUME NEW e \in Wanted
       PROVE  Submitted(e) \in Nat /\ UnderWay(e)' \in Nat /\ Arrived(e) \in Nat
  BY <1>4, CountInType, RouterAssumption DEF Submitted, UnderWay, Arrived, FetchInv, TypeOK
<1>12. ASSUME NEW e \in Wanted
       PROVE  Submitted(e)' + UnderWay(e)' + Arrived(e)'
                = IF pendingCallbacks'[e] # {} THEN 1 ELSE 0
  <2>1. Submitted(e) + UnderWay(e) + Arrived(e)
          = IF pendingCallbacks[e] # {} THEN 1 ELSE 0
    BY DEF FetchInv
  <2>2. /\ Arrived(e)' = Arrived(e) + (IF e = d THEN n ELSE 0)
        /\ UnderWay(e) = UnderWay(e)' + (IF e = d THEN n ELSE 0)
        /\ Submitted(e)' = Submitted(e)
    BY <1>8, <1>9, <1>10
  <2>3. pendingCallbacks' = pendingCallbacks
    BY <1>1
  <2>4. Submitted(e) \in Nat /\ UnderWay(e)' \in Nat /\ Arrived(e) \in Nat
    BY <1>11
  <2> QED
    BY <1>5, <2>1, <2>2, <2>3, <2>4
<1> QED
  BY <1>12 DEF FetchInv

(* A call of the preloader is none of the router's. *)
LEMMA FetchRunPreload ==
  ASSUME FetchInv, TypeOK', NEW i \in {1, 2}, RunPreload(i)
  PROVE  FetchInv'
<1> DEFINE call == DownloadCall(preloadOps[i], "preload")
           Calls == [range : CacheRange, who : {"router", "preload"}]
<1>1. /\ syncQueue' = Append(syncQueue, call)
      /\ UNCHANGED <<routerQueue, callbackPool, pendingCallbacks>>
  BY DEF RunPreload
<1>2. preloadOps[i] \in CacheRange
  <2>1. preloadOps \in Seq(CacheRange) /\ i \in 1 .. Len(preloadOps)
    BY LenProperties DEF RunPreload, FetchInv, TypeOK
  <2> QED
    BY <2>1, ElementOfSeq
<1>3. call \in Calls /\ \A e \in Wanted : call \notin {DownloadCall(e, "router")}
  BY <1>2 DEF DownloadCall
<1>4. syncQueue \in Seq(Calls)
  BY DEF FetchInv, TypeOK
<1> HIDE DEF call, Calls
<1>5. \A e \in Wanted : Submitted(e)' = Submitted(e)
  <2> TAKE e \in Wanted
  <2>1. CountIn(syncQueue, {DownloadCall(e, "router")}) \in Nat
    BY <1>4, CountInType
  <2> QED
    BY <1>1, <1>3, <1>4, <2>1, CountInAppend DEF Submitted
<1> QED
  BY <1>1, <1>5 DEF FetchInv, UnderWay, Arrived

(* getDataForKey, a timer and the end of a write only submit blocks that   *)
(* bring nothing.                                                          *)
LEMMA FetchSubmit ==
  ASSUME FetchInv, TypeOK'
  PROVE  /\ \A r \in Requests, d \in Wanted : GetData(r, d) => FetchInv'
         /\ \A r \in Requests : Retry(r) => FetchInv'
         /\ WriteData => FetchInv'
<1>1. ASSUME NEW b \in RouterBlock, \A e \in Wanted : b \notin DownloadedFor(e),
             routerQueue' = Append(routerQueue, b) \/ routerQueue' = routerQueue,
             UNCHANGED <<syncQueue, callbackPool, pendingCallbacks>>
      PROVE  FetchInv'
  <2>1. \A e \in Wanted : Arrived(e)' = Arrived(e)
    BY <1>1, ArrivedUntouched DEF FetchInv, Arrived
  <2> QED
    BY <1>1, <2>1, FetchUntouched
<1>2. ASSUME NEW r \in Requests, NEW d \in Wanted, GetData(r, d) PROVE FetchInv'
  BY <1>1, <1>2, BlockTypes, BlocksThatArrive DEF GetData
<1>3. ASSUME NEW r \in Requests, Retry(r) PROVE FetchInv'
  BY <1>1, <1>3, BlockTypes, BlocksThatArrive DEF Retry
<1>4. ASSUME WriteData PROVE FetchInv'
  <2>1. /\ routerQueue' = Append(routerQueue, FlushedBlock) \/ routerQueue' = routerQueue
        /\ UNCHANGED <<syncQueue, callbackPool, pendingCallbacks>>
    BY <1>4 DEF WriteData
  <2> QED
    BY <1>1, <2>1, BlockTypes, BlocksThatArrive
<1> QED
  BY <1>2, <1>3, <1>4

(* Nothing is in flight in an app just started. *)
LEMMA FetchNothing ==
  ASSUME syncQueue = <<>>, routerQueue = <<>>,
         callbackPool = [d \in CacheRange |-> <<>>],
         pendingCallbacks = [d \in Wanted |-> {}]
  PROVE  \A d \in Wanted :
           Submitted(d) + UnderWay(d) + Arrived(d)
             = IF pendingCallbacks[d] # {} THEN 1 ELSE 0
<1>1. \A d \in Wanted : callbackPool[d] = <<>> /\ pendingCallbacks[d] = {}
  BY RouterAssumption
<1> QED
  BY <1>1, CountInEmpty DEF Submitted, UnderWay, Arrived

(* Every step keeps one fetch for each range somebody waits for. *)
LEMMA FetchStep == FetchInv /\ [Next]_vars => FetchInv'
<1> SUFFICES ASSUME FetchInv, [Next]_vars PROVE FetchInv'
  OBVIOUS
<1>0. TypeOK'
  BY TypeStep DEF FetchInv
<1>1. CASE RunRouter
  BY <1>0, <1>1, FetchQuietTurns, FetchStart, FetchDownloaded DEF RunRouter
<1>2. ASSUME UNCHANGED <<routerQueue, syncQueue, callbackPool, pendingCallbacks>>
      PROVE  FetchInv'
  BY <1>0, <1>2 DEF FetchInv, Submitted, UnderWay, Arrived
<1>3. \/ \E o \in Offset : Evict(o)
      \/ CleanSong
      \/ PlaySong
      \/ \E r \in Requests : CallCompletion(r)
      \/ UNCHANGED vars
      => UNCHANGED <<routerQueue, syncQueue, callbackPool, pendingCallbacks>>
  BY DEF Evict, CleanSong, PlaySong, CallCompletion, vars
<1>4. ASSUME Restart PROVE FetchInv'
  <2>1. /\ syncQueue' = <<>> /\ routerQueue' = <<>>
        /\ callbackPool' = [d \in CacheRange |-> <<>>]
        /\ pendingCallbacks' = [d \in Wanted |-> {}]
    BY <1>4 DEF Restart
  <2>2. \A d \in Wanted : callbackPool'[d] = <<>> /\ pendingCallbacks'[d] = {}
    BY <2>1, RouterAssumption
  <2> QED
    BY <1>0, <2>1, <2>2, CountInEmpty DEF FetchInv, Submitted, UnderWay, Arrived
<1> QED
  BY <1>0, <1>1, <1>2, <1>3, <1>4, FetchSubmit, FetchRunPreload, FetchDownload,
     FetchRespond DEF Next

(* A range somebody waits for has exactly one download of the router       *)
(* submitted, under way or answered and not yet processed, and a range     *)
(* nobody waits for has none, whatever the preloader fetches meanwhile.    *)
THEOREM OneFetchForWhoWaits == Spec => []OneFetchPerPending
<1>1. Init => FetchInv
  BY TypeInit, FetchNothing DEF Init, FetchInv
<1> QED
  BY <1>1, FetchStep, FetchesCounted, PTL DEF Spec

----------------------------------------------------------------------------
(* The completion of r is in a getData block, behind a retry timer, among  *)
(* the callbacks of a range, with a queued write, in a block of the main   *)
(* queue, or has been called; the last two count as called.                *)
WaitsFor(r) == {d \in Wanted : r \in pendingCallbacks[d]}
WritesFor(r) == {w \in Write : r \in w.waiting}

Blocks(r) == CountIn(routerQueue, {GetBlock(r)})
Timed(r) == IF r \in retryTimers THEN 1 ELSE 0
Waiting(r) == Cardinality(WaitsFor(r))
Queued(r) == CountIn(ioQueue, WritesFor(r))
Called(r) == Len(mainQueue[r]) + Len(replies[r])

(* The inductive invariant of CompletionHeldOnce: the same sum, with sets  *)
(* to count in.                                                            *)
HeldInv ==
  /\ TypeOK
  /\ \A r \in Requests :
       Blocks(r) + Timed(r) + Waiting(r) + Queued(r) + Called(r)
         = IF asked[r] = NoRange THEN 0 ELSE 1

(* There are finitely many ranges, so finitely many to wait for. *)
LEMMA RangesAreFinite == IsFiniteSet(CacheRange) /\ IsFiniteSet(Wanted)
BY RangesFinite, RouterAssumption

(* The five counts are naturals. *)
LEMMA HeldAreNatural ==
  ASSUME TypeOK, NEW r \in Requests
  PROVE  /\ Blocks(r) \in Nat /\ Timed(r) \in Nat /\ Waiting(r) \in Nat
         /\ Queued(r) \in Nat /\ Called(r) \in Nat
         /\ IsFiniteSet(WaitsFor(r))
<1>1. Blocks(r) \in Nat
  BY CountInType DEF Blocks, TypeOK
<1>2. Queued(r) \in Nat
  BY CountInType DEF Queued, TypeOK
<1>3. Called(r) \in Nat
  <2> DEFINE m == Len(mainQueue[r])
             n == Len(replies[r])
  <2>1. mainQueue[r] \in Seq(Seq(Cell)) /\ replies[r] \in Seq(Seq(Cell))
    BY DEF TypeOK
  <2>2. m \in Nat /\ n \in Nat
    BY <2>1, LenProperties
  <2>3. Called(r) = m + n
    BY DEF Called
  <2> HIDE DEF m, n
  <2> QED
    BY <2>2, <2>3
<1>4. IsFiniteSet(WaitsFor(r)) /\ Waiting(r) \in Nat
  <2>1. WaitsFor(r) \subseteq Wanted
    BY DEF WaitsFor
  <2> QED
    BY <2>1, RangesAreFinite, FS_Subset, FS_CardinalityType DEF Waiting
<1> QED
  BY <1>1, <1>2, <1>3, <1>4 DEF Timed

(* And so they are after a step. *)
LEMMA HeldStayNatural ==
  ASSUME TypeOK', NEW r \in Requests
  PROVE  /\ Blocks(r)' \in Nat /\ Timed(r)' \in Nat /\ Waiting(r)' \in Nat
         /\ Queued(r)' \in Nat /\ Called(r)' \in Nat
<1>1. Blocks(r)' \in Nat
  BY CountInType DEF Blocks, TypeOK
<1>2. Queued(r)' \in Nat
  BY CountInType DEF Queued, TypeOK
<1>3. Called(r)' \in Nat
  <2> DEFINE m == Len(mainQueue'[r])
             n == Len(replies'[r])
  <2>1. mainQueue'[r] \in Seq(Seq(Cell)) /\ replies'[r] \in Seq(Seq(Cell))
    BY DEF TypeOK
  <2>2. m \in Nat /\ n \in Nat
    BY <2>1, LenProperties
  <2>3. Called(r)' = m + n
    BY DEF Called
  <2> HIDE DEF m, n
  <2> QED
    BY <2>2, <2>3
<1>4. Waiting(r)' \in Nat
  <2>1. WaitsFor(r)' \subseteq Wanted
    BY DEF WaitsFor
  <2> QED
    BY <2>1, RangesAreFinite, FS_Subset, FS_CardinalityType DEF Waiting
<1> QED
  BY <1>1, <1>2, <1>3, <1>4 DEF Timed

(* Counting with a condition is counting in the set of those that meet it. *)
LEMMA HeldCounted == HeldInv => CompletionHeldOnce
<1> SUFFICES ASSUME HeldInv, NEW r \in Requests
             PROVE  Holders(r) = IF asked[r] = NoRange THEN 0 ELSE 1
  BY DEF CompletionHeldOnce
<1>1. Count(routerQueue, LAMBDA b : b = GetBlock(r)) = Blocks(r)
  BY DEF Count, CountIn, Blocks
<1>2. Cardinality({t \in retryTimers : t = r}) = Timed(r)
  <2>1. {t \in retryTimers : t = r} = IF r \in retryTimers THEN {r} ELSE {}
    OBVIOUS
  <2> QED
    BY <2>1, FS_Singleton, FS_EmptySet DEF Timed
<1>3. Cardinality({d \in Wanted : r \in pendingCallbacks[d]}) = Waiting(r)
  BY DEF Waiting, WaitsFor
<1>4. Count(ioQueue, LAMBDA w : r \in w.waiting) = Queued(r)
  <2>1. \A i \in DOMAIN ioQueue : ioQueue[i] \in Write
    BY LenProperties, ElementOfSeq DEF HeldInv, TypeOK
  <2>2. {i \in DOMAIN ioQueue : r \in ioQueue[i].waiting}
          = {i \in DOMAIN ioQueue : ioQueue[i] \in WritesFor(r)}
    BY <2>1 DEF WritesFor
  <2> QED
    BY <2>2 DEF Count, CountIn, Queued
<1>5. Blocks(r) + Timed(r) + Waiting(r) + Queued(r) + Called(r)
        = IF asked[r] = NoRange THEN 0 ELSE 1
  BY DEF HeldInv
<1> DEFINE m == Len(mainQueue[r])
           n == Len(replies[r])
<1>6. /\ Blocks(r) \in Nat /\ Timed(r) \in Nat /\ Waiting(r) \in Nat /\ Queued(r) \in Nat
      /\ m \in Nat /\ n \in Nat
  <2>1. mainQueue[r] \in Seq(Seq(Cell)) /\ replies[r] \in Seq(Seq(Cell))
    BY DEF HeldInv, TypeOK
  <2> QED
    BY <2>1, HeldAreNatural, LenProperties DEF HeldInv
<1>7. Holders(r) = Blocks(r) + Timed(r) + Waiting(r) + Queued(r) + m + n
  BY <1>1, <1>2, <1>3, <1>4 DEF Holders
<1>8. Called(r) = m + n
  BY DEF Called
<1> HIDE DEF m, n
<1> QED
  BY <1>5, <1>6, <1>7, <1>8

(* Which blocks hold the completion of q. *)
LEMMA BlocksThatHold ==
  ASSUME NEW q
  PROVE  /\ \A r : GetBlock(r) \in {GetBlock(q)} <=> r = q
         /\ FlushedBlock \notin {GetBlock(q)}
         /\ \A d, data : DownloadedBlock(d, data) \notin {GetBlock(q)}
<1>1. \A r : GetBlock(r).type = "getData" /\ GetBlock(r).request = r
  BY DEF GetBlock
<1>2. FlushedBlock.type = "flushed"
  BY DEF FlushedBlock
<1>3. \A d, data : DownloadedBlock(d, data).type = "downloaded"
  BY DEF DownloadedBlock
<1> QED
  BY <1>1, <1>2, <1>3

(* A block is submitted, or the head of routerQueue has its turn. *)
LEMMA BlocksChange ==
  ASSUME TypeOK, NEW q \in Requests
  PROVE  /\ \A b \in RouterBlock :
              routerQueue' = Append(routerQueue, b) =>
                Blocks(q)' = Blocks(q) + (IF b \in {GetBlock(q)} THEN 1 ELSE 0)
         /\ routerQueue # <<>> /\ routerQueue' = Tail(routerQueue) =>
              Blocks(q) = Blocks(q)' + (IF Head(routerQueue) \in {GetBlock(q)} THEN 1 ELSE 0)
<1>1. routerQueue \in Seq(RouterBlock)
  BY DEF TypeOK
<1>2. ASSUME NEW b \in RouterBlock, routerQueue' = Append(routerQueue, b)
      PROVE  Blocks(q)' = Blocks(q) + (IF b \in {GetBlock(q)} THEN 1 ELSE 0)
  BY <1>1, <1>2, CountInAppend DEF Blocks
<1>3. ASSUME routerQueue # <<>>, routerQueue' = Tail(routerQueue)
      PROVE  Blocks(q) = Blocks(q)' + (IF Head(routerQueue) \in {GetBlock(q)} THEN 1 ELSE 0)
  BY <1>1, <1>3, CountInTail DEF Blocks
<1> QED
  BY <1>2, <1>3

(* The list of a range is replaced: whoever was on it and is not any more  *)
(* waits for one range less, whoever comes to it for one more.             *)
LEMMA WaitingChange ==
  ASSUME TypeOK, NEW q \in Requests, NEW d \in Wanted, NEW list \in SUBSET Requests,
         pendingCallbacks' = [pendingCallbacks EXCEPT ![d] = list]
  PROVE  Waiting(q)' + (IF q \in pendingCallbacks[d] THEN 1 ELSE 0)
           = Waiting(q) + (IF q \in list THEN 1 ELSE 0)
<1> DEFINE others == WaitsFor(q) \ {d}
<1>1. pendingCallbacks \in [Wanted -> SUBSET Requests]
  BY DEF TypeOK
<1>2. WaitsFor(q) = IF q \in pendingCallbacks[d] THEN others \cup {d} ELSE others
  BY DEF WaitsFor
<1>3. WaitsFor(q)' = IF q \in list THEN others \cup {d} ELSE others
  BY <1>1 DEF WaitsFor
<1>4. IsFiniteSet(others) /\ d \notin others
  BY HeldAreNatural, FS_Subset
<1> HIDE DEF others
<1>5. /\ Cardinality(others) \in Nat
      /\ Cardinality(others \cup {d}) = Cardinality(others) + 1
  BY <1>4, FS_AddElement, FS_CardinalityType
<1>6. Waiting(q) = IF q \in pendingCallbacks[d] THEN Cardinality(others) + 1 ELSE Cardinality(others)
  BY <1>2, <1>5 DEF Waiting
<1>7. Waiting(q)' = IF q \in list THEN Cardinality(others) + 1 ELSE Cardinality(others)
  BY <1>3, <1>5 DEF Waiting
<1> QED
  BY <1>5, <1>6, <1>7

(* Completions are dispatched to the main queue. *)
LEMMA CalledChange ==
  ASSUME TypeOK, NEW q \in Requests, NEW waiting, NEW data \in Seq(Cell),
         Dispatch(waiting, data), replies' = replies
  PROVE  Called(q)' = Called(q) + (IF q \in waiting THEN 1 ELSE 0)
<1> DEFINE m == Len(mainQueue[q])
           n == Len(replies[q])
<1>1. mainQueue[q] \in Seq(Seq(Cell)) /\ replies[q] \in Seq(Seq(Cell))
  BY DEF TypeOK
<1>2. mainQueue'[q] = IF q \in waiting THEN Append(mainQueue[q], data) ELSE mainQueue[q]
  BY DEF Dispatch
<1>3. m \in Nat /\ n \in Nat
  BY <1>1, LenProperties
<1>4. Len(Append(mainQueue[q], data)) = m + 1
  BY <1>1, AppendProperties
<1>5. Called(q) = m + n /\ Called(q)' = Len(mainQueue'[q]) + n
  BY DEF Called
<1> HIDE DEF m, n
<1>6. CASE q \in waiting
  BY <1>2, <1>3, <1>4, <1>5, <1>6
<1>7. CASE q \notin waiting
  <2>1. Called(q)' = m + n
    BY <1>2, <1>5, <1>7 DEF m
  <2> QED
    BY <1>3, <1>5, <1>7, <2>1
<1> QED
  BY <1>6, <1>7

(* A block of the main queue becomes a call. *)
LEMMA HeldCallCompletion ==
  ASSUME HeldInv, TypeOK', NEW r \in Requests, CallCompletion(r)
  PROVE  HeldInv'
<1>1. ASSUME NEW q \in Requests PROVE Called(q)' = Called(q)
  <2>1. /\ mainQueue \in [Requests -> Seq(Seq(Cell))]
        /\ replies \in [Requests -> Seq(Seq(Cell))]
    BY DEF HeldInv, TypeOK
  <2>2. CASE q = r
    <3>1. /\ mainQueue[r] # <<>>
          /\ mainQueue'[r] = Tail(mainQueue[r])
          /\ replies'[r] = Append(replies[r], Head(mainQueue[r]))
      BY <2>1 DEF CallCompletion
    <3>2. mainQueue[r] \in Seq(Seq(Cell)) /\ replies[r] \in Seq(Seq(Cell))
      BY <2>1
    <3> DEFINE m == Len(mainQueue[r])
               n == Len(replies[r])
    <3>3. /\ Len(mainQueue'[r]) = m - 1
          /\ Len(replies'[r]) = n + 1
          /\ m \in Nat /\ n \in Nat
      BY <3>1, <3>2, HeadTailProperties, AppendProperties, LenProperties
    <3>4. Called(r) = m + n /\ Called(r)' = Len(mainQueue'[r]) + Len(replies'[r])
      BY DEF Called
    <3> HIDE DEF m, n
    <3>5. Called(r)' = (m - 1) + (n + 1)
      BY <3>3, <3>4
    <3> QED
      BY <2>2, <3>3, <3>4, <3>5
  <2>3. CASE q # r
    <3>1. mainQueue'[q] = mainQueue[q] /\ replies'[q] = replies[q]
      BY <2>1, <2>3 DEF CallCompletion
    <3> QED
      BY <3>1 DEF Called
  <2> QED
    BY <2>2, <2>3
<1>2. ASSUME NEW q \in Requests
      PROVE  /\ Blocks(q)' = Blocks(q) /\ Timed(q)' = Timed(q)
             /\ Waiting(q)' = Waiting(q) /\ Queued(q)' = Queued(q)
             /\ asked'[q] = asked[q]
  BY DEF CallCompletion, Blocks, Timed, Waiting, WaitsFor, Queued
<1>3. ASSUME NEW q \in Requests
      PROVE  Blocks(q)' + Timed(q)' + Waiting(q)' + Queued(q)' + Called(q)'
               = IF asked'[q] = NoRange THEN 0 ELSE 1
  BY <1>1, <1>2 DEF HeldInv
<1> QED
  BY <1>3 DEF HeldInv

(* A request whose completion is in a block of routerQueue waits nowhere   *)
(* else: there is one place only.                                          *)
LEMMA HeldByBlock ==
  ASSUME HeldInv, NEW r \in Requests, NEW d \in Wanted, Getting(r, d)
  PROVE  /\ asked[r] # NoRange
         /\ r \notin retryTimers /\ \A e \in Wanted : r \notin pendingCallbacks[e]
         /\ \A q \in Requests : Blocks(q) = Blocks(q)' + (IF q = r THEN 1 ELSE 0)
         /\ \A q \in Requests : Blocks(q)' \in Nat
<1>1. asked[r] # NoRange
  BY RouterAssumption DEF Getting
<1>2. routerQueue \in Seq(RouterBlock) /\ routerQueue' \in Seq(RouterBlock)
  BY HeadTailProperties DEF Getting, HeldInv, TypeOK
<1>3. ASSUME NEW q \in Requests
      PROVE  Blocks(q) = Blocks(q)' + (IF q = r THEN 1 ELSE 0) /\ Blocks(q)' \in Nat
  <2>1. Blocks(q)' \in Nat
    BY <1>2, CountInType DEF Blocks
  <2>2. Blocks(q) = Blocks(q)' + (IF Head(routerQueue) \in {GetBlock(q)} THEN 1 ELSE 0)
    BY BlocksChange DEF Getting, HeldInv
  <2>3. Head(routerQueue) \in {GetBlock(q)} <=> q = r
    BY BlocksThatHold DEF Getting
  <2> QED
    BY <2>1, <2>2, <2>3
<1>4. Blocks(r) + Timed(r) + Waiting(r) + Queued(r) + Called(r) = 1
  BY <1>1 DEF HeldInv
<1>5. /\ Blocks(r) \in Nat /\ Timed(r) \in Nat /\ Waiting(r) \in Nat
      /\ Queued(r) \in Nat /\ Called(r) \in Nat /\ IsFiniteSet(WaitsFor(r))
  BY HeldAreNatural DEF HeldInv
<1>6. Blocks(r) = Blocks(r)' + 1 /\ Blocks(r)' \in Nat
  BY <1>3
<1>7. Timed(r) = 0 /\ Waiting(r) = 0
  BY <1>4, <1>5, <1>6
<1>8. WaitsFor(r) = {}
  BY <1>5, <1>7, FS_EmptySet DEF Waiting
<1> QED
  BY <1>1, <1>3, <1>7, <1>8 DEF Timed, WaitsFor

(* getDataForKey, and the timer of a request that is tried again. *)
LEMMA HeldSubmit ==
  ASSUME HeldInv, TypeOK', NEW r \in Requests
  PROVE  /\ \A d \in Wanted : GetData(r, d) => HeldInv'
         /\ Retry(r) => HeldInv'
<1>1. ASSUME NEW q \in Requests, routerQueue' = Append(routerQueue, GetBlock(r))
      PROVE  Blocks(q)' = Blocks(q) + (IF q = r THEN 1 ELSE 0)
  <2>1. GetBlock(r) \in {GetBlock(q)} <=> q = r
    BY BlocksThatHold
  <2>2. Blocks(q)' = Blocks(q) + (IF GetBlock(r) \in {GetBlock(q)} THEN 1 ELSE 0)
    BY <1>1, BlocksChange, BlockTypes DEF HeldInv
  <2> QED
    BY <2>1, <2>2
<1>2. ASSUME NEW d \in Wanted, GetData(r, d), NEW q \in Requests
      PROVE  Blocks(q)' + Timed(q)' + Waiting(q)' + Queued(q)' + Called(q)'
               = IF asked'[q] = NoRange THEN 0 ELSE 1
  <2>1. Blocks(q)' = Blocks(q) + (IF q = r THEN 1 ELSE 0)
    BY <1>1, <1>2 DEF GetData
  <2>2. /\ Timed(q)' = Timed(q) /\ Waiting(q)' = Waiting(q)
        /\ Queued(q)' = Queued(q) /\ Called(q)' = Called(q)
    BY <1>2 DEF GetData, Timed, Waiting, WaitsFor, Queued, Called
  <2>3. /\ q = r => asked[q] = NoRange /\ asked'[q] # NoRange
        /\ q # r => asked'[q] = asked[q]
    BY <1>2, RouterAssumption DEF GetData, HeldInv, TypeOK
  <2>4. Blocks(q) + Timed(q) + Waiting(q) + Queued(q) + Called(q)
          = IF asked[q] = NoRange THEN 0 ELSE 1
    BY DEF HeldInv
  <2>5. /\ Blocks(q) \in Nat /\ Timed(q) \in Nat /\ Waiting(q) \in Nat
        /\ Queued(q) \in Nat /\ Called(q) \in Nat
    BY HeldAreNatural DEF HeldInv
  <2> QED
    BY <2>1, <2>2, <2>3, <2>4, <2>5
<1>3. ASSUME Retry(r), NEW q \in Requests
      PROVE  Blocks(q)' + Timed(q)' + Waiting(q)' + Queued(q)' + Called(q)'
               = IF asked'[q] = NoRange THEN 0 ELSE 1
  <2>1. Blocks(q)' = Blocks(q) + (IF q = r THEN 1 ELSE 0)
    BY <1>1, <1>3 DEF Retry
  <2>2. Timed(q) = Timed(q)' + (IF q = r THEN 1 ELSE 0) /\ Timed(q)' \in Nat
    BY <1>3 DEF Retry, Timed
  <2>3. /\ Waiting(q)' = Waiting(q) /\ Queued(q)' = Queued(q) /\ Called(q)' = Called(q)
        /\ asked' = asked
    BY <1>3 DEF Retry, Waiting, WaitsFor, Queued, Called
  <2>4. Blocks(q) + Timed(q) + Waiting(q) + Queued(q) + Called(q)
          = IF asked[q] = NoRange THEN 0 ELSE 1
    BY DEF HeldInv
  <2>5. /\ Blocks(q) \in Nat /\ Timed(q) \in Nat /\ Waiting(q) \in Nat
        /\ Queued(q) \in Nat /\ Called(q) \in Nat
    BY HeldAreNatural DEF HeldInv
  <2> QED
    BY <2>1, <2>2, <2>3, <2>4, <2>5
<1> QED
  BY <1>2, <1>3 DEF HeldInv

(* A getData block is answered, or hands the completion to the callbacks   *)
(* of its range or to a timer.                                             *)
LEMMA HeldGetting ==
  ASSUME HeldInv, TypeOK', NEW r \in Requests, NEW d \in Wanted
  PROVE  /\ AnswerFromMemory(r, d) \/ AnswerFromDisk(r, d) => HeldInv'
         /\ JoinPending(r, d) \/ StartDownload(r, d) => HeldInv'
         /\ RetryLater(r, d) => HeldInv'
<1>1. ASSUME NEW q \in Requests
      PROVE  /\ Blocks(q) + Timed(q) + Waiting(q) + Queued(q) + Called(q)
                  = IF asked[q] = NoRange THEN 0 ELSE 1
             /\ Blocks(q) \in Nat /\ Timed(q) \in Nat /\ Waiting(q) \in Nat
             /\ Queued(q) \in Nat /\ Called(q) \in Nat
  BY HeldAreNatural DEF HeldInv
<1>2. ASSUME AnswerFromMemory(r, d) \/ AnswerFromDisk(r, d), NEW q \in Requests
      PROVE  Blocks(q)' + Timed(q)' + Waiting(q)' + Queued(q)' + Called(q)'
               = IF asked'[q] = NoRange THEN 0 ELSE 1
  <2>1. Getting(r, d) /\ replies' = replies /\ \E data \in Seq(Cell) : Dispatch({r}, data)
    <3>1. d \in CacheRange
      BY RouterAssumption
    <3>2. CASE AnswerFromMemory(r, d)
      BY <3>1, <3>2, LengthType DEF AnswerFromMemory, HeldInv, TypeOK
    <3>3. CASE AnswerFromDisk(r, d)
      BY <3>1, <3>3, LengthType, ReadDataType DEF AnswerFromDisk, HeldInv, TypeOK
    <3> QED
      BY <1>2, <3>2, <3>3
  <2>2. Called(q)' = Called(q) + (IF q \in {r} THEN 1 ELSE 0)
    BY <2>1, CalledChange DEF HeldInv
  <2>3. Blocks(q) = Blocks(q)' + (IF q = r THEN 1 ELSE 0) /\ Blocks(q)' \in Nat
    BY <2>1, HeldByBlock
  <2>4. /\ Timed(q)' = Timed(q) /\ Waiting(q)' = Waiting(q) /\ Queued(q)' = Queued(q)
        /\ asked' = asked
    BY <1>2 DEF AnswerFromMemory, AnswerFromDisk, Timed, Waiting, WaitsFor, Queued
  <2>5. /\ Blocks(q) + Timed(q) + Waiting(q) + Queued(q) + Called(q)
             = IF asked[q] = NoRange THEN 0 ELSE 1
        /\ Timed(q) \in Nat /\ Waiting(q) \in Nat /\ Queued(q) \in Nat /\ Called(q) \in Nat
    BY <1>1
  <2> QED
    BY <2>2, <2>3, <2>4, <2>5
<1>3. ASSUME JoinPending(r, d) \/ StartDownload(r, d), NEW q \in Requests
      PROVE  Blocks(q)' + Timed(q)' + Waiting(q)' + Queued(q)' + Called(q)'
               = IF asked'[q] = NoRange THEN 0 ELSE 1
  <2> DEFINE list == pendingCallbacks[d] \cup {r}
  <2>1. /\ Getting(r, d)
        /\ pendingCallbacks' = [pendingCallbacks EXCEPT ![d] = list]
        /\ UNCHANGED <<asked, retryTimers, ioQueue, mainQueue, replies>>
    BY <1>3 DEF JoinPending, StartDownload
  <2>2. pendingCallbacks[d] \in SUBSET Requests
    BY DEF HeldInv, TypeOK
  <2>3. r \notin pendingCallbacks[d]
    BY <2>1, HeldByBlock
  <2>4. Waiting(q)' + (IF q \in pendingCallbacks[d] THEN 1 ELSE 0)
          = Waiting(q) + (IF q \in list THEN 1 ELSE 0)
    BY <2>1, <2>2, WaitingChange DEF HeldInv
  <2>5. Waiting(q)' \in Nat
    BY HeldStayNatural
  <2>6. Blocks(q) = Blocks(q)' + (IF q = r THEN 1 ELSE 0) /\ Blocks(q)' \in Nat
    BY <2>1, HeldByBlock
  <2>7. Timed(q)' = Timed(q) /\ Queued(q)' = Queued(q) /\ Called(q)' = Called(q)
    BY <2>1 DEF Timed, Queued, Called
  <2>8. /\ Blocks(q) + Timed(q) + Waiting(q) + Queued(q) + Called(q)
             = IF asked[q] = NoRange THEN 0 ELSE 1
        /\ Timed(q) \in Nat /\ Waiting(q) \in Nat /\ Queued(q) \in Nat /\ Called(q) \in Nat
    BY <1>1
  <2> QED
    BY <2>1, <2>3, <2>4, <2>5, <2>6, <2>7, <2>8
<1>4. ASSUME RetryLater(r, d), NEW q \in Requests
      PROVE  Blocks(q)' + Timed(q)' + Waiting(q)' + Queued(q)' + Called(q)'
               = IF asked'[q] = NoRange THEN 0 ELSE 1
  <2>1. Getting(r, d) /\ retryTimers' = retryTimers \cup {r}
    BY <1>4 DEF RetryLater
  <2>2. r \notin retryTimers
    BY <2>1, HeldByBlock
  <2>3. Timed(q)' = Timed(q) + (IF q = r THEN 1 ELSE 0)
    BY <2>1, <2>2 DEF Timed
  <2>4. Blocks(q) = Blocks(q)' + (IF q = r THEN 1 ELSE 0) /\ Blocks(q)' \in Nat
    BY <2>1, HeldByBlock
  <2>5. /\ Waiting(q)' = Waiting(q) /\ Queued(q)' = Queued(q) /\ Called(q)' = Called(q)
        /\ asked' = asked
    BY <1>4 DEF RetryLater, Waiting, WaitsFor, Queued, Called
  <2>6. /\ Blocks(q) + Timed(q) + Waiting(q) + Queued(q) + Called(q)
             = IF asked[q] = NoRange THEN 0 ELSE 1
        /\ Timed(q) \in Nat /\ Waiting(q) \in Nat /\ Queued(q) \in Nat /\ Called(q) \in Nat
    BY <1>1
  <2> QED
    BY <2>3, <2>4, <2>5, <2>6
<1> QED
  BY <1>2, <1>3, <1>4 DEF HeldInv

(* The result of a download: the callbacks of the range go to the queued   *)
(* write, or are called with the error.                                    *)
LEMMA HeldDownloaded ==
  ASSUME HeldInv, TypeOK', NEW d \in Wanted, NEW data, Downloaded(d, data)
  PROVE  HeldInv'
<1> SUFFICES ASSUME NEW q \in Requests
             PROVE  Blocks(q)' + Timed(q)' + Waiting(q)' + Queued(q)' + Called(q)'
                      = IF asked'[q] = NoRange THEN 0 ELSE 1
  BY DEF HeldInv
<1> DEFINE held == pendingCallbacks[d]
           write == [offset |-> d.start, data |-> data, waiting |-> held, notify |-> TRUE]
<1>1. /\ routerQueue # <<>> /\ Head(routerQueue) = DownloadedBlock(d, data)
      /\ routerQueue' = Tail(routerQueue)
      /\ pendingCallbacks' = [pendingCallbacks EXCEPT ![d] = {}]
      /\ UNCHANGED <<asked, retryTimers, replies>>
      /\ \/ data # <<>> /\ ioQueue' = Append(ioQueue, write) /\ UNCHANGED mainQueue
         \/ data = <<>> /\ Dispatch(held, data) /\ UNCHANGED ioQueue
  BY DEF Downloaded
<1>2. Blocks(q)' = Blocks(q)
  <2>1. Blocks(q) = Blocks(q)' + (IF Head(routerQueue) \in {GetBlock(q)} THEN 1 ELSE 0)
    BY <1>1, BlocksChange DEF HeldInv
  <2>2. Head(routerQueue) \notin {GetBlock(q)}
    BY <1>1, BlocksThatHold
  <2>3. Blocks(q)' \in Nat
    BY CountInType DEF Blocks, TypeOK
  <2> QED
    BY <2>1, <2>2, <2>3
<1>3. Waiting(q)' + (IF q \in held THEN 1 ELSE 0) = Waiting(q) /\ Waiting(q)' \in Nat
  <2> DEFINE list == {}
  <2>0. /\ list \in SUBSET Requests
        /\ pendingCallbacks' = [pendingCallbacks EXCEPT ![d] = list]
        /\ q \notin list
    BY <1>1
  <2> HIDE DEF list
  <2>1. Waiting(q)' + (IF q \in held THEN 1 ELSE 0) = Waiting(q) + (IF q \in list THEN 1 ELSE 0)
    BY <2>0, WaitingChange DEF HeldInv
  <2>2. Waiting(q) \in Nat /\ Waiting(q)' \in Nat
    BY HeldAreNatural, HeldStayNatural DEF HeldInv
  <2> QED
    BY <2>0, <2>1, <2>2
<1>4. Queued(q)' + Called(q)' = Queued(q) + Called(q) + (IF q \in held THEN 1 ELSE 0)
  <2>1. data \in Seq(Cell) /\ d.start + Len(data) - 1 <= LastByte
    BY <1>1, RouterAssumption, DownloadedFits DEF HeldInv, TypeOK
  <2>2. Queued(q) \in Nat /\ Called(q) \in Nat
    BY HeldAreNatural DEF HeldInv
  <2>3. CASE data # <<>> /\ ioQueue' = Append(ioQueue, write) /\ UNCHANGED mainQueue
    <3>1. d.start \in Offset /\ held \in SUBSET Requests
      BY LengthType, RouterAssumption DEF HeldInv, TypeOK
    <3>2. write \in Write
      BY <2>1, <2>3, <3>1 DEF Write
    <3>3. write \in WritesFor(q) <=> q \in held
      BY <3>2 DEF WritesFor
    <3> HIDE DEF write
    <3>4. Queued(q)' = Queued(q) + (IF write \in WritesFor(q) THEN 1 ELSE 0)
      BY <2>3, <3>2, CountInAppend DEF Queued, HeldInv, TypeOK
    <3>5. Called(q)' = Called(q)
      BY <1>1, <2>3 DEF Called
    <3> QED
      BY <2>2, <3>3, <3>4, <3>5
  <2>4. CASE data = <<>> /\ Dispatch(held, data) /\ UNCHANGED ioQueue
    <3>1. Called(q)' = Called(q) + (IF q \in held THEN 1 ELSE 0)
      BY <1>1, <2>1, <2>4, CalledChange DEF HeldInv
    <3>2. Queued(q)' = Queued(q)
      BY <2>4 DEF Queued
    <3> QED
      BY <2>2, <3>1, <3>2
  <2> QED
    BY <1>1, <2>3, <2>4
<1>5. Timed(q)' = Timed(q) /\ asked' = asked
  BY <1>1 DEF Timed
<1>6. /\ Blocks(q) + Timed(q) + Waiting(q) + Queued(q) + Called(q)
           = IF asked[q] = NoRange THEN 0 ELSE 1
      /\ Blocks(q) \in Nat /\ Timed(q) \in Nat /\ Queued(q) \in Nat /\ Called(q) \in Nat
  BY HeldAreNatural DEF HeldInv
<1>7. Queued(q)' \in Nat /\ Called(q)' \in Nat
  BY HeldStayNatural
<1> HIDE DEF held
<1> QED
  BY <1>2, <1>3, <1>4, <1>5, <1>6, <1>7

(* A task completes: its blocks and writes hold no completion. *)
LEMMA HeldRespond ==
  ASSUME HeldInv, TypeOK', NEW d \in CacheRange, NEW data \in Responses(d),
         Respond(d, data)
  PROVE  HeldInv'
<1> DEFINE Calls(who) == Count(callbackPool[d], LAMBDA w : w = who)
           n == Calls("router")
           m == IF data = <<>> THEN 0 ELSE Calls("preload")
           block == DownloadedBlock(d, data)
           write == [offset |-> d.start, data |-> data, waiting |-> {}, notify |-> FALSE]
           blocks == [i \in 1 .. n |-> block]
           writes == [i \in 1 .. m |-> write]
<1>1. /\ routerQueue' = routerQueue \o blocks
      /\ ioQueue' = ioQueue \o writes
      /\ UNCHANGED <<asked, retryTimers, pendingCallbacks, mainQueue, replies>>
  BY DEF Respond
<1>2. n \in Nat /\ m \in Nat
  <2>1. callbackPool[d] \in Seq({"router", "preload"})
    BY DEF HeldInv, TypeOK
  <2>2. Calls("router") \in Nat /\ Calls("preload") \in Nat
    BY <2>1, CountType DEF Count
  <2> QED
    BY <2>2
<1>3. block \in RouterBlock
  BY ResponsesType, BlockTypes
<1>4. data # <<>> => write \in Write
  <2>1. data \in Seq(Cell) /\ Len(data) <= Length(d)
    BY ResponsesType
  <2>2. d.start + Len(data) - 1 <= LastByte
    BY <2>1, LengthType, LenProperties, LastByteAssumption DEF Offset
  <2> QED
    BY <2>1, <2>2, LengthType DEF Write
<1>5. m # 0 => data # <<>>
  OBVIOUS
<1>6. \A q \in Requests : write \notin WritesFor(q) /\ block \notin {GetBlock(q)}
  BY BlocksThatHold DEF WritesFor
<1> HIDE DEF Calls, n, m, block, write
<1>7. /\ blocks \in Seq(RouterBlock) /\ \A i \in 1 .. Len(blocks) : blocks[i] = block
      /\ writes \in Seq(Write) /\ \A i \in 1 .. Len(writes) : writes[i] = write
  BY <1>2, <1>3, <1>4, <1>5
<1> HIDE DEF blocks, writes
<1>8. routerQueue \in Seq(RouterBlock) /\ ioQueue \in Seq(Write)
  BY DEF HeldInv, TypeOK
<1>9. ASSUME NEW q \in Requests
      PROVE  Blocks(q)' + Timed(q)' + Waiting(q)' + Queued(q)' + Called(q)'
               = IF asked'[q] = NoRange THEN 0 ELSE 1
  <2>1. Blocks(q)' = Blocks(q) + (IF block \in {GetBlock(q)} THEN Len(blocks) ELSE 0)
    <3> DEFINE S == {GetBlock(q)}
    <3> HIDE DEF S
    <3>1. CountIn(routerQueue \o blocks, S)
            = CountIn(routerQueue, S) + (IF block \in S THEN Len(blocks) ELSE 0)
      BY <1>7, <1>8, CountInRepeat
    <3> QED
      BY <1>1, <3>1 DEF Blocks, S
  <2>2. Queued(q)' = Queued(q) + (IF write \in WritesFor(q) THEN Len(writes) ELSE 0)
    <3> DEFINE S == WritesFor(q)
    <3>1. Queued(q) = CountIn(ioQueue, S) /\ Queued(q)' = CountIn(ioQueue \o writes, S)
      BY <1>1 DEF Queued, WritesFor
    <3> HIDE DEF S
    <3>2. CountIn(ioQueue \o writes, S)
            = CountIn(ioQueue, S) + (IF write \in S THEN Len(writes) ELSE 0)
      BY <1>7, <1>8, CountInRepeat
    <3>3. Queued(q)' = Queued(q) + (IF write \in S THEN Len(writes) ELSE 0)
      BY <3>1, <3>2
    <3> QED
      BY <3>3 DEF S
  <2>3. Timed(q)' = Timed(q) /\ Waiting(q)' = Waiting(q) /\ Called(q)' = Called(q)
    BY <1>1 DEF Timed, Waiting, WaitsFor, Called
  <2>4. Blocks(q) + Timed(q) + Waiting(q) + Queued(q) + Called(q)
          = IF asked[q] = NoRange THEN 0 ELSE 1
    BY DEF HeldInv
  <2>5. Blocks(q) \in Nat /\ Queued(q) \in Nat
    BY HeldAreNatural DEF HeldInv
  <2>6. Blocks(q)' = Blocks(q) /\ Queued(q)' = Queued(q) /\ asked' = asked
    BY <1>1, <1>6, <2>1, <2>2, <2>5
  <2> QED
    BY <2>3, <2>4, <2>6
<1> QED
  BY <1>9 DEF HeldInv

(* ioQueue writes a chunk and calls those who waited for it. *)
LEMMA HeldWriteData ==
  ASSUME HeldInv, TypeOK', WriteData
  PROVE  HeldInv'
<1> DEFINE w == Head(ioQueue)
<1>1. /\ ioQueue # <<>> /\ ioQueue' = Tail(ioQueue)
      /\ Dispatch(w.waiting, w.data)
      /\ routerQueue' = Append(routerQueue, FlushedBlock) \/ routerQueue' = routerQueue
      /\ UNCHANGED <<asked, retryTimers, pendingCallbacks, replies>>
  BY DEF WriteData
<1>2. ioQueue \in Seq(Write) /\ w \in Write
  BY HeadTailProperties DEF HeldInv, TypeOK, WriteData
<1>3. w.data \in Seq(Cell) /\ \A q : w \in WritesFor(q) <=> q \in w.waiting
  BY <1>2 DEF Write, WritesFor
<1> HIDE DEF w
<1>4. ASSUME NEW q \in Requests
      PROVE  Blocks(q)' + Timed(q)' + Waiting(q)' + Queued(q)' + Called(q)'
               = IF asked'[q] = NoRange THEN 0 ELSE 1
  <2>1. Called(q)' = Called(q) + (IF q \in w.waiting THEN 1 ELSE 0)
    BY <1>1, <1>3, CalledChange DEF HeldInv
  <2>2. Queued(q) = Queued(q)' + (IF w \in WritesFor(q) THEN 1 ELSE 0)
    BY <1>1, <1>2, CountInTail DEF Queued, w
  <2>3. Blocks(q)' = Blocks(q)
    <3>1. CASE routerQueue' = Append(routerQueue, FlushedBlock)
      <4>1. Blocks(q)' = Blocks(q) + (IF FlushedBlock \in {GetBlock(q)} THEN 1 ELSE 0)
        BY <3>1, BlocksChange, BlockTypes DEF HeldInv
      <4> QED
        BY <4>1, BlocksThatHold, HeldAreNatural DEF HeldInv
    <3>2. CASE routerQueue' = routerQueue
      BY <3>2 DEF Blocks
    <3> QED
      BY <1>1, <3>1, <3>2
  <2>4. Timed(q)' = Timed(q) /\ Waiting(q)' = Waiting(q) /\ asked' = asked
    BY <1>1 DEF Timed, Waiting, WaitsFor
  <2>5. Blocks(q) + Timed(q) + Waiting(q) + Queued(q) + Called(q)
          = IF asked[q] = NoRange THEN 0 ELSE 1
    BY DEF HeldInv
  <2>6. /\ Blocks(q) \in Nat /\ Timed(q) \in Nat /\ Waiting(q) \in Nat
        /\ Queued(q)' \in Nat /\ Called(q) \in Nat
    BY HeldAreNatural, HeldStayNatural DEF HeldInv
  <2>7. w \in WritesFor(q) <=> q \in w.waiting
    BY <1>3
  <2> QED
    BY <2>1, <2>2, <2>3, <2>4, <2>5, <2>6, <2>7
<1> QED
  BY <1>4 DEF HeldInv

(* The follow-up of a write holds no completion. *)
LEMMA HeldFlushed ==
  ASSUME HeldInv, TypeOK', Flushed
  PROVE  HeldInv'
<1> SUFFICES ASSUME NEW q \in Requests
             PROVE  Blocks(q)' + Timed(q)' + Waiting(q)' + Queued(q)' + Called(q)'
                      = IF asked'[q] = NoRange THEN 0 ELSE 1
  BY DEF HeldInv
<1>1. Blocks(q)' = Blocks(q)
  <2>1. Blocks(q) = Blocks(q)' + (IF Head(routerQueue) \in {GetBlock(q)} THEN 1 ELSE 0)
    BY BlocksChange DEF Flushed, HeldInv
  <2>2. Head(routerQueue) \notin {GetBlock(q)}
    BY BlocksThatHold DEF Flushed
  <2> QED
    BY <2>1, <2>2, HeldStayNatural
<1>2. /\ Timed(q)' = Timed(q) /\ Waiting(q)' = Waiting(q)
      /\ Queued(q)' = Queued(q) /\ Called(q)' = Called(q) /\ asked' = asked
  BY DEF Flushed, Timed, Waiting, WaitsFor, Queued, Called
<1>3. Blocks(q) + Timed(q) + Waiting(q) + Queued(q) + Called(q)
        = IF asked[q] = NoRange THEN 0 ELSE 1
  BY DEF HeldInv
<1> QED
  BY <1>1, <1>2, <1>3

(* In an app just started no request has been made. *)
LEMMA HeldNothing ==
  /\ Init => HeldInv
  /\ HeldInv /\ TypeOK' /\ Restart => HeldInv'
<1>1. ASSUME Init PROVE HeldInv
  <2>1. /\ \A r \in Requests :
             asked[r] = NoRange /\ mainQueue[r] = <<>> /\ replies[r] = <<>>
        /\ \A d \in Wanted : pendingCallbacks[d] = {}
        /\ routerQueue = <<>> /\ ioQueue = <<>> /\ retryTimers = {}
    BY <1>1 DEF Init
  <2>2. ASSUME NEW r \in Requests
        PROVE  /\ Blocks(r) = 0 /\ Timed(r) = 0 /\ Waiting(r) = 0
               /\ Queued(r) = 0 /\ Called(r) = 0 /\ asked[r] = NoRange
    <3>1. WaitsFor(r) = {}
      BY <2>1 DEF WaitsFor
    <3>2. Called(r) = 0
      <4>1. Len(<<>>) = 0
        BY EmptySeq
      <4>2. mainQueue[r] = <<>> /\ replies[r] = <<>>
        BY <2>1
      <4>3. Called(r) = Len(<<>>) + Len(<<>>)
        BY <4>2 DEF Called
      <4> QED
        BY <4>1, <4>3
    <3> QED
      BY <2>1, <3>1, <3>2, CountInEmpty, FS_EmptySet DEF Blocks, Timed, Waiting, Queued
  <2>3. ASSUME NEW r \in Requests
        PROVE  Blocks(r) + Timed(r) + Waiting(r) + Queued(r) + Called(r)
                 = IF asked[r] = NoRange THEN 0 ELSE 1
    <3>1. /\ Blocks(r) = 0 /\ Timed(r) = 0 /\ Waiting(r) = 0
          /\ Queued(r) = 0 /\ Called(r) = 0 /\ asked[r] = NoRange
      BY <2>2
    <3> QED
      BY <3>1
  <2> QED
    BY <1>1, <2>3, TypeInit DEF HeldInv
<1>2. ASSUME TypeOK', Restart PROVE HeldInv'
  <2>1. /\ \A r \in Requests :
             asked'[r] = NoRange /\ mainQueue'[r] = <<>> /\ replies'[r] = <<>>
        /\ \A d \in Wanted : pendingCallbacks'[d] = {}
        /\ routerQueue' = <<>> /\ ioQueue' = <<>> /\ retryTimers' = {}
    BY <1>2 DEF Restart
  <2>2. ASSUME NEW r \in Requests
        PROVE  /\ Blocks(r)' = 0 /\ Timed(r)' = 0 /\ Waiting(r)' = 0
               /\ Queued(r)' = 0 /\ Called(r)' = 0 /\ asked'[r] = NoRange
    <3>1. WaitsFor(r)' = {}
      BY <2>1 DEF WaitsFor
    <3>2. Called(r)' = 0
      <4>1. Len(<<>>) = 0
        BY EmptySeq
      <4>2. mainQueue'[r] = <<>> /\ replies'[r] = <<>>
        BY <2>1
      <4>3. Called(r)' = Len(<<>>) + Len(<<>>)
        BY <4>2 DEF Called
      <4> QED
        BY <4>1, <4>3
    <3> QED
      BY <2>1, <3>1, <3>2, CountInEmpty, FS_EmptySet DEF Blocks, Timed, Waiting, Queued
  <2>3. ASSUME NEW r \in Requests
        PROVE  Blocks(r)' + Timed(r)' + Waiting(r)' + Queued(r)' + Called(r)'
                 = IF asked'[r] = NoRange THEN 0 ELSE 1
    <3>1. /\ Blocks(r)' = 0 /\ Timed(r)' = 0 /\ Waiting(r)' = 0
          /\ Queued(r)' = 0 /\ Called(r)' = 0 /\ asked'[r] = NoRange
      BY <2>2
    <3> QED
      BY <3>1
  <2> QED
    BY <1>2, <2>3 DEF HeldInv
<1> QED
  BY <1>1, <1>2

(* Every step keeps each completion in one place. *)
LEMMA HeldStep == HeldInv /\ [Next]_vars => HeldInv'
<1> SUFFICES ASSUME HeldInv, [Next]_vars PROVE HeldInv'
  OBVIOUS
<1>0. TypeOK'
  BY TypeStep DEF HeldInv
<1>1. CASE RunRouter
  BY <1>0, <1>1, HeldGetting, HeldDownloaded, HeldFlushed DEF RunRouter
<1>2. ASSUME UNCHANGED <<asked, routerQueue, retryTimers, pendingCallbacks, ioQueue,
                         mainQueue, replies>>
      PROVE  HeldInv'
  BY <1>0, <1>2 DEF HeldInv, Blocks, Timed, Waiting, WaitsFor, Queued, Called
<1>3. \/ \E i \in {1, 2} : RunPreload(i)
      \/ Download
      \/ \E o \in Offset : Evict(o)
      \/ CleanSong
      \/ PlaySong
      \/ UNCHANGED vars
      => UNCHANGED <<asked, routerQueue, retryTimers, pendingCallbacks, ioQueue,
                     mainQueue, replies>>
  BY DEF RunPreload, Download, Evict, CleanSong, PlaySong, vars
<1> QED
  BY <1>0, <1>1, <1>2, <1>3, HeldSubmit, HeldRespond, HeldWriteData,
     HeldCallCompletion, HeldNothing DEF Next

(* AVPlayer's completion is held in exactly one place from the request     *)
(* until it is called, and is called at most once: through every hand-over *)
(* between the queues, every join, every retry and every restart.          *)
THEOREM CompletionsHeldOnce == Spec => []CompletionHeldOnce
BY HeldNothing, HeldStep, HeldCounted, PTL DEF Spec

----------------------------------------------------------------------------
(* What the data of a completion stands on.  A request waits only for the  *)
(* range it asked for, in the table and in the writes queued.              *)
OwnWrite == {w \in Write : \A r \in w.waiting :
               asked[r] \in Wanted /\ asked[r].start = w.offset}

WaitInv ==
  /\ TypeOK
  /\ \A d \in Wanted : \A r \in pendingCallbacks[d] : asked[r] = d
  /\ ioQueue \in Seq(OwnWrite)

(* Nobody who waits has not asked yet. *)
LEMMA WaitersHaveAsked ==
  ASSUME WaitInv, NEW r \in Requests, NEW e, asked[r] = NoRange,
         asked' = [asked EXCEPT ![r] = e],
         UNCHANGED <<pendingCallbacks, ioQueue>>
  PROVE  /\ \A d \in Wanted : \A q \in pendingCallbacks'[d] : asked'[q] = d
         /\ ioQueue' \in Seq(OwnWrite')
<1>1. NoRange \notin Wanted
  BY RouterAssumption
<1>2. asked \in [Requests -> Wanted \cup {NoRange}]
  BY DEF WaitInv, TypeOK
<1>3. ASSUME NEW d \in Wanted, NEW q \in pendingCallbacks[d]
      PROVE  asked'[q] = d
  <2>1. asked[q] = d
    BY DEF WaitInv
  <2>2. q # r
    BY <1>1, <2>1
  <2> QED
    BY <1>2, <2>1, <2>2
<1>4. ASSUME NEW w \in OwnWrite PROVE w \in OwnWrite'
  <2>1. w \in Write /\ \A q \in w.waiting : asked[q] \in Wanted /\ asked[q].start = w.offset
    BY DEF OwnWrite
  <2>2. \A q \in w.waiting : q # r
    BY <1>1, <2>1
  <2>3. w.waiting \subseteq Requests
    BY <2>1 DEF Write
  <2>4. \A q \in w.waiting : asked'[q] = asked[q]
    BY <1>2, <2>2, <2>3
  <2> QED
    BY <2>1, <2>4 DEF OwnWrite
<1>5. ioQueue \in Seq(OwnWrite) /\ OwnWrite \subseteq OwnWrite'
  BY <1>4 DEF WaitInv
<1>6. ioQueue \in Seq(OwnWrite')
  <2> DEFINE U == OwnWrite'
  <2> HIDE DEF U
  <2>1. ioQueue \in Seq(OwnWrite) /\ OwnWrite \subseteq U
    BY <1>5 DEF U
  <2>2. ioQueue \in Seq(U)
    BY <2>1
  <2> QED
    BY <2>2 DEF U
<1> QED
  BY <1>3, <1>6

(* A step that changes neither who waits nor what was asked. *)
LEMMA WaitersUntouched ==
  ASSUME WaitInv, UNCHANGED <<asked, pendingCallbacks>>,
         ioQueue' \in Seq(OwnWrite)
  PROVE  /\ \A d \in Wanted : \A q \in pendingCallbacks'[d] : asked'[q] = d
         /\ ioQueue' \in Seq(OwnWrite')
<1>1. OwnWrite' = OwnWrite
  BY DEF OwnWrite
<1> QED
  BY <1>1 DEF WaitInv

(* Joining, and starting a download, put the request where it asked to be. *)
LEMMA WaitersGetting ==
  ASSUME WaitInv, NEW r \in Requests, NEW d \in Wanted,
         JoinPending(r, d) \/ StartDownload(r, d)
  PROVE  /\ \A e \in Wanted : \A q \in pendingCallbacks'[e] : asked'[q] = e
         /\ ioQueue' \in Seq(OwnWrite')
<1>1. /\ asked[r] = d
      /\ UNCHANGED <<asked, ioQueue>>
      /\ \/ pendingCallbacks' = [pendingCallbacks EXCEPT ![d] = @ \cup {r}]
         \/ pendingCallbacks' = [pendingCallbacks EXCEPT ![d] = {r}]
  BY DEF JoinPending, StartDownload, Getting
<1>2. pendingCallbacks \in [Wanted -> SUBSET Requests]
  BY DEF WaitInv, TypeOK
<1>3. ASSUME NEW e \in Wanted, NEW q \in pendingCallbacks'[e]
      PROVE  asked'[q] = e
  <2>1. q \in pendingCallbacks[e] \/ (q = r /\ e = d)
    BY <1>1, <1>2
  <2> QED
    BY <1>1, <2>1 DEF WaitInv
<1>4. OwnWrite' = OwnWrite
  BY <1>1 DEF OwnWrite
<1> QED
  BY <1>1, <1>3, <1>4 DEF WaitInv

(* The end of a download hands those who wait to the write of their data.  *)
LEMMA WaitersDownloaded ==
  ASSUME WaitInv, TypeOK', NEW d \in Wanted, NEW data, Downloaded(d, data)
  PROVE  /\ \A e \in Wanted : \A q \in pendingCallbacks'[e] : asked'[q] = e
         /\ ioQueue' \in Seq(OwnWrite')
<1> DEFINE w == [offset |-> d.start, data |-> data,
                 waiting |-> pendingCallbacks[d], notify |-> TRUE]
<1>1. /\ asked' = asked
      /\ pendingCallbacks' = [pendingCallbacks EXCEPT ![d] = {}]
      /\ ioQueue' = IF data # <<>> THEN Append(ioQueue, w) ELSE ioQueue
  BY DEF Downloaded
<1>2. pendingCallbacks \in [Wanted -> SUBSET Requests] /\ ioQueue \in Seq(OwnWrite)
  BY DEF WaitInv, TypeOK
<1>3. ASSUME NEW e \in Wanted, NEW q \in pendingCallbacks'[e]
      PROVE  asked'[q] = e
  <2>1. q \in pendingCallbacks[e]
    BY <1>1, <1>2
  <2> QED
    BY <1>1, <2>1 DEF WaitInv
<1>4. data # <<>> => w \in OwnWrite
  <2> SUFFICES ASSUME data # <<>> PROVE w \in OwnWrite
    OBVIOUS
  <2>1. /\ d \in CacheRange /\ d.start \in Offset
        /\ data \in Seq(Cell) /\ d.start + Len(data) - 1 <= LastByte
    <3>1. /\ routerQueue \in Seq(RouterBlock) /\ routerQueue # <<>>
          /\ Head(routerQueue) = DownloadedBlock(d, data)
      BY DEF Downloaded, WaitInv, TypeOK
    <3> QED
      BY <3>1, RouterAssumption, LengthType, DownloadedFits
  <2>2. w \in Write
    BY <1>2, <2>1 DEF Write
  <2>3. \A r \in pendingCallbacks[d] : asked[r] = d
    BY DEF WaitInv
  <2> QED
    BY <2>2, <2>3 DEF OwnWrite
<1>5. OwnWrite' = OwnWrite
  BY <1>1 DEF OwnWrite
<1> HIDE DEF w
<1>6. ioQueue' \in Seq(OwnWrite)
  BY <1>1, <1>2, <1>4
<1> QED
  BY <1>3, <1>5, <1>6

(* Nobody waits for a preload's write. *)
LEMMA WaitersRespond ==
  ASSUME WaitInv, TypeOK', NEW d \in CacheRange, NEW data \in Responses(d),
         Respond(d, data)
  PROVE  /\ \A e \in Wanted : \A q \in pendingCallbacks'[e] : asked'[q] = e
         /\ ioQueue' \in Seq(OwnWrite')
<1> DEFINE n == IF data = <<>> THEN 0
                ELSE Count(callbackPool[d], LAMBDA who : who = "preload")
           w == [offset |-> d.start, data |-> data, waiting |-> {},
                 notify |-> FALSE]
           u == [i \in 1 .. n |-> w]
<1>1. ioQueue' = ioQueue \o u /\ UNCHANGED <<asked, pendingCallbacks>>
  BY DEF Respond
<1>2. n \in Nat /\ (n # 0 => data # <<>>)
  <2>1. callbackPool[d] \in Seq({"router", "preload"})
    BY DEF WaitInv, TypeOK
  <2> QED
    BY <2>1, CountType DEF Count
<1>3. /\ d.start \in Offset /\ data \in Seq(Cell)
      /\ d.start + Len(data) - 1 <= LastByte
  <2>1. data \in Seq(Cell) /\ Len(data) <= Length(d)
    BY ResponsesType
  <2> QED
    BY <2>1, LengthType, LenProperties, LastByteAssumption DEF Offset
<1>4. n # 0 => w \in OwnWrite
  BY <1>2, <1>3 DEF Write, OwnWrite
<1> HIDE DEF n, w
<1>5. u \in Seq(OwnWrite)
  BY <1>2, <1>4
<1> HIDE DEF u
<1>6. ioQueue' \in Seq(OwnWrite)
  BY <1>1, <1>5, ConcatProperties DEF WaitInv
<1> QED
  BY <1>1, <1>6, WaitersUntouched

(* Every step keeps those who wait with what they asked for. *)
LEMMA WaitStep == WaitInv /\ [Next]_vars => WaitInv'
<1> SUFFICES ASSUME WaitInv, [Next]_vars PROVE WaitInv'
  OBVIOUS
<1> DEFINE Own == /\ \A d \in Wanted : \A q \in pendingCallbacks'[d] : asked'[q] = d
                  /\ ioQueue' \in Seq(OwnWrite')
           Same == UNCHANGED <<asked, pendingCallbacks, ioQueue>>
<1>1. TypeOK'
  BY TypeStep DEF WaitInv
<1>2. ASSUME Same PROVE Own
  BY <1>2, WaitersUntouched DEF WaitInv
<1>3. ASSUME RunRouter PROVE Own
  <2>1. ASSUME NEW r \in Requests, NEW d \in Wanted,
               \/ AnswerFromMemory(r, d)
               \/ AnswerFromDisk(r, d)
               \/ RetryLater(r, d)
        PROVE  Same
    BY <2>1 DEF AnswerFromMemory, AnswerFromDisk, RetryLater
  <2>2. ASSUME NEW r \in Requests, NEW d \in Wanted,
               JoinPending(r, d) \/ StartDownload(r, d)
        PROVE  Own
    BY <2>2, WaitersGetting
  <2>3. ASSUME NEW d \in Wanted, NEW data, Downloaded(d, data) PROVE Own
    BY <1>1, <2>3, WaitersDownloaded
  <2>4. Flushed => Same
    BY DEF Flushed
  <2> HIDE DEF Own, Same
  <2> QED
    BY <1>2, <1>3, <2>1, <2>2, <2>3, <2>4 DEF RunRouter
<1>4. ASSUME NEW r \in Requests, NEW d \in Wanted, GetData(r, d) PROVE Own
  BY <1>4, WaitersHaveAsked DEF GetData
<1>5. ASSUME NEW r \in Requests, Retry(r) PROVE Same
  BY <1>5 DEF Retry
<1>6. ASSUME NEW i \in {1, 2}, RunPreload(i) PROVE Same
  BY <1>6 DEF RunPreload
<1>7. ASSUME NEW d \in CacheRange, NEW data \in Responses(d), Respond(d, data)
      PROVE  Own
  BY <1>1, <1>7, WaitersRespond
<1>8. ASSUME WriteData PROVE Own
  <2>1. ioQueue' \in Seq(OwnWrite)
    BY <1>8, HeadTailProperties DEF WriteData, WaitInv
  <2> QED
    BY <1>8, <2>1, WaitersUntouched DEF WriteData
<1>9. ASSUME NEW o \in Offset, Evict(o) PROVE Same
  BY <1>9 DEF Evict
<1>10. \/ Download \/ CleanSong \/ PlaySong \/ UNCHANGED vars
       \/ \E r \in Requests : CallCompletion(r)
       => Same
  BY DEF Download, CleanSong, PlaySong, CallCompletion, vars
<1>11. ASSUME Restart PROVE Own
  <2>1. pendingCallbacks' = [d \in Wanted |-> {}] /\ ioQueue' = <<>>
    BY <1>11 DEF Restart
  <2> QED
    BY <2>1
<1> HIDE DEF Own, Same
<1>12. Own
  BY <1>2, <1>3, <1>4, <1>5, <1>6, <1>7, <1>8, <1>9, <1>10, <1>11 DEF Next
<1> QED
  BY <1>1, <1>12 DEF WaitInv, Own

(* The induction the theorem below rests on. *)
LEMMA WaitInvariance == Spec => []WaitInv
<1>1. Init => WaitInv
  <2> SUFFICES ASSUME Init PROVE WaitInv
    OBVIOUS
  <2>1. pendingCallbacks = [d \in Wanted |-> {}] /\ ioQueue = <<>>
    BY DEF Init
  <2> QED
    BY <2>1, TypeInit DEF WaitInv
<1> QED
  BY <1>1, WaitStep, PTL DEF Spec

(* Data that begins at the offset o and lies in the bytes of the ranges m. *)
IndexedBy(m, o) ==
  {data \in Seq(Cell) : \A i \in DOMAIN data : o + i - 1 \in Bytes(m)}

IndexedWrite(m) == {w \in Write : w.data \in IndexedBy(m, w.offset)}

(* Whatever is cached in memory, queued for the file, or on its way to a   *)
(* completion lies where the index has recorded it.  With IndexBacked this *)
(* is ServedIsBacked: the memory cache may have dropped the data since.    *)
IndexedInv ==
  /\ \A o \in Offset : memory[o] \in IndexedBy(map, o)
  /\ ioQueue \in Seq(IndexedWrite(map))
  /\ \A r \in Requests :
       /\ mainQueue[r] \in Seq(IndexedBy(map, asked[r].start))
       /\ replies[r] \in Seq(IndexedBy(map, asked[r].start))

(* Nothing leaves these sets as the index records more. *)
LEMMA IndexedGrows ==
  ASSUME NEW m, NEW n, Bytes(m) \subseteq Bytes(n)
  PROVE  /\ \A o : IndexedBy(m, o) \subseteq IndexedBy(n, o)
         /\ \A o : Seq(IndexedBy(m, o)) \subseteq Seq(IndexedBy(n, o))
         /\ Seq(IndexedWrite(m)) \subseteq Seq(IndexedWrite(n))
<1>1. \A S, T : S \subseteq T => Seq(S) \subseteq Seq(T)
  OBVIOUS
<1>2. \A o : IndexedBy(m, o) \subseteq IndexedBy(n, o)
  BY DEF IndexedBy
<1>3. IndexedWrite(m) \subseteq IndexedWrite(n)
  BY <1>2 DEF IndexedWrite
<1> QED
  BY <1>1, <1>2, <1>3

(* What is recorded with data that fits the range. *)
LEMMA IndexedNew ==
  ASSUME map \subseteq CacheRange, NEW e \in CacheRange,
         NEW data \in Seq(Cell), Len(data) <= Length(e)
  PROVE  /\ Bytes(map) \subseteq Bytes(Merged(map, e))
         /\ data \in IndexedBy(Merged(map, e), e.start)
<1>1. Bytes(Merged(map, e)) = Bytes(map) \cup (e.start .. e.end)
  BY MergedBytes
<1>2. \A i \in DOMAIN data : e.start + i - 1 \in e.start .. e.end
  <2>1. /\ Len(data) \in Nat /\ DOMAIN data = 1 .. Len(data)
        /\ e.start \in Nat /\ e.end \in Nat
    BY LenProperties, LastByteAssumption DEF CacheRange, Offset
  <2> QED
    BY <2>1 DEF Length
<1> QED
  BY <1>1, <1>2 DEF IndexedBy

(* What is recorded with the extent of the data. *)
LEMMA IndexedExtent ==
  ASSUME map \subseteq CacheRange, NEW o \in Offset, NEW data \in Seq(Cell),
         data # <<>>, o + Len(data) - 1 <= LastByte
  PROVE  /\ Bytes(map) \subseteq Bytes(Merged(map, Extent(o, data)))
         /\ data \in IndexedBy(Merged(map, Extent(o, data)), o)
<1> DEFINE e == Extent(o, data)
<1>1. e \in CacheRange
  BY ExtentType
<1>2. e.start = o /\ Len(data) = Length(e)
  <2>1. Len(data) \in Nat /\ o \in Nat
    BY LenProperties, LastByteAssumption DEF Offset
  <2>2. e.start = o /\ e.end = o + Len(data) - 1
    BY DEF Extent, RangeOf
  <2> HIDE DEF e
  <2> QED
    BY <2>1, <2>2 DEF Length
<1>3. Len(data) <= Length(e)
  BY <1>2, LenProperties
<1> HIDE DEF e
<1>4. /\ Bytes(map) \subseteq Bytes(Merged(map, e))
      /\ data \in IndexedBy(Merged(map, e), e.start)
  BY <1>1, <1>3, IndexedNew
<1> QED
  BY <1>2, <1>4 DEF e

(* Data that lies where each request asked for it is dispatched. *)
LEMMA IndexedDispatch ==
  ASSUME TypeOK, NEW m, NEW waiting, NEW data, Dispatch(waiting, data),
         \A r \in waiting : data \in IndexedBy(m, asked[r].start),
         \A r \in Requests : mainQueue[r] \in Seq(IndexedBy(m, asked[r].start))
  PROVE  \A r \in Requests : mainQueue'[r] \in Seq(IndexedBy(m, asked[r].start))
<1> SUFFICES ASSUME NEW r \in Requests
             PROVE  mainQueue'[r] \in Seq(IndexedBy(m, asked[r].start))
  OBVIOUS
<1> DEFINE S == IndexedBy(m, asked[r].start)
<1>1. mainQueue[r] \in Seq(S) /\ (r \in waiting => data \in S)
  OBVIOUS
<1>2. mainQueue'[r] = IF r \in waiting THEN Append(mainQueue[r], data)
                      ELSE mainQueue[r]
  BY DEF Dispatch
<1> HIDE DEF S
<1>3. mainQueue'[r] \in Seq(S)
  BY <1>1, <1>2, AppendProperties
<1> QED
  BY <1>3 DEF S

(* The index records no less, and what was there stays where it is. *)
Kept(m) ==
  /\ \A o \in Offset : memory[o] \in IndexedBy(m, o)
  /\ ioQueue \in Seq(IndexedWrite(m))
  /\ \A r \in Requests :
       /\ mainQueue[r] \in Seq(IndexedBy(m, asked[r].start))
       /\ replies[r] \in Seq(IndexedBy(m, asked[r].start))

LEMMA IndexedKept ==
  ASSUME IndexedInv, NEW m, Bytes(map) \subseteq Bytes(m)
  PROVE  Kept(m)
BY IndexedGrows DEF IndexedInv, Kept

(* What a step must show: the invariant of the next state. *)
Indexed ==
  /\ \A o \in Offset : memory'[o] \in IndexedBy(map', o)
  /\ ioQueue' \in Seq(IndexedWrite(map'))
  /\ \A r \in Requests :
       /\ mainQueue'[r] \in Seq(IndexedBy(map', asked'[r].start))
       /\ replies'[r] \in Seq(IndexedBy(map', asked'[r].start))

(* Answers from the memory cache and from the file. *)
LEMMA IndexedAnswers ==
  ASSUME TypeOK, IndexedInv, NEW r \in Requests, NEW d \in Wanted,
         AnswerFromMemory(r, d) \/ AnswerFromDisk(r, d)
  PROVE  Indexed
<1>1. d \in CacheRange /\ d.start \in Offset /\ Length(d) \in Nat
  BY RouterAssumption, LengthType
<1>2. CASE AnswerFromMemory(r, d)
  <2>1. /\ asked[r] = d /\ Dispatch({r}, memory[d.start])
        /\ UNCHANGED <<asked, map, memory, ioQueue, replies>>
    BY <1>2 DEF AnswerFromMemory, Getting
  <2>2. Kept(map)
    BY IndexedKept
  <2>3. \A q \in {r} : memory[d.start] \in IndexedBy(map, asked[q].start)
    BY <1>1, <2>1 DEF IndexedInv
  <2>4. \A q \in Requests : mainQueue'[q] \in Seq(IndexedBy(map, asked[q].start))
    <3> DEFINE own == {r}
               data == memory[d.start]
    <3>1. Dispatch(own, data) /\ \A q \in own : data \in IndexedBy(map, asked[q].start)
      BY <2>1, <2>3
    <3> HIDE DEF own, data
    <3> QED
      BY <2>2, <3>1, IndexedDispatch DEF Kept
  <2> QED
    BY <2>1, <2>2, <2>4 DEF Kept, Indexed
<1>3. CASE AnswerFromDisk(r, d)
  <2> DEFINE data == ReadData(d.start, Length(d))
  <2>1. /\ asked[r] = d /\ Dispatch({r}, data)
        /\ memory' = [memory EXCEPT ![d.start] = data]
        /\ map' = Merged(map, d) /\ Len(data) = Length(d)
        /\ UNCHANGED <<asked, ioQueue, replies>>
    BY <1>3 DEF AnswerFromDisk, Getting, OnDisk
  <2>2. data \in Seq(Cell)
    BY <1>1, ReadDataType DEF TypeOK
  <2> HIDE DEF data
  <2>3. Len(data) <= Length(d)
    BY <1>1, <2>1
  <2>4. /\ Bytes(map) \subseteq Bytes(map')
        /\ data \in IndexedBy(map', d.start)
    BY <1>1, <2>1, <2>2, <2>3, IndexedNew DEF TypeOK
  <2>5. Kept(map')
    BY <2>4, IndexedKept
  <2>6. \A o \in Offset : memory'[o] \in IndexedBy(map', o)
    BY <2>1, <2>4, <2>5 DEF Kept, TypeOK
  <2>7. \A q \in {r} : data \in IndexedBy(map', asked[q].start)
    BY <2>1, <2>4
  <2>8. \A q \in Requests : mainQueue'[q] \in Seq(IndexedBy(map', asked[q].start))
    <3> DEFINE own == {r}
    <3>1. Dispatch(own, data) /\ \A q \in own : data \in IndexedBy(map', asked[q].start)
      BY <2>1, <2>7
    <3> HIDE DEF own
    <3> QED
      BY <2>5, <3>1, IndexedDispatch DEF Kept
  <2> QED
    BY <2>1, <2>5, <2>6, <2>8 DEF Kept, Indexed
<1> QED
  BY <1>2, <1>3

(* The end of a download. *)
LEMMA IndexedDownloaded ==
  ASSUME TypeOK, IndexedInv, NEW d \in Wanted, NEW data, Downloaded(d, data)
  PROVE  Indexed
<1>1. UNCHANGED <<asked, replies>>
  BY DEF Downloaded
<1>2. CASE data = <<>>
  <2>1. UNCHANGED <<map, memory, ioQueue>> /\ Dispatch(pendingCallbacks[d], <<>>)
    BY <1>2 DEF Downloaded
  <2>2. Kept(map)
    BY IndexedKept
  <2>3. \A q \in pendingCallbacks[d] : <<>> \in IndexedBy(map, asked[q].start)
    BY DEF IndexedBy
  <2>4. \A q \in Requests : mainQueue'[q] \in Seq(IndexedBy(map, asked[q].start))
    BY <2>1, <2>2, <2>3, IndexedDispatch DEF Kept
  <2> QED
    BY <1>1, <2>1, <2>2, <2>4 DEF Kept, Indexed
<1>3. CASE data # <<>>
  <2> DEFINE w == [offset |-> d.start, data |-> data,
                   waiting |-> pendingCallbacks[d], notify |-> TRUE]
  <2>1. /\ memory' = [memory EXCEPT ![d.start] = data]
        /\ map' = Merged(map, Extent(d.start, data))
        /\ ioQueue' = Append(ioQueue, w)
        /\ mainQueue' = mainQueue
    BY <1>3 DEF Downloaded
  <2>2. /\ d.start \in Offset
        /\ data \in Seq(Cell) /\ d.start + Len(data) - 1 <= LastByte
    <3>1. /\ routerQueue \in Seq(RouterBlock) /\ routerQueue # <<>>
          /\ Head(routerQueue) = DownloadedBlock(d, data)
      BY DEF Downloaded, TypeOK
    <3> QED
      BY <3>1, RouterAssumption, LengthType, DownloadedFits
  <2>3. Bytes(map) \subseteq Bytes(map') /\ data \in IndexedBy(map', d.start)
    BY <1>3, <2>1, <2>2, IndexedExtent DEF TypeOK
  <2>4. Kept(map')
    BY <2>3, IndexedKept
  <2>5. \A o \in Offset : memory'[o] \in IndexedBy(map', o)
    BY <2>1, <2>3, <2>4 DEF Kept, TypeOK
  <2>6. w \in IndexedWrite(map')
    <3>1. pendingCallbacks[d] \in SUBSET Requests
      BY DEF TypeOK
    <3>2. w \in Write
      BY <1>3, <2>2, <3>1 DEF Write
    <3> QED
      BY <2>3, <3>2 DEF IndexedWrite
  <2> HIDE DEF w
  <2>7. ioQueue' \in Seq(IndexedWrite(map'))
    <3> DEFINE W == IndexedWrite(map')
    <3>1. ioQueue \in Seq(W) /\ w \in W
      BY <2>4, <2>6 DEF Kept
    <3> HIDE DEF W
    <3>2. ioQueue' \in Seq(W)
      BY <2>1, <3>1, AppendProperties
    <3> QED
      BY <3>2 DEF W
  <2> QED
    BY <1>1, <2>1, <2>4, <2>5, <2>7 DEF Kept, Indexed
<1> QED
  BY <1>2, <1>3

(* A task completes, and the preloader records and caches its data. *)
LEMMA IndexedRespond ==
  ASSUME TypeOK, IndexedInv, NEW d \in CacheRange, NEW data \in Responses(d),
         Respond(d, data)
  PROVE  Indexed
<1> DEFINE n == IF data = <<>> THEN 0
                ELSE Count(callbackPool[d], LAMBDA who : who = "preload")
           w == [offset |-> d.start, data |-> data, waiting |-> {},
                 notify |-> FALSE]
           u == [i \in 1 .. n |-> w]
<1>1. /\ ioQueue' = ioQueue \o u
      /\ IF n # 0
         THEN /\ memory' = [memory EXCEPT ![d.start] = data]
              /\ map' = Merged(map, Extent(d.start, data))
         ELSE UNCHANGED <<memory, map>>
      /\ UNCHANGED <<asked, mainQueue, replies>>
  BY DEF Respond
<1>2. n \in Nat /\ (n # 0 => data # <<>>)
  <2>1. callbackPool[d] \in Seq({"router", "preload"})
    BY DEF TypeOK
  <2> QED
    BY <2>1, CountType DEF Count
<1>3. /\ d.start \in Offset /\ data \in Seq(Cell)
      /\ d.start + Len(data) - 1 <= LastByte
  <2>1. data \in Seq(Cell) /\ Len(data) <= Length(d)
    BY ResponsesType
  <2> QED
    BY <2>1, LengthType, LenProperties, LastByteAssumption DEF Offset
<1>4. w.offset = d.start /\ w.data = data /\ (n # 0 => w \in Write)
  BY <1>2, <1>3 DEF Write
<1> HIDE DEF n, w
<1>5. CASE n = 0
  <2>1. u = <<>>
    BY <1>5
  <2>2. ioQueue' = ioQueue
    BY <1>1, <2>1, ConcatEmptySeq DEF TypeOK
  <2>3. Kept(map)
    BY IndexedKept
  <2> HIDE DEF u
  <2> QED
    BY <1>1, <1>5, <2>2, <2>3 DEF Kept, Indexed
<1>6. CASE n # 0
  <2>1. Bytes(map) \subseteq Bytes(map') /\ data \in IndexedBy(map', d.start)
    BY <1>1, <1>2, <1>3, <1>6, IndexedExtent DEF TypeOK
  <2>2. Kept(map')
    BY <2>1, IndexedKept
  <2>3. \A o \in Offset : memory'[o] \in IndexedBy(map', o)
    BY <1>1, <1>6, <2>1, <2>2 DEF Kept, TypeOK
  <2>4. w \in IndexedWrite(map')
    BY <1>4, <1>6, <2>1 DEF IndexedWrite
  <2>5. ioQueue' \in Seq(IndexedWrite(map'))
    <3> DEFINE W == IndexedWrite(map')
    <3>1. ioQueue \in Seq(W) /\ w \in W
      BY <2>2, <2>4 DEF Kept
    <3> HIDE DEF W
    <3>2. u \in Seq(W)
      BY <1>2, <3>1
    <3> HIDE DEF u
    <3>3. ioQueue' \in Seq(W)
      BY <1>1, <3>1, <3>2, ConcatProperties
    <3> QED
      BY <3>3 DEF W
  <2> HIDE DEF u
  <2> QED
    BY <1>1, <2>2, <2>3, <2>5 DEF Kept, Indexed
<1> QED
  BY <1>5, <1>6

(* A write calls those who wait for it, who asked for this offset. *)
LEMMA IndexedWriteData ==
  ASSUME TypeOK, WaitInv, IndexedInv, WriteData
  PROVE  Indexed
<1> DEFINE w == Head(ioQueue)
<1>1. /\ ioQueue # <<>> /\ ioQueue' = Tail(ioQueue) /\ Dispatch(w.waiting, w.data)
      /\ UNCHANGED <<asked, map, memory, replies>>
  BY DEF WriteData
<1>2. ioQueue \in Seq(OwnWrite) /\ ioQueue \in Seq(IndexedWrite(map))
  BY DEF WaitInv, IndexedInv
<1>3. w \in OwnWrite
  BY <1>1, <1>2, HeadTailProperties
<1>4. w \in IndexedWrite(map) /\ ioQueue' \in Seq(IndexedWrite(map))
  <2> DEFINE W == IndexedWrite(map)
  <2>1. ioQueue \in Seq(W)
    BY <1>2
  <2> HIDE DEF W
  <2>2. w \in W /\ ioQueue' \in Seq(W)
    BY <1>1, <2>1, HeadTailProperties
  <2> QED
    BY <2>2 DEF W
<1> HIDE DEF w
<1>5. \A q \in w.waiting : w.data \in IndexedBy(map, asked[q].start)
  BY <1>3, <1>4 DEF OwnWrite, IndexedWrite
<1>6. Kept(map)
  BY IndexedKept
<1>7. \A q \in Requests : mainQueue'[q] \in Seq(IndexedBy(map, asked[q].start))
  BY <1>1, <1>5, <1>6, IndexedDispatch DEF Kept
<1> QED
  BY <1>1, <1>4, <1>6, <1>7 DEF Kept, Indexed

(* A block of the main queue becomes a call. *)
LEMMA IndexedCall ==
  ASSUME TypeOK, IndexedInv, NEW r \in Requests, CallCompletion(r)
  PROVE  Indexed
<1>1. /\ mainQueue[r] # <<>>
      /\ replies' = [replies EXCEPT ![r] = Append(@, Head(mainQueue[r]))]
      /\ mainQueue' = [mainQueue EXCEPT ![r] = Tail(@)]
      /\ UNCHANGED <<asked, map, memory, ioQueue>>
  BY DEF CallCompletion
<1>2. mainQueue \in [Requests -> Seq(Seq(Cell))] /\ replies \in [Requests -> Seq(Seq(Cell))]
  BY DEF TypeOK
<1>3. Kept(map)
  BY IndexedKept
<1>4. ASSUME NEW q \in Requests
      PROVE  /\ mainQueue'[q] \in Seq(IndexedBy(map, asked[q].start))
             /\ replies'[q] \in Seq(IndexedBy(map, asked[q].start))
  <2> DEFINE S == IndexedBy(map, asked[q].start)
  <2>1. mainQueue[q] \in Seq(S) /\ replies[q] \in Seq(S)
    BY <1>3 DEF Kept
  <2> HIDE DEF S
  <2>2. CASE q = r
    <3>1. Head(mainQueue[q]) \in S /\ Tail(mainQueue[q]) \in Seq(S)
      BY <1>1, <2>1, <2>2, HeadTailProperties
    <3>2. /\ mainQueue'[q] = Tail(mainQueue[q])
          /\ replies'[q] = Append(replies[q], Head(mainQueue[q]))
      BY <1>1, <1>2, <2>2
    <3>3. mainQueue'[q] \in Seq(S) /\ replies'[q] \in Seq(S)
      BY <2>1, <3>1, <3>2, AppendProperties
    <3> QED
      BY <3>3 DEF S
  <2>3. CASE q # r
    <3>1. mainQueue'[q] = mainQueue[q] /\ replies'[q] = replies[q]
      BY <1>1, <1>2, <2>3
    <3> QED
      BY <2>1, <3>1 DEF S
  <2> QED
    BY <2>2, <2>3
<1> QED
  BY <1>1, <1>3, <1>4 DEF Kept, Indexed

(* A request not made yet has nothing on its way to it. *)
LEMMA IndexedGetData ==
  ASSUME TypeOK, HeldInv, IndexedInv, NEW r \in Requests, NEW d \in Wanted,
         GetData(r, d)
  PROVE  Indexed
<1>1. /\ asked[r] = NoRange
      /\ asked' = [asked EXCEPT ![r] = d]
      /\ UNCHANGED <<map, memory, ioQueue, mainQueue, replies>>
  BY DEF GetData
<1>2. mainQueue[r] = <<>> /\ replies[r] = <<>>
  <2> DEFINE m == Len(mainQueue[r])
             n == Len(replies[r])
  <2>1. mainQueue[r] \in Seq(Seq(Cell)) /\ replies[r] \in Seq(Seq(Cell))
    BY DEF TypeOK
  <2>2. m \in Nat /\ n \in Nat
    BY <2>1, LenProperties
  <2>3. Called(r) = m + n
    BY DEF Called
  <2>4. Blocks(r) + Timed(r) + Waiting(r) + Queued(r) + Called(r) = 0
    BY <1>1 DEF HeldInv
  <2>5. Blocks(r) \in Nat /\ Timed(r) \in Nat /\ Waiting(r) \in Nat /\ Queued(r) \in Nat
    BY HeldAreNatural
  <2> HIDE DEF m, n
  <2>6. m = 0 /\ n = 0
    BY <2>2, <2>3, <2>4, <2>5
  <2> QED
    BY <2>1, <2>6, EmptySeq DEF m, n
<1>3. Kept(map)
  BY IndexedKept
<1>4. ASSUME NEW q \in Requests
      PROVE  /\ mainQueue'[q] \in Seq(IndexedBy(map', asked'[q].start))
             /\ replies'[q] \in Seq(IndexedBy(map', asked'[q].start))
  <2>1. CASE q = r
    <3>1. mainQueue'[q] = <<>> /\ replies'[q] = <<>>
      BY <1>1, <1>2, <2>1
    <3> QED
      BY <3>1
  <2>2. CASE q # r
    <3>1. asked'[q] = asked[q]
      BY <1>1, <2>2 DEF TypeOK
    <3> QED
      BY <1>1, <1>3, <3>1 DEF Kept
  <2> QED
    BY <2>1, <2>2
<1> QED
  BY <1>1, <1>3, <1>4 DEF Kept, Indexed

(* Every step keeps the data where the index has recorded it. *)
LEMMA IndexedStep == TypeOK /\ WaitInv /\ HeldInv /\ IndexedInv /\ [Next]_vars => IndexedInv'
<1> SUFFICES ASSUME TypeOK, WaitInv, HeldInv, IndexedInv, [Next]_vars
             PROVE  Indexed
  BY DEF Indexed, IndexedInv
<1> DEFINE Same == UNCHANGED <<asked, map, memory, ioQueue, mainQueue, replies>>
<1>1. Same => Indexed
  BY DEF IndexedInv, Indexed
<1>2. ASSUME RunRouter PROVE Indexed
  <2>1. ASSUME NEW r \in Requests, NEW d \in Wanted,
               JoinPending(r, d) \/ RetryLater(r, d) \/ StartDownload(r, d)
        PROVE  Same
    BY <2>1 DEF JoinPending, RetryLater, StartDownload
  <2>2. ASSUME NEW d \in Wanted, NEW data, Downloaded(d, data) PROVE Indexed
    BY <2>2, IndexedDownloaded
  <2>3. Flushed => Same
    BY DEF Flushed
  <2> HIDE DEF Same
  <2> QED
    BY <1>1, <1>2, <2>1, <2>2, <2>3, IndexedAnswers DEF RunRouter
<1>3. ASSUME NEW d \in CacheRange, NEW data \in Responses(d), Respond(d, data)
      PROVE  Indexed
  BY <1>3, IndexedRespond
<1>4. ASSUME NEW r \in Requests, Retry(r) PROVE Same
  BY <1>4 DEF Retry
<1>5. ASSUME NEW i \in {1, 2}, RunPreload(i) PROVE Same
  BY <1>5 DEF RunPreload
<1>6. ASSUME NEW o \in Offset, Evict(o) PROVE Indexed
  <2>1. /\ memory' = [memory EXCEPT ![o] = <<>>]
        /\ UNCHANGED <<asked, map, ioQueue, mainQueue, replies>>
    BY <1>6 DEF Evict
  <2>2. Kept(map)
    BY IndexedKept
  <2>3. <<>> \in IndexedBy(map, o)
    BY DEF IndexedBy
  <2>4. \A p \in Offset : memory'[p] \in IndexedBy(map, p)
    BY <2>1, <2>2, <2>3 DEF Kept, TypeOK
  <2> QED
    BY <2>1, <2>2, <2>4 DEF Kept, Indexed
<1>7. Download \/ CleanSong \/ PlaySong \/ UNCHANGED vars => Same
  BY DEF Download, CleanSong, PlaySong, vars
<1>8. ASSUME Restart PROVE Indexed
  <2>1. /\ memory' = [o \in Offset |-> <<>>] /\ ioQueue' = <<>>
        /\ mainQueue' = [r \in Requests |-> <<>>]
        /\ replies' = [r \in Requests |-> <<>>]
    BY <1>8 DEF Restart
  <2>2. \A o : <<>> \in IndexedBy(map', o)
    BY DEF IndexedBy
  <2> QED
    BY <2>1, <2>2 DEF Indexed
<1> HIDE DEF Same
<1> QED
  BY <1>1, <1>2, <1>3, <1>4, <1>5, <1>6, <1>7, <1>8, IndexedWriteData, IndexedCall,
     IndexedGetData DEF Next

(* What lies where the index has recorded it is in the file or queued.     *)
LEMMA IndexedIsBacked == IndexedInv /\ IndexBacked => ServedIsBacked
<1> SUFFICES ASSUME IndexedInv, IndexBacked, ~cleaned, NEW r \in Requests,
                    NEW data \in Range(mainQueue[r]) \cup Range(replies[r]),
                    NEW i \in DOMAIN data
             PROVE  asked[r].start + i - 1 \in Backed
  BY DEF ServedIsBacked
<1> DEFINE S == IndexedBy(map, asked[r].start)
<1>1. mainQueue[r] \in Seq(S) /\ replies[r] \in Seq(S)
  BY DEF IndexedInv
<1> HIDE DEF S
<1>2. data \in S
  BY <1>1, ElementOfSeq DEF Range
<1> QED
  BY <1>2 DEF S, IndexedBy, IndexBacked

(* The data a completion was called with, or is about to be, is in the     *)
(* file or in a write queued for it until the cleaner runs: whatever the   *)
(* memory cache drops between the answer and the call, and in whatever     *)
(* order the queues run, nothing given to AVPlayer is downloaded again.    *)
THEOREM WhatIsServedIsBacked == Spec => []ServedIsBacked
<1>1. Init => HeldInv
  BY HeldNothing
<1>2. Init => IndexedInv
  <2> SUFFICES ASSUME Init PROVE IndexedInv
    OBVIOUS
  <2>1. /\ memory = [o \in Offset |-> <<>>] /\ ioQueue = <<>>
        /\ mainQueue = [r \in Requests |-> <<>>]
        /\ replies = [r \in Requests |-> <<>>]
    BY DEF Init
  <2>2. \A o : <<>> \in IndexedBy(map, o)
    BY DEF IndexedBy
  <2> QED
    BY <2>1, <2>2 DEF IndexedInv
<1>3. WaitInv => TypeOK
  BY DEF WaitInv
<1>4. BytesInv => IndexBacked
  BY DEF BytesInv
<1> QED
  BY <1>1, <1>2, <1>3, <1>4, HeldStep, IndexedStep, WaitInvariance, BytesInvariance,
     IndexedIsBacked, PTL DEF Spec
=============================================================================
