------------------------- MODULE CacheSongs_proofs -------------------------
(***************************************************************************)
(* Theorems about CacheSongs, for any songs, chunks, budget and number of  *)
(* plays and restarts.                                                     *)
(***************************************************************************)
EXTENDS CacheSongs, FiniteSetTheorems, TLAPS

(* A row is not the marker of a missing row. *)
LEMMA RowIsNotNoRow ==
  ASSUME NEW r \in Row PROVE r # NoRow
BY CacheSongsAssumption DEF Row

(* An UPDATE keeps the table's type, and neither inserts nor deletes.      *)
LEMMA UpdateRowKeeps ==
  ASSUME TypeOK, NEW s \in Songs, NEW new \in Row, UpdateRow(s, new)
  PROVE  /\ row' \in [Songs -> Row \cup {NoRow}]
         /\ \A t \in Songs : row'[t] = NoRow <=> row[t] = NoRow
BY RowIsNotNoRow DEF TypeOK, UpdateRow

(* What the threads hold while they are on their way. *)
LEMMA MainHolds ==
  ASSUME TypeOK
  PROVE  /\ main.at \in {"query", "update", "insert"} =>
              main.song \in Songs /\ main.time \in Nat
         /\ main.at = "update" => main.existing \in Row
         /\ main.at = "idle" => main = Idle
BY DEF TypeOK, MainStates, Idle

(* The same for routerQueue.                                               *)
LEMMA RouterHolds ==
  ASSUME TypeOK
  PROVE  /\ router.at \in {"read", "write"} => router.song \in Songs
         /\ router.at = "read" => router.size \in Nat
         /\ router.at = "write" => router.obj \in Row
BY DEF TypeOK, RouterStates, Idle

----------------------------------------------------------------------------
(* Type correctness. *)

(* The table starts empty and the threads idle. *)
LEMMA TypeInit == Init => TypeOK
BY CacheSongsAssumption
   DEF Init, TypeOK, Idle, Launched, MainStates, RouterStates

(* The steps of the main thread keep the types. *)
LEMMA TypeMain ==
  ASSUME TypeOK,
         \/ \E s \in Songs : PlayWithSong(s)
         \/ PlayQuery
         \/ PlayUpdate
         \/ PlayInsert
  PROVE  TypeOK'
<1> USE CacheSongsAssumption
<1>1. ASSUME NEW s \in Songs, PlayWithSong(s) PROVE TypeOK'
  BY <1>1 DEF PlayWithSong, TypeOK, MainStates
<1>2. CASE PlayQuery
  <2>1. main.song \in Songs /\ main.time \in Nat
    BY <1>2, MainHolds DEF PlayQuery
  <2>2. CASE row[main.song] = NoRow
    BY <1>2, <2>1, <2>2 DEF PlayQuery, Stream, TypeOK, MainStates
  <2>3. CASE row[main.song] # NoRow
    <3>1. row[main.song] \in Row
      BY <2>1, <2>3 DEF TypeOK
    <3> QED
      BY <1>2, <2>1, <2>3, <3>1 DEF PlayQuery, TypeOK, MainStates
  <2> QED
    BY <2>2, <2>3
<1>3. CASE PlayUpdate
  <2>1. main.song \in Songs /\ main.time \in Nat /\ main.existing \in Row
    BY <1>3, MainHolds DEF PlayUpdate
  <2>2. [main.existing EXCEPT !.played = main.time] \in Row
    BY <2>1 DEF Row
  <2>3. row' \in [Songs -> Row \cup {NoRow}]
    BY <1>3, <2>1, <2>2, UpdateRowKeeps DEF PlayUpdate
  <2> QED
    BY <1>3, <2>1, <2>3 DEF PlayUpdate, Stream, TypeOK, MainStates
<1>4. CASE PlayInsert
  <2>1. main.song \in Songs /\ main.time \in Nat
    BY <1>4, MainHolds DEF PlayInsert
  <2>2. [played |-> main.time, size |-> 0] \in Row
    BY <2>1 DEF Row
  <2> QED
    BY <1>4, <2>1, <2>2 DEF PlayInsert, InsertRow, Stream, TypeOK, MainStates
<1> QED
  BY <1>1, <1>2, <1>3, <1>4

(* So do the chunks that come and go. *)
LEMMA TypeStore ==
  ASSUME TypeOK, NEW s \in Songs, NEW c \in Chunks,
         ReadChunk(s, c) \/ FetchChunk(s, c) \/ WriteChunk(s, c)
  PROVE  TypeOK'
<1>1. CASE ReadChunk(s, c)
  BY <1>1 DEF ReadChunk, TypeOK
<1>2. CASE FetchChunk(s, c)
  BY <1>2 DEF FetchChunk, TypeOK
<1>3. CASE WriteChunk(s, c)
  BY <1>3 DEF WriteChunk, TypeOK
<1> QED
  BY <1>1, <1>2, <1>3

(* So does a sync: there are finitely many chunks to count. *)
LEMMA TypeSync ==
  ASSUME TypeOK,
         \/ \E s \in Songs : SyncMeasure(s)
         \/ SyncRead
         \/ SyncWrite
  PROVE  TypeOK'
<1>1. ASSUME NEW s \in Songs, SyncMeasure(s) PROVE TypeOK'
  <2>1. cached[s] \subseteq Chunks
    BY DEF TypeOK
  <2>2. Cardinality(cached[s]) \in Nat
    BY <2>1, CacheSongsAssumption, FS_Subset, FS_CardinalityType
  <2> QED
    BY <1>1, <2>2 DEF SyncMeasure, TypeOK, RouterStates
<1>2. CASE SyncRead
  <2>1. router.song \in Songs /\ router.size \in Nat
    BY <1>2, RouterHolds DEF SyncRead
  <2>2. CASE row[router.song] = NoRow
    BY <1>2, <2>2 DEF SyncRead, TypeOK, RouterStates
  <2>3. CASE row[router.song] # NoRow
    <3>1. [row[router.song] EXCEPT !.size = router.size] \in Row
      BY <2>1, <2>3 DEF TypeOK, Row
    <3> QED
      BY <1>2, <2>1, <2>3, <3>1 DEF SyncRead, TypeOK, RouterStates
  <2> QED
    BY <2>2, <2>3
<1>3. CASE SyncWrite
  <2>1. row' \in [Songs -> Row \cup {NoRow}]
    BY <1>3, RouterHolds, UpdateRowKeeps DEF SyncWrite
  <2> QED
    BY <1>3, <2>1 DEF SyncWrite, TypeOK, RouterStates
<1> QED
  BY <1>1, <1>2, <1>3

(* So does the cleaner. *)
LEMMA TypeClean ==
  ASSUME TypeOK,
         \/ CleanRead
         \/ \E s \in Songs : RemoveFile(s) \/ SkipFile(s)
         \/ DeleteRow
         \/ CleanEnd
  PROVE  TypeOK'
<1>1. CASE CleanRead
  BY <1>1 DEF CleanRead, TypeOK
<1>2. ASSUME NEW s \in Songs, RemoveFile(s) PROVE TypeOK'
  BY <1>2 DEF RemoveFile, FileRemoved, TypeOK
<1>3. ASSUME NEW s \in Songs, SkipFile(s) PROVE TypeOK'
  BY <1>3 DEF SkipFile, TypeOK
<1>4. CASE DeleteRow
  BY <1>4 DEF DeleteRow, TypeOK
<1>5. CASE CleanEnd
  BY <1>5 DEF CleanEnd, TypeOK
<1> QED
  BY <1>1, <1>2, <1>3, <1>4, <1>5

(* Every step keeps the types. *)
LEMMA TypeNext == TypeOK /\ [Next]_vars => TypeOK'
<1> SUFFICES ASSUME TypeOK, [Next]_vars PROVE TypeOK'
  OBVIOUS
<1>1. CASE Restart
  BY <1>1, CacheSongsAssumption
     DEF Restart, TypeOK, Idle, Launched, MainStates, RouterStates
<1>2. CASE UNCHANGED vars
  BY <1>2 DEF vars, TypeOK
<1> QED
  BY <1>1, <1>2, TypeMain, TypeStore, TypeSync, TypeClean DEF Next

(* Type correctness of the table, its files and its three threads. *)
THEOREM TypeCorrect == Spec => []TypeOK
BY TypeInit, TypeNext, PTL DEF Spec

----------------------------------------------------------------------------
(* Rows of the songs that are streamed. *)

(* While playWithSong is between its look at the row and its update, the   *)
(* row is there or the cleaner has deleted it.                             *)
SeenRowStays ==
  main.at \in {"query", "update"} =>
    row[main.song] # NoRow \/ main.song \in evicted

StreamedInv == TypeOK /\ StreamedHasRow /\ SeenRowStays

(* Steps that insert or delete no row, nor move playWithSong on.           *)
LEMMA StreamedKeptByOthers ==
  ASSUME StreamedInv, TypeOK', UNCHANGED <<main, streamed, evicted>>,
         \A s \in Songs : row'[s] = NoRow <=> row[s] = NoRow
  PROVE  StreamedInv'
BY MainHolds DEF StreamedInv, StreamedHasRow, SeenRowStays, TypeOK

(* playWithSong hands over a song with a row, or one that was evicted.     *)
LEMMA StreamedKeptByMain ==
  ASSUME StreamedInv, TypeOK',
         \/ \E s \in Songs : PlayWithSong(s)
         \/ PlayQuery
         \/ PlayUpdate
         \/ PlayInsert
  PROVE  StreamedInv'
<1> USE DEF StreamedInv, StreamedHasRow, SeenRowStays
<1>1. ASSUME NEW s \in Songs, PlayWithSong(s) PROVE StreamedInv'
  BY <1>1 DEF PlayWithSong
<1>2. CASE PlayQuery
  BY <1>2, MainHolds DEF PlayQuery, Stream, Idle
<1>3. CASE PlayUpdate
  <2>1. main.song \in Songs /\ main.time \in Nat /\ main.existing \in Row
    BY <1>3, MainHolds DEF PlayUpdate
  <2>2. [main.existing EXCEPT !.played = main.time] \in Row
    BY <2>1 DEF Row
  <2>3. \A t \in Songs : row'[t] = NoRow <=> row[t] = NoRow
    BY <1>3, <2>1, <2>2, UpdateRowKeeps DEF PlayUpdate
  <2> QED
    BY <1>3, <2>1, <2>3 DEF PlayUpdate, Stream, Idle, TypeOK
<1>4. CASE PlayInsert
  <2>1. main.song \in Songs /\ main.time \in Nat
    BY <1>4, MainHolds DEF PlayInsert
  <2>2. [played |-> main.time, size |-> 0] # NoRow
    BY <2>1, RowIsNotNoRow DEF Row
  <2>3. \A t \in Songs : row'[t] = NoRow => row[t] = NoRow /\ t # main.song
    BY <1>4, <2>1, <2>2 DEF PlayInsert, InsertRow, TypeOK
  <2> QED
    BY <1>4, <2>1, <2>3 DEF PlayInsert, Stream, Idle, TypeOK
<1> QED
  BY <1>1, <1>2, <1>3, <1>4

(* The cleaner notes whose row it deletes.                                 *)
LEMMA StreamedKeptByDelete ==
  ASSUME StreamedInv, TypeOK', DeleteRow
  PROVE  StreamedInv'
<1>1. \A t \in Songs : row'[t] = NoRow => row[t] = NoRow \/ t \in evicted'
  BY DEF DeleteRow, StreamedInv, TypeOK
<1>2. evicted \subseteq evicted' /\ UNCHANGED <<main, streamed>>
  BY DEF DeleteRow
<1> QED
  BY <1>1, <1>2, MainHolds
     DEF StreamedInv, StreamedHasRow, SeenRowStays, TypeOK

(* Every step keeps the rows of what is streamed.                          *)
LEMMA StreamedNext == StreamedInv /\ [Next]_vars => StreamedInv'
<1> SUFFICES ASSUME StreamedInv, [Next]_vars PROVE StreamedInv'
  OBVIOUS
<1>0. TypeOK /\ TypeOK'
  BY TypeNext DEF StreamedInv
<1>1. ASSUME NEW s \in Songs, NEW c \in Chunks,
             ReadChunk(s, c) \/ FetchChunk(s, c) \/ WriteChunk(s, c)
      PROVE  StreamedInv'
  BY <1>0, <1>1, StreamedKeptByOthers DEF ReadChunk, FetchChunk, WriteChunk
<1>2. ASSUME NEW s \in Songs,
             SyncMeasure(s) \/ RemoveFile(s) \/ SkipFile(s)
      PROVE  StreamedInv'
  BY <1>0, <1>2, StreamedKeptByOthers DEF SyncMeasure, RemoveFile, SkipFile
<1>3. CASE SyncRead \/ CleanRead \/ CleanEnd
  BY <1>0, <1>3, StreamedKeptByOthers DEF SyncRead, CleanRead, CleanEnd
<1>4. CASE SyncWrite
  <2>1. \A s \in Songs : row'[s] = NoRow <=> row[s] = NoRow
    BY <1>0, <1>4, RouterHolds, UpdateRowKeeps DEF SyncWrite
  <2> QED
    BY <1>0, <1>4, <2>1, StreamedKeptByOthers DEF SyncWrite
<1>5. CASE Restart
  BY <1>0, <1>5
     DEF Restart, Idle, StreamedInv, StreamedHasRow, SeenRowStays
<1>6. CASE UNCHANGED vars
  BY <1>0, <1>6, StreamedKeptByOthers DEF vars
<1> QED
  BY <1>0, <1>1, <1>2, <1>3, <1>4, <1>5, <1>6, StreamedKeptByMain,
     StreamedKeptByDelete DEF Next

(* Every song streamed has a row, unless this launch's cleaner deleted it. *)
THEOREM StreamedSongsHaveRows == Spec => []StreamedHasRow
<1>1. Init => StreamedInv
  BY TypeInit DEF Init, Idle, StreamedInv, StreamedHasRow, SeenRowStays
<1>2. StreamedInv => StreamedHasRow
  BY DEF StreamedInv
<1> QED
  BY <1>1, <1>2, StreamedNext, PTL DEF Spec

----------------------------------------------------------------------------
(* Files and rows under deletions, kills and late writes. *)

(* When the cleaner comes to delete a row, the file is gone, or has been   *)
(* written anew.                                                           *)
RemovedOrStray ==
  \A s \in Songs : Removing(s) => file[s] = {} \/ s \in strays

OrphansInv == TypeOK /\ OrphansAreStrays /\ RemovedOrStray

(* Steps that neither create a file nor delete a row nor begin a removal.  *)
LEMMA OrphansKeptByOthers ==
  ASSUME OrphansInv, TypeOK', UNCHANGED <<file, strays>>,
         \A s \in Songs : row'[s] = NoRow => row[s] = NoRow,
         \A s \in Songs : Removing(s)' => Removing(s)
  PROVE  OrphansInv'
BY DEF OrphansInv, OrphansAreStrays, RemovedOrStray

(* A write to a song without a row, or about to lose it, is a stray one.   *)
LEMMA OrphansKeptByWrite ==
  ASSUME OrphansInv, TypeOK', NEW s \in Songs, NEW c \in Chunks,
         WriteChunk(s, c)
  PROVE  OrphansInv'
<1>1. /\ \A t \in Songs : t # s => file'[t] = file[t]
      /\ strays \subseteq strays'
      /\ row[s] = NoRow \/ Removing(s) => s \in strays'
      /\ UNCHANGED <<row, cleaner>>
  BY DEF WriteChunk, OrphansInv, TypeOK
<1> QED
  BY <1>1 DEF OrphansInv, OrphansAreStrays, RemovedOrStray, Removing

(* The file goes before the row. *)
LEMMA OrphansKeptByRemoval ==
  ASSUME OrphansInv, TypeOK', NEW s \in Songs, RemoveFile(s)
  PROVE  OrphansInv'
<1>1. /\ file' = [file EXCEPT ![s] = {}]
      /\ \A t \in Songs : Removing(t)' => t = s
      /\ UNCHANGED <<row, strays>>
  BY DEF RemoveFile, FileRemoved, Removing
<1> QED
  BY <1>1 DEF OrphansInv, OrphansAreStrays, RemovedOrStray, TypeOK

(* The row goes when the file is gone.                                     *)
LEMMA OrphansKeptByDelete ==
  ASSUME OrphansInv, TypeOK', DeleteRow
  PROVE  OrphansInv'
<1>1. /\ \A t \in Songs : row'[t] = NoRow => row[t] = NoRow \/ Removing(t)
      /\ \A t \in Songs : ~Removing(t)'
      /\ UNCHANGED <<file, strays>>
  BY DEF DeleteRow, Removing, OrphansInv, TypeOK
<1> QED
  BY <1>1 DEF OrphansInv, OrphansAreStrays, RemovedOrStray

(* Every step keeps the files accounted for.                               *)
LEMMA OrphansNext == OrphansInv /\ [Next]_vars => OrphansInv'
<1> SUFFICES ASSUME OrphansInv, [Next]_vars PROVE OrphansInv'
  OBVIOUS
<1>0. TypeOK /\ TypeOK'
  BY TypeNext DEF OrphansInv
<1> USE DEF Removing
<1>1. ASSUME NEW s \in Songs, NEW c \in Chunks,
             ReadChunk(s, c) \/ FetchChunk(s, c)
      PROVE  OrphansInv'
  BY <1>0, <1>1, OrphansKeptByOthers DEF ReadChunk, FetchChunk
<1>2. ASSUME NEW s \in Songs,
             PlayWithSong(s) \/ SyncMeasure(s) \/ SkipFile(s)
      PROVE  OrphansInv'
  BY <1>0, <1>2, OrphansKeptByOthers DEF PlayWithSong, SyncMeasure, SkipFile
<1>3. CASE PlayQuery \/ SyncRead \/ CleanRead \/ CleanEnd
  BY <1>0, <1>3, OrphansKeptByOthers
     DEF PlayQuery, SyncRead, CleanRead, CleanEnd
<1>4. CASE PlayUpdate
  <2>1. main.song \in Songs /\ main.time \in Nat /\ main.existing \in Row
    BY <1>0, <1>4, MainHolds DEF PlayUpdate
  <2>2. [main.existing EXCEPT !.played = main.time] \in Row
    BY <2>1 DEF Row
  <2>3. \A s \in Songs : row'[s] = NoRow => row[s] = NoRow
    BY <1>0, <1>4, <2>1, <2>2, UpdateRowKeeps DEF PlayUpdate
  <2> QED
    BY <1>0, <1>4, <2>3, OrphansKeptByOthers DEF PlayUpdate
<1>5. CASE PlayInsert
  <2>1. main.song \in Songs /\ main.time \in Nat
    BY <1>0, <1>5, MainHolds DEF PlayInsert
  <2>2. [played |-> main.time, size |-> 0] # NoRow
    BY <2>1, RowIsNotNoRow DEF Row
  <2>3. \A s \in Songs : row'[s] = NoRow => row[s] = NoRow
    BY <1>0, <1>5, <2>1, <2>2 DEF PlayInsert, InsertRow, TypeOK
  <2> QED
    BY <1>0, <1>5, <2>3, OrphansKeptByOthers DEF PlayInsert
<1>6. CASE SyncWrite
  <2>1. \A s \in Songs : row'[s] = NoRow => row[s] = NoRow
    BY <1>0, <1>6, RouterHolds, UpdateRowKeeps DEF SyncWrite
  <2> QED
    BY <1>0, <1>6, <2>1, OrphansKeptByOthers DEF SyncWrite
<1>7. CASE Restart
  BY <1>0, <1>7, OrphansKeptByOthers DEF Restart, Launched
<1>8. CASE UNCHANGED vars
  BY <1>0, <1>8, OrphansKeptByOthers DEF vars
<1> QED
  BY <1>0, <1>1, <1>2, <1>3, <1>4, <1>5, <1>6, <1>7, <1>8,
     OrphansKeptByWrite, OrphansKeptByRemoval, OrphansKeptByDelete DEF Next

(* Only a write behind the cleaner's back leaves a file without a row.     *)
THEOREM OrphansAreStrayWrites == Spec => []OrphansAreStrays
<1>1. Init => OrphansInv
  BY TypeInit
     DEF Init, Launched, OrphansInv, OrphansAreStrays, RemovedOrStray, Removing
<1>2. OrphansInv => OrphansAreStrays
  BY DEF OrphansInv
<1> QED
  BY <1>1, <1>2, OrphansNext, PTL DEF Spec

----------------------------------------------------------------------------
(* What the index knows of the files. *)

(* The index knows what is on its way to a file, and before the first kill *)
(* whatever is in one.                                                     *)
IndexKnows ==
  \A s \in Songs : /\ queued[s] \subseteq cached[s]
                   /\ restarts = 0 => file[s] \subseteq cached[s]

IndexKnowsInv == TypeOK /\ IndexKnows

(* The index is told of a chunk before the chunk is queued or found, and   *)
(* forgets only when the app is killed.                                    *)
LEMMA IndexKnowsNext == IndexKnowsInv /\ [Next]_vars => IndexKnowsInv'
<1> SUFFICES ASSUME IndexKnowsInv, [Next]_vars
             PROVE  IndexKnowsInv'
  OBVIOUS
<1> USE DEF IndexKnowsInv, TypeOK
<1>1. TypeOK'
  BY TypeNext
<1>2. CASE UNCHANGED <<file, cached, queued, restarts>>
  BY <1>1, <1>2 DEF IndexKnows
<1>3. ASSUME NEW s \in Songs, NEW c \in Chunks, ReadChunk(s, c)
      PROVE  IndexKnows'
  BY <1>3 DEF ReadChunk, IndexKnows
<1>4. ASSUME NEW s \in Songs, NEW c \in Chunks, FetchChunk(s, c)
      PROVE  IndexKnows'
  BY <1>4 DEF FetchChunk, IndexKnows
<1>5. ASSUME NEW s \in Songs, NEW c \in Chunks, WriteChunk(s, c)
      PROVE  IndexKnows'
  BY <1>5 DEF WriteChunk, IndexKnows
<1>6. ASSUME NEW s \in Songs, RemoveFile(s)
      PROVE  IndexKnows'
  BY <1>6 DEF RemoveFile, FileRemoved, IndexKnows
<1>7. CASE Restart
  <2>1. restarts' # 0
    BY <1>7 DEF Restart
  <2>2. \A s \in Songs : queued'[s] = {}
    BY <1>7 DEF Restart
  <2> QED
    BY <1>1, <2>1, <2>2 DEF IndexKnows
<1>8. ASSUME NEW s \in Songs, PlayWithSong(s) \/ SyncMeasure(s) \/ SkipFile(s)
      PROVE  UNCHANGED <<file, cached, queued, restarts>>
  BY <1>8 DEF PlayWithSong, SyncMeasure, SkipFile
<1>9. ASSUME \/ PlayQuery \/ PlayUpdate \/ PlayInsert \/ SyncRead \/ SyncWrite
             \/ CleanRead \/ DeleteRow \/ CleanEnd \/ UNCHANGED vars
      PROVE  UNCHANGED <<file, cached, queued, restarts>>
  BY <1>9 DEF PlayQuery, PlayUpdate, PlayInsert, SyncRead, SyncWrite, CleanRead,
              DeleteRow, CleanEnd, vars
<1> HIDE DEF IndexKnowsInv, TypeOK
<1> QED
  BY <1>1, <1>2, <1>3, <1>4, <1>5, <1>6, <1>7, <1>8, <1>9 DEF Next, IndexKnowsInv

(* Until the app is killed for the first time the size a sync records is   *)
(* that of the file at least: what SizeCoversFile claims of every launch,  *)
(* and what only the empty index after a restart takes away.               *)
FirstLaunchCoversFile ==
  [][restarts = 0 /\ router = Idle /\ router'.at = "read" =>
       router'.size >= Cardinality(file[router'.song])]_vars

(* The step that measures is the one that leaves Idle for the read. *)
LEMMA MeasureCovers ==
  ASSUME IndexKnowsInv, [Next]_vars, restarts = 0, router = Idle, router'.at = "read"
  PROVE  router'.size >= Cardinality(file[router'.song])
<1>1. ASSUME NEW s \in Songs, SyncMeasure(s)
      PROVE  router'.size >= Cardinality(file[router'.song])
  <2>1. router'.song = s /\ router'.size = Cardinality(cached[s])
    BY <1>1 DEF SyncMeasure
  <2>2. file[s] \subseteq cached[s] /\ cached[s] \subseteq Chunks
    BY <1>1 DEF IndexKnowsInv, IndexKnows, TypeOK
  <2>3. IsFiniteSet(cached[s]) /\ IsFiniteSet(file[s])
    BY <2>2, FS_Subset, CacheSongsAssumption
  <2>4. Cardinality(file[s]) <= Cardinality(cached[s])
    BY <2>2, <2>3, FS_Subset
  <2>5. Cardinality(file[s]) \in Nat /\ Cardinality(cached[s]) \in Nat
    BY <2>3, FS_CardinalityType
  <2> QED
    BY <2>1, <2>4, <2>5
<1>2. router.at = "idle"
  BY DEF Idle
<1>3. ASSUME ~(\E s \in Songs : SyncMeasure(s)) PROVE router' = router \/ router' = Idle
  <2>1. ASSUME NEW s \in Songs,
               \/ PlayWithSong(s) \/ RemoveFile(s) \/ SkipFile(s)
               \/ \E c \in Chunks : ReadChunk(s, c) \/ FetchChunk(s, c) \/ WriteChunk(s, c)
        PROVE  router' = router
    BY <2>1 DEF PlayWithSong, RemoveFile, SkipFile, ReadChunk, FetchChunk, WriteChunk
  <2>2. ASSUME \/ PlayQuery \/ PlayUpdate \/ PlayInsert
               \/ CleanRead \/ DeleteRow \/ CleanEnd \/ UNCHANGED vars
        PROVE  router' = router
    BY <2>2 DEF PlayQuery, PlayUpdate, PlayInsert, CleanRead, DeleteRow, CleanEnd, vars
  <2>3. ASSUME SyncRead \/ SyncWrite \/ Restart
        PROVE  router' = Idle
    BY <1>2, <2>3 DEF SyncRead, SyncWrite, Restart
  <2> QED
    BY <1>3, <2>1, <2>2, <2>3 DEF Next
<1> QED
  BY <1>1, <1>2, <1>3 DEF Idle

(* SizeCoversFile fails in later launches only: in the first the index     *)
(* knows every chunk of every file, through evictions, late writes, syncs. *)
THEOREM FirstLaunchIsCovered == Spec => FirstLaunchCoversFile
<1>1. Init => IndexKnowsInv
  BY TypeInit DEF Init, IndexKnowsInv, IndexKnows
<1>2. IndexKnowsInv /\ [Next]_vars =>
        [restarts = 0 /\ router = Idle /\ router'.at = "read" =>
           router'.size >= Cardinality(file[router'.song])]_vars
  BY MeasureCovers
<1> QED
  BY <1>1, <1>2, IndexKnowsNext, PTL DEF Spec, FirstLaunchCoversFile

----------------------------------------------------------------------------
(* What a sync writes back. *)

(* The main thread writes no row while routerQueue holds one it has read. *)
PlaysApart == [][PlayUpdate \/ PlayInsert => router.at # "write"]_vars

(* The row held is the table's, but for the size, or is gone from it. *)
HeldIsCurrent ==
  router.at = "write" /\ row[router.song] # NoRow =>
    router.obj.played = row[router.song].played

HeldInv == TypeOK /\ HeldIsCurrent

(* Between its read and its write only the main thread could change the    *)
(* time of the row: the cleaner deletes, and an UPDATE does not insert.    *)
LEMMA HeldNext ==
  ASSUME HeldInv, [Next]_vars, [PlayUpdate \/ PlayInsert => router.at # "write"]_vars
  PROVE  HeldInv'
<1>1. TypeOK'
  BY TypeNext DEF HeldInv
<1>2. CASE PlayUpdate \/ PlayInsert
  <2>1. CASE router.at # "write"
    <3>1. router' = router
      BY <1>2 DEF PlayUpdate, PlayInsert
    <3> QED
      BY <1>1, <2>1, <3>1 DEF HeldInv, HeldIsCurrent
  <2>2. CASE vars' = vars
    BY <1>1, <2>2 DEF HeldInv, HeldIsCurrent, vars
  <2> QED
    BY <1>2, <2>1, <2>2
<1>3. CASE SyncRead
  <2>1. router.song \in Songs /\ row' = row
    BY <1>3, RouterHolds DEF SyncRead, HeldInv
  <2>2. CASE row[router.song] = NoRow
    <3>1. router' = Idle
      BY <1>3, <2>2 DEF SyncRead
    <3> QED
      BY <1>1, <3>1 DEF HeldInv, HeldIsCurrent, Idle
  <2>3. CASE row[router.song] # NoRow
    <3>1. /\ router'.song = router.song
          /\ router'.obj = [row[router.song] EXCEPT !.size = router.size]
      BY <1>3, <2>3 DEF SyncRead
    <3>2. row[router.song] \in Row
      BY <2>1, <2>3 DEF HeldInv, TypeOK
    <3>3. router'.obj.played = row[router.song].played
      BY <3>1, <3>2 DEF Row
    <3> QED
      BY <1>1, <2>1, <3>1, <3>3 DEF HeldInv, HeldIsCurrent
  <2> QED
    BY <2>2, <2>3
<1>4. CASE SyncWrite \/ Restart
  <2>1. router' = Idle
    BY <1>4 DEF SyncWrite, Restart
  <2> QED
    BY <1>1, <2>1 DEF HeldInv, HeldIsCurrent, Idle
<1>5. ASSUME NEW s \in Songs, SyncMeasure(s) PROVE HeldInv'
  <2>1. router'.at = "read"
    BY <1>5 DEF SyncMeasure
  <2> QED
    BY <1>1, <2>1 DEF HeldInv, HeldIsCurrent
<1>6. CASE DeleteRow
  <2>1. router' = router /\ row' = [row EXCEPT ![cleaner.song] = NoRow]
    BY <1>6 DEF DeleteRow
  <2>2. row \in [Songs -> Row \cup {NoRow}] /\ (router.at = "write" => router.song \in Songs)
    BY RouterHolds DEF HeldInv, TypeOK
  <2>3. router.at = "write" =>
          row'[router.song] = row[router.song] \/ row'[router.song] = NoRow
    BY <2>1, <2>2
  <2> QED
    BY <1>1, <2>1, <2>3 DEF HeldInv, HeldIsCurrent
<1>7. CASE UNCHANGED <<row, router>>
  BY <1>1, <1>7 DEF HeldInv, HeldIsCurrent
<1>8. ASSUME NEW s \in Songs,
             \/ PlayWithSong(s) \/ RemoveFile(s) \/ SkipFile(s)
             \/ \E c \in Chunks : ReadChunk(s, c) \/ FetchChunk(s, c) \/ WriteChunk(s, c)
      PROVE  UNCHANGED <<row, router>>
  BY <1>8 DEF PlayWithSong, RemoveFile, SkipFile, ReadChunk, FetchChunk, WriteChunk
<1>9. PlayQuery \/ CleanRead \/ CleanEnd \/ UNCHANGED vars => UNCHANGED <<row, router>>
  BY DEF PlayQuery, CleanRead, CleanEnd, vars
<1> QED
  BY <1>2, <1>3, <1>4, <1>5, <1>6, <1>7, <1>8, <1>9 DEF Next

(* While a row is held, only the sync's own write changes a time it finds, *)
(* or a step of the main thread.                                           *)
LEMMA SyncKeepsTime ==
  ASSUME HeldInv, [Next]_vars, router.at = "write", main' = main,
         NEW s \in Songs, row[s] # NoRow, row'[s] # NoRow, row'[s] # row[s]
  PROVE  row'[s].played = row[s].played
<1>1. row \in [Songs -> Row \cup {NoRow}]
  BY DEF HeldInv, TypeOK
<1>2. CASE SyncWrite
  <2>1. row' = [row EXCEPT ![router.song] = IF @ = NoRow THEN NoRow ELSE router.obj]
    BY <1>2 DEF SyncWrite, UpdateRow
  <2>2. s = router.song
    BY <1>1, <2>1
  <2>3. row'[s] = router.obj
    BY <1>1, <2>1, <2>2
  <2> QED
    BY <2>2, <2>3 DEF HeldInv, HeldIsCurrent
<1>3. ~PlayUpdate /\ ~PlayInsert
  BY DEF PlayUpdate, PlayInsert, Stream, Idle
<1>4. ~DeleteRow
  <2>1. DeleteRow => row'[s] = row[s] \/ row'[s] = NoRow
    BY <1>1 DEF DeleteRow
  <2> QED
    BY <2>1
<1>5. row' # row
  OBVIOUS
<1>6. ASSUME NEW t \in Songs,
             \/ PlayWithSong(t) \/ SyncMeasure(t) \/ RemoveFile(t) \/ SkipFile(t)
             \/ \E c \in Chunks : ReadChunk(t, c) \/ FetchChunk(t, c) \/ WriteChunk(t, c)
      PROVE  row' = row
  BY <1>6 DEF PlayWithSong, SyncMeasure, RemoveFile, SkipFile, ReadChunk, FetchChunk,
              WriteChunk
<1>7. PlayQuery \/ SyncRead \/ CleanRead \/ CleanEnd \/ Restart \/ UNCHANGED vars
        => row' = row
  BY DEF PlayQuery, SyncRead, CleanRead, CleanEnd, Restart, vars
<1> QED
  BY <1>2, <1>3, <1>4, <1>5, <1>6, <1>7 DEF Next

(* A sync puts an old time of play back only if a play falls between its   *)
(* read and its write: if none does, it changes nothing but what it says,  *)
(* whatever the cleaner and the writers of the file do meanwhile.          *)
THEOREM OnlyPlaysGetLost == Spec /\ PlaysApart => UpdatesOnlyCacheInfo
<1>1. Init => HeldInv
  BY TypeInit DEF Init, HeldInv, HeldIsCurrent, Idle
<1>2. HeldInv /\ [Next]_vars =>
        [router.at = "write" =>
           \A s \in Songs : row[s] # NoRow /\ row'[s] # NoRow /\ row'[s] # row[s]
             /\ main' = main => row'[s].played = row[s].played]_vars
  BY SyncKeepsTime
<1> QED
  BY <1>1, <1>2, HeldNext, PTL DEF Spec, PlaysApart, UpdatesOnlyCacheInfo

----------------------------------------------------------------------------
(* The sums of the cleaner.  A song of size n stands for n units, so that  *)
(* a sum of sizes is the number of units, and comparing sums is comparing  *)
(* sets.                                                                   *)
Units(table, s) == {s} \X (1 .. table[s].size)
AllUnits(table, S) == UNION {Units(table, s) : s \in S}

(* A unit belongs to one song of the set. *)
LEMMA InAllUnits ==
  ASSUME NEW table, NEW S, NEW u
  PROVE  u \in AllUnits(table, S) <=> \E s \in S : u \in Units(table, s)
BY DEF AllUnits

(* Finitely many songs have finitely many units. *)
LEMMA UnitsFinite ==
  ASSUME NEW table, NEW S, IsFiniteSet(S), \A s \in S : table[s].size \in Nat
  PROVE  /\ \A s \in S : /\ IsFiniteSet(Units(table, s))
                         /\ Cardinality(Units(table, s)) = table[s].size
         /\ IsFiniteSet(AllUnits(table, S))
<1>1. ASSUME NEW s \in S
      PROVE  /\ IsFiniteSet(Units(table, s))
             /\ Cardinality(Units(table, s)) = table[s].size
  <2> DEFINE n == table[s].size
  <2>1. n \in Nat
    OBVIOUS
  <2>2. Units(table, s) = {s} \X (1 .. n)
    BY DEF Units
  <2> HIDE DEF n
  <2>3. IsFiniteSet({s}) /\ Cardinality({s}) = 1
    BY FS_Singleton
  <2>4. IsFiniteSet(1 .. n) /\ Cardinality(1 .. n) = n
    BY <2>1, FS_Interval
  <2>5. /\ IsFiniteSet({s} \X (1 .. n))
        /\ Cardinality({s} \X (1 .. n)) = n
    <3> DEFINE A == {s}
               B == 1 .. n
    <3>1. IsFiniteSet(A) /\ Cardinality(A) = 1 /\ IsFiniteSet(B) /\ Cardinality(B) = n
      BY <2>3, <2>4
    <3> HIDE DEF A, B
    <3>2. IsFiniteSet(A \X B) /\ Cardinality(A \X B) = Cardinality(A) * Cardinality(B)
      BY <3>1, FS_Product
    <3>3. Cardinality(A) * Cardinality(B) = n
      BY <2>1, <3>1
    <3> QED
      BY <3>2, <3>3 DEF A, B
  <2> QED
    BY <2>2, <2>5 DEF n
<1> DEFINE F == {Units(table, s) : s \in S}
           f == [s \in S |-> Units(table, s)]
<1>2. f \in Surjection(S, F)
  BY DEF Surjection
<1>3. IsFiniteSet(F)
  BY <1>2, FS_Surjection
<1>4. IsFiniteSet(UNION F)
  BY <1>1, <1>3, FS_UNION
<1> QED
  BY <1>1, <1>4 DEF AllUnits

(* A song more has its own units more. *)
LEMMA UnitsOfOneMore ==
  ASSUME NEW table, NEW S, IsFiniteSet(S), \A s \in S : table[s].size \in Nat,
         NEW x \in S
  PROVE  /\ Cardinality(AllUnits(table, S \ {x})) \in Nat
         /\ Cardinality(AllUnits(table, S)) =
              table[x].size + Cardinality(AllUnits(table, S \ {x}))
<1> DEFINE X == Units(table, x)
           Y == AllUnits(table, S \ {x})
<1>1. AllUnits(table, S) = X \cup Y
  <2>1. \A u : u \in AllUnits(table, S) <=> u \in X \/ u \in Y
    <3> TAKE u
    <3>1. u \in AllUnits(table, S) <=> \E s \in S : u \in Units(table, s)
      BY InAllUnits
    <3>2. u \in Y <=> \E s \in S \ {x} : u \in Units(table, s)
      BY InAllUnits
    <3> QED
      BY <3>1, <3>2
  <2> QED
    BY <2>1
<1>2. X \cap Y = {}
  <2> SUFFICES ASSUME NEW u \in X, u \in Y PROVE FALSE
    OBVIOUS
  <2>1. PICK s \in S \ {x} : u \in Units(table, s)
    BY InAllUnits
  <2> QED
    BY <2>1 DEF Units
<1>3. IsFiniteSet(X) /\ Cardinality(X) = table[x].size
  BY UnitsFinite
<1>4. IsFiniteSet(S \ {x})
  BY FS_RemoveElement
<1>5. IsFiniteSet(Y)
  BY <1>4, UnitsFinite
<1>6. Cardinality(X) \in Nat /\ Cardinality(Y) \in Nat
  BY <1>3, <1>5, FS_CardinalityType
<1> HIDE DEF X, Y
<1>7. Cardinality(X \cup Y) = Cardinality(X) + Cardinality(Y) - Cardinality(X \cap Y)
  BY <1>3, <1>5, FS_Union
<1>8. Cardinality(X \cap Y) = 0
  BY <1>2, FS_EmptySet
<1> QED
  BY <1>1, <1>3, <1>6, <1>7, <1>8 DEF Y

(* The sum is the number of units: the counting function satisfies the     *)
(* equation of the sum, and a least set at which another solution differed *)
(* from it would not satisfy its own.                                      *)
LEMMA TotalSizeCounts ==
  ASSUME NEW table, NEW S, IsFiniteSet(S), \A s \in S : table[s].size \in Nat
  PROVE  /\ TotalSize(table, S) = Cardinality(AllUnits(table, S))
         /\ TotalSize(table, S) \in Nat
<1> DEFINE Any(T) == CHOOSE s \in T : TRUE
           Sums(f) == f = [T \in SUBSET S |->
             IF T = {} THEN 0 ELSE table[Any(T)].size + f[T \ {Any(T)}]]
           count == [T \in SUBSET S |-> Cardinality(AllUnits(table, T))]
<1>1. \A T \in SUBSET S : T # {} => Any(T) \in T
  OBVIOUS
<1>2. ASSUME NEW T \in SUBSET S
      PROVE  count[T] = IF T = {} THEN 0
                        ELSE table[Any(T)].size + count[T \ {Any(T)}]
  <2>1. CASE T = {}
    <3>1. AllUnits(table, {}) = {}
      BY DEF AllUnits
    <3> QED
      BY <2>1, <3>1, FS_EmptySet
  <2>2. CASE T # {}
    <3> DEFINE x == Any(T)
    <3>1. x \in T /\ IsFiniteSet(T)
      BY <1>1, <2>2, FS_Subset
    <3> HIDE DEF Any, x
    <3>2. Cardinality(AllUnits(table, T)) =
            table[x].size + Cardinality(AllUnits(table, T \ {x}))
      BY <3>1, UnitsOfOneMore
    <3> QED
      BY <2>2, <3>2 DEF x
  <2> QED
    BY <2>1, <2>2
<1>3. Sums(count)
  BY <1>2
<1> HIDE DEF Any, count
<1>4. ASSUME NEW f, Sums(f)
      PROVE  f[S] = Cardinality(AllUnits(table, S))
  <2> DEFINE Bad == {T \in SUBSET S : f[T] # count[T]}
  <2>1. SUFFICES ASSUME Bad # {} PROVE FALSE
    BY DEF count
  <2>2. Bad \subseteq FiniteSubsetsOf(S)
    BY FS_Subset DEF FiniteSubsetsOf
  <2>3. PICK T \in Bad : \A U \in Bad : ~ (<<U, T>> \in StrictSubsetOrdering(S))
    BY <2>1, <2>2, FS_StrictSubsetOrderingWellFounded, WFMin, Zenon
  <2>4. T \in SUBSET S /\ f[T] # count[T]
    OBVIOUS
  <2>5. f[T] = IF T = {} THEN 0 ELSE table[Any(T)].size + f[T \ {Any(T)}]
    BY <1>4, <2>4
  <2>6. T # {}
    BY <1>2, <2>4, <2>5
  <2> DEFINE U == T \ {Any(T)}
  <2>7. U \in SUBSET S /\ U \subseteq T /\ U # T
    BY <1>1, <2>4, <2>6
  <2>8. <<U, T>> \in StrictSubsetOrdering(S)
    BY <2>4, <2>7 DEF StrictSubsetOrdering
  <2>9. f[U] = count[U]
    BY <2>3, <2>7, <2>8
  <2> QED
    BY <1>2, <2>4, <2>5, <2>6, <2>9
<1> HIDE DEF Sums
<1>5. TotalSize(table, S) = (CHOOSE f : Sums(f))[S]
  BY DEF TotalSize, MapThenSumSet, MapThenFoldSet, Sums, Any
<1>6. Cardinality(AllUnits(table, S)) \in Nat
  BY UnitsFinite, FS_CardinalityType
<1> QED
  BY <1>3, <1>4, <1>5, <1>6

(* More songs are no smaller, and taking one off takes its size off. *)
LEMMA TotalSizeProperties ==
  ASSUME NEW table, NEW S, IsFiniteSet(S), \A s \in S : table[s].size \in Nat
  PROVE  /\ TotalSize(table, S) \in Nat
         /\ \A T \in SUBSET S : /\ TotalSize(table, T) \in Nat
                                /\ TotalSize(table, T) <= TotalSize(table, S)
         /\ \A x \in S : TotalSize(table, S \ {x}) = TotalSize(table, S) - table[x].size
<1>1. /\ TotalSize(table, S) = Cardinality(AllUnits(table, S))
      /\ TotalSize(table, S) \in Nat
  BY TotalSizeCounts
<1>2. ASSUME NEW T \in SUBSET S
      PROVE  /\ TotalSize(table, T) \in Nat
             /\ TotalSize(table, T) <= TotalSize(table, S)
  <2>1. IsFiniteSet(T)
    BY FS_Subset
  <2>2. /\ TotalSize(table, T) = Cardinality(AllUnits(table, T))
        /\ TotalSize(table, T) \in Nat
    BY <2>1, TotalSizeCounts
  <2>3. AllUnits(table, T) \subseteq AllUnits(table, S)
    BY InAllUnits
  <2>4. Cardinality(AllUnits(table, T)) <= Cardinality(AllUnits(table, S))
    BY <2>3, UnitsFinite, FS_Subset
  <2> QED
    BY <1>1, <2>2, <2>4
<1>3. ASSUME NEW x \in S
      PROVE  TotalSize(table, S \ {x}) = TotalSize(table, S) - table[x].size
  <2>1. IsFiniteSet(S \ {x})
    BY FS_RemoveElement
  <2>2. TotalSize(table, S \ {x}) = Cardinality(AllUnits(table, S \ {x}))
    BY <2>1, TotalSizeCounts
  <2>3. /\ Cardinality(AllUnits(table, S \ {x})) \in Nat
        /\ Cardinality(AllUnits(table, S)) =
             table[x].size + Cardinality(AllUnits(table, S \ {x}))
    BY UnitsOfOneMore
  <2>4. table[x].size \in Nat
    OBVIOUS
  <2> QED
    BY <1>1, <2>2, <2>3, <2>4
<1> QED
  BY <1>1, <1>2, <1>3

----------------------------------------------------------------------------
(* The cleaner's loop.  c is the cleaner's state, gone the songs it has    *)
(* deleted and failed those it could not: the songs taken out of the list  *)
(* are those and the one in hand, all older than the ones left; the sum is *)
(* that of the songs not deleted; and each song deleted was still needed.  *)
Listed(c) == DOMAIN c.table
InHand(c) == IF c.at = "deleteRow" THEN {c.song} ELSE {}
Since(c, e) == {s \in Listed(c) : c.table[s].played >= c.table[e].played}

Accounted(c, gone, failed) ==
  /\ IsFiniteSet(Listed(c))
  /\ c.table \in [Listed(c) -> Row]
  /\ c.left \subseteq Listed(c)
  /\ gone \subseteq Listed(c) \ c.left
  /\ InHand(c) \subseteq Listed(c) \ c.left
  /\ InHand(c) \cap gone = {}
  /\ Listed(c) \ c.left \subseteq gone \cup failed \cup InHand(c)
  /\ c.size = TotalSize(c.table, Listed(c) \ gone)
  /\ \A s \in Listed(c) \ c.left : \A t \in c.left :
       c.table[s].played <= c.table[t].played
  /\ \A e \in gone : \A t \in InHand(c) :
       c.table[e].played <= c.table[t].played
  /\ \A e \in gone :
       TotalSize(c.table, (Listed(c) \ gone) \cup Since(c, e)) > MaxSize

Sound(c, gone, failed) ==
  \/ c = Launched /\ gone = {} /\ failed = {}
  \/ /\ c.at \in {"loop", "deleteRow", "done"}
     /\ Accounted(c, gone, failed)
     /\ c.at = "deleteRow" => c.size > MaxSize
     /\ c.at = "done" => c.size <= MaxSize \/ c.left = {}

(* The rows of the table, finitely many as they come one at a time. *)
Rows == {s \in Songs : row[s] # NoRow}

CleanInv == TypeOK /\ IsFiniteSet(Rows) /\ Sound(cleaner, evicted, refused)

(* What the invariant says of the end is what the cleaner promises. *)
LEMMA SoundAtTheEnd == CleanInv => EvictsOldestEnough
<1> SUFFICES ASSUME CleanInv, cleaner.at = "done" PROVE EvictsOldestEnough
  BY DEF EvictsOldestEnough
<1> DEFINE c == cleaner
           kept == Listed(c) \ evicted
<1>1. /\ Accounted(c, evicted, refused)
      /\ c.size <= MaxSize \/ c.left = {}
      /\ InHand(c) = {}
  BY DEF CleanInv, Sound, Launched, InHand
<1>2. TotalSize(c.table, kept) <= MaxSize \/ kept \subseteq refused
  <2>1. c.left = {} => kept \subseteq refused
    BY <1>1 DEF Accounted
  <2> QED
    BY <1>1, <2>1 DEF Accounted
<1>3. ASSUME NEW e \in evicted, NEW s \in kept, c.table[s].played < c.table[e].played
      PROVE  s \in refused
  <2>1. s \notin c.left
    <3>1. SUFFICES ASSUME s \in c.left PROVE FALSE
      OBVIOUS
    <3>2. e \in Listed(c) \ c.left
      BY <1>1 DEF Accounted
    <3>3. c.table[e].played <= c.table[s].played
      BY <1>1, <3>1, <3>2 DEF Accounted
    <3>4. c.table[e].played \in Nat /\ c.table[s].played \in Nat
      BY <1>1, <3>2 DEF Accounted, Row
    <3> HIDE DEF c
    <3> QED
      BY <1>3, <3>3, <3>4
  <2> QED
    BY <1>1, <2>1 DEF Accounted
<1>4. ASSUME NEW e \in evicted
      PROVE  TotalSize(c.table, kept \cup {s \in DOMAIN c.table :
                         c.table[s].played >= c.table[e].played}) > MaxSize
  BY <1>1 DEF Accounted, Since, Listed
<1> QED
  BY <1>2, <1>3, <1>4 DEF EvictsOldestEnough, Listed

(* The songs of a well-formed table have sizes to sum. *)
LEMMA SizesOf ==
  ASSUME NEW c, NEW gone, NEW failed, Accounted(c, gone, failed)
  PROVE  /\ IsFiniteSet(Listed(c))
         /\ \A s \in Listed(c) : c.table[s].size \in Nat /\ c.table[s].played \in Nat
BY DEF Accounted, Row

(* All rows are read at once: nothing is deleted, and the sum is theirs.   *)
LEMMA SoundRead ==
  ASSUME CleanInv, CleanRead
  PROVE  Sound(cleaner', evicted', refused')
<1> DEFINE table == [s \in Rows |-> row[s]]
<1>1. /\ cleaner = Launched
      /\ cleaner' = [at |-> "loop", table |-> table, left |-> Rows,
                     size |-> TotalSize(row, Rows)]
      /\ UNCHANGED <<evicted, refused>>
  BY DEF CleanRead, Rows
<1>2. evicted = {} /\ refused = {}
  BY <1>1 DEF CleanInv, Sound, Launched
<1>3. IsFiniteSet(Rows) /\ table \in [Rows -> Row]
  BY DEF CleanInv, TypeOK, Rows
<1>4. \A s \in Rows : table[s] = row[s] /\ row[s].size \in Nat
  BY <1>3 DEF Row
<1>5. TotalSize(row, Rows) = TotalSize(table, Rows)
  <2>1. \A s \in Rows : Units(row, s) = Units(table, s)
    BY <1>4 DEF Units
  <2>2. AllUnits(row, Rows) = AllUnits(table, Rows)
    BY <2>1, InAllUnits
  <2>3. \A s \in Rows : table[s].size \in Nat
    BY <1>4
  <2> HIDE DEF table
  <2> QED
    BY <1>3, <1>4, <2>2, <2>3, TotalSizeCounts
<1>6. DOMAIN table = Rows
  OBVIOUS
<1> HIDE DEF table
<1> DEFINE c == cleaner'
<1>7. /\ c.at = "loop" /\ c.table = table /\ c.left = Rows
      /\ c.size = TotalSize(table, Rows)
  BY <1>1, <1>5
<1> HIDE DEF c
<1>8. Listed(c) = Rows /\ InHand(c) = {}
  BY <1>6, <1>7 DEF Listed, InHand
<1>9. Rows \ {} = Rows /\ Rows \ Rows = {}
  OBVIOUS
<1>10. Accounted(c, {}, {})
  BY <1>3, <1>7, <1>8, <1>9 DEF Accounted
<1> QED
  BY <1>1, <1>2, <1>7, <1>10 DEF Sound, c

(* The file of the oldest song left is removed, or the song is skipped:    *)
(* either takes it out of the list and leaves the sum alone.               *)
LEMMA SoundTakeOut ==
  ASSUME CleanInv, NEW s \in Songs, RemoveFile(s) \/ SkipFile(s)
  PROVE  Sound(cleaner', evicted', refused')
<1> DEFINE c == cleaner
           d == cleaner'
<1>1. /\ c.at = "loop" /\ c.size > MaxSize /\ s \in c.left
      /\ \A t \in c.left : c.table[s].played <= c.table[t].played
  BY DEF RemoveFile, SkipFile, Cleaning, LeastRecent
<1>2. /\ d.table = c.table /\ d.left = c.left \ {s} /\ d.size = c.size
      /\ evicted' = evicted /\ refused \subseteq refused'
      /\ \/ d.at = "deleteRow" /\ d.song = s
         \/ d.at = "loop" /\ s \in refused'
  BY DEF RemoveFile, SkipFile
<1>3. Accounted(c, evicted, refused) /\ InHand(c) = {}
  BY <1>1 DEF CleanInv, Sound, Launched, InHand
<1> HIDE DEF c, d
<1>4. /\ Listed(d) = Listed(c)
      /\ \A e : Since(d, e) = Since(c, e)
      /\ s \in Listed(c)
      /\ \/ InHand(d) = {s}
         \/ InHand(d) = {} /\ s \in refused'
  BY <1>1, <1>2, <1>3 DEF Listed, Since, InHand, Accounted
<1>5. \A t \in Listed(d) \ d.left : \A u \in d.left :
        d.table[t].played <= d.table[u].played
  BY <1>1, <1>2, <1>3, <1>4 DEF Accounted
<1>6. s \notin evicted
  BY <1>1, <1>3 DEF Accounted
<1>7. /\ d.left \subseteq Listed(d)
      /\ evicted \subseteq Listed(d) \ d.left
      /\ InHand(d) \subseteq Listed(d) \ d.left
      /\ InHand(d) \cap evicted = {}
      /\ Listed(d) \ d.left \subseteq evicted \cup refused' \cup InHand(d)
  BY <1>2, <1>3, <1>4, <1>6 DEF Accounted
<1>8. \A e \in evicted : \A t \in InHand(d) :
        d.table[e].played <= d.table[t].played
  BY <1>1, <1>2, <1>3, <1>4 DEF Accounted
<1>9. Accounted(d, evicted, refused')
  BY <1>2, <1>3, <1>4, <1>5, <1>7, <1>8 DEF Accounted
<1> QED
  BY <1>1, <1>2, <1>9 DEF Sound, d

(* The row is deleted: the sum was too large with the song, and all songs  *)
(* still there or played since are among those summed.                     *)
LEMMA SoundDelete ==
  ASSUME CleanInv, DeleteRow
  PROVE  Sound(cleaner', evicted', refused')
<1> DEFINE c == cleaner
           d == cleaner'
           x == cleaner.song
           kept == Listed(c) \ evicted
           after == Listed(c) \ (evicted \cup {x})
<1>1. /\ c.at = "deleteRow" /\ d.at = "loop"
      /\ d.table = c.table /\ d.left = c.left /\ d.size = c.size - c.table[x].size
      /\ evicted' = evicted \cup {x} /\ refused' = refused
  BY DEF DeleteRow
<1>2. Accounted(c, evicted, refused) /\ InHand(c) = {x} /\ c.size > MaxSize
  BY <1>1 DEF CleanInv, Sound, Launched, InHand
<1>3. /\ x \in Listed(c) /\ x \notin c.left /\ x \notin evicted
      /\ after = kept \ {x} /\ x \in kept
  BY <1>2 DEF Accounted
<1> HIDE DEF c, d, x
<1>4. Listed(d) = Listed(c) /\ InHand(d) = {} /\ \A e : Since(d, e) = Since(c, e)
  BY <1>1 DEF Listed, InHand, Since
<1>5. /\ IsFiniteSet(Listed(c))
      /\ \A s \in Listed(c) : c.table[s].size \in Nat /\ c.table[s].played \in Nat
  BY <1>2, SizesOf
<1>6. c.size = TotalSize(c.table, kept)
  BY <1>2 DEF Accounted
<1>7. d.size = TotalSize(d.table, after)
  <2>1. IsFiniteSet(kept) /\ \A s \in kept : c.table[s].size \in Nat
    BY <1>5, FS_Difference
  <2> HIDE DEF kept, after
  <2> QED
    BY <1>1, <1>3, <1>6, <2>1, TotalSizeProperties
<1>8. ASSUME NEW e \in evicted \cup {x}, NEW A, A = after \cup Since(c, e)
      PROVE  TotalSize(c.table, A) > MaxSize
  <2>1. A \subseteq Listed(c)
    BY <1>8 DEF Since
  <2>2. IsFiniteSet(A) /\ \A s \in A : c.table[s].size \in Nat
    BY <1>5, <2>1, FS_Subset
  <2>3. ASSUME NEW B \in SUBSET A, TotalSize(c.table, B) > MaxSize
        PROVE  TotalSize(c.table, A) > MaxSize
    <3>1. /\ TotalSize(c.table, A) \in Nat /\ TotalSize(c.table, B) \in Nat
          /\ TotalSize(c.table, B) <= TotalSize(c.table, A)
      BY <2>2, TotalSizeProperties
    <3>2. MaxSize \in Nat
      BY CacheSongsAssumption
    <3> QED
      BY <2>3, <3>1, <3>2
  <2>4. CASE e = x
    <3>1. x \in Since(c, x)
      BY <1>3, <1>5 DEF Since
    <3>2. kept \subseteq A
      BY <1>8, <2>4, <3>1
    <3> QED
      BY <1>2, <1>6, <2>3, <3>2
  <2>5. CASE e \in evicted
    <3>1. TotalSize(c.table, kept \cup Since(c, e)) > MaxSize
      BY <1>2, <2>5 DEF Accounted
    <3>2. x \in Since(c, e)
      <4>1. c.table[e].played <= c.table[x].played /\ e \in Listed(c)
        BY <1>2, <2>5 DEF Accounted
      <4> QED
        BY <1>3, <1>5, <4>1 DEF Since
    <3>3. kept \cup Since(c, e) \subseteq A
      BY <1>8, <3>2
    <3> QED
      BY <2>3, <3>1, <3>3
  <2> QED
    BY <2>4, <2>5
<1>9. Accounted(d, evicted', refused')
  <2>1. \A e \in evicted' :
          TotalSize(d.table, (Listed(d) \ evicted') \cup Since(d, e)) > MaxSize
    BY <1>1, <1>4, <1>8
  <2>2. /\ d.left \subseteq Listed(d)
        /\ evicted' \subseteq Listed(d) \ d.left
        /\ InHand(d) \subseteq Listed(d) \ d.left
        /\ InHand(d) \cap evicted' = {}
        /\ Listed(d) \ d.left \subseteq evicted' \cup refused' \cup InHand(d)
    BY <1>1, <1>2, <1>3, <1>4 DEF Accounted
  <2>3. Listed(d) \ evicted' = after
    BY <1>1, <1>4
  <2> HIDE DEF after, kept
  <2> QED
    BY <1>1, <1>2, <1>4, <1>7, <2>1, <2>2, <2>3 DEF Accounted
<1> QED
  BY <1>1, <1>9 DEF Sound, d

(* The loop ends when the rest fits or nothing is left, and a restart      *)
(* forgets it.                                                             *)
LEMMA SoundEnd ==
  ASSUME CleanInv, CleanEnd \/ Restart
  PROVE  Sound(cleaner', evicted', refused')
<1>1. CASE Restart
  BY <1>1 DEF Restart, Sound
<1>2. CASE CleanEnd
  <2> DEFINE c == cleaner
             d == cleaner'
  <2>1. /\ c.at = "loop" /\ (c.size <= MaxSize \/ c.left = {})
        /\ d.at = "done" /\ d.table = c.table /\ d.left = c.left /\ d.size = c.size
        /\ UNCHANGED <<evicted, refused>>
    BY <1>2 DEF CleanEnd
  <2>2. Accounted(c, evicted, refused) /\ InHand(c) = {}
    BY <2>1 DEF CleanInv, Sound, Launched, InHand
  <2> HIDE DEF c, d
  <2>3. Listed(d) = Listed(c) /\ InHand(d) = {} /\ \A e : Since(d, e) = Since(c, e)
    BY <2>1 DEF Listed, InHand, Since
  <2>4. Accounted(d, evicted, refused)
    BY <2>1, <2>2, <2>3 DEF Accounted
  <2> QED
    BY <2>1, <2>4 DEF Sound, d
<1> QED
  BY <1>1, <1>2

(* A step inserts at most one row. *)
LEMMA RowsStayFinite ==
  ASSUME CleanInv, [Next]_vars
  PROVE  IsFiniteSet(Rows')
<1>1. \E s : Rows' \subseteq Rows \cup {s}
  <2>0. TypeOK
    BY DEF CleanInv
  <2>1. row' = row => Rows' \subseteq Rows \cup {0}
    BY DEF Rows
  <2>2. ASSUME NEW s, NEW new, row' = [row EXCEPT ![s] = new]
        PROVE  Rows' \subseteq Rows \cup {s}
    BY <2>0, <2>2 DEF Rows, TypeOK
  <2>3. ASSUME NEW s, NEW new, UpdateRow(s, new)
        PROVE  Rows' \subseteq Rows \cup {s}
    BY <2>0, <2>3 DEF Rows, TypeOK, UpdateRow
  <2>4. PlayUpdate \/ SyncWrite => \E s, new : UpdateRow(s, new)
    BY DEF PlayUpdate, SyncWrite
  <2>5. PlayInsert \/ DeleteRow => \E s, new : row' = [row EXCEPT ![s] = new]
    BY DEF PlayInsert, InsertRow, DeleteRow
  <2>6. ASSUME NEW s \in Songs, NEW c \in Chunks,
               ReadChunk(s, c) \/ FetchChunk(s, c) \/ WriteChunk(s, c)
        PROVE  row' = row
    BY <2>6 DEF ReadChunk, FetchChunk, WriteChunk
  <2>7. ASSUME NEW s \in Songs,
               PlayWithSong(s) \/ SyncMeasure(s) \/ RemoveFile(s) \/ SkipFile(s)
        PROVE  row' = row
    BY <2>7 DEF PlayWithSong, SyncMeasure, RemoveFile, SkipFile
  <2>8. PlayQuery \/ SyncRead \/ CleanRead \/ CleanEnd \/ Restart \/ UNCHANGED vars
          => row' = row
    BY DEF PlayQuery, SyncRead, CleanRead, CleanEnd, Restart, vars
  <2>9. \/ row' = row
        \/ \E s, new : UpdateRow(s, new)
        \/ \E s, new : row' = [row EXCEPT ![s] = new]
    BY <2>4, <2>5, <2>6, <2>7, <2>8 DEF Next
  <2> QED
    BY <2>1, <2>2, <2>3, <2>9
<1>2. PICK s : Rows' \subseteq Rows \cup {s}
  BY <1>1
<1>3. IsFiniteSet(Rows \cup {s})
  BY FS_AddElement DEF CleanInv
<1> QED
  BY <1>2, <1>3, FS_Subset

(* Every step keeps the cleaner's books. *)
LEMMA CleanNext == CleanInv /\ [Next]_vars => CleanInv'
<1> SUFFICES ASSUME CleanInv, [Next]_vars
             PROVE  Sound(cleaner', evicted', refused')
  BY TypeNext, RowsStayFinite DEF CleanInv
<1> DEFINE Same == UNCHANGED <<cleaner, evicted, refused>>
<1>1. ASSUME NEW s \in Songs, NEW c \in Chunks,
             ReadChunk(s, c) \/ FetchChunk(s, c) \/ WriteChunk(s, c)
      PROVE  Same
  BY <1>1 DEF ReadChunk, FetchChunk, WriteChunk
<1>2. ASSUME NEW s \in Songs, PlayWithSong(s) \/ SyncMeasure(s) PROVE Same
  BY <1>2 DEF PlayWithSong, SyncMeasure
<1>3. PlayQuery \/ PlayUpdate \/ PlayInsert \/ SyncRead \/ SyncWrite => Same
  BY DEF PlayQuery, PlayUpdate, PlayInsert, SyncRead, SyncWrite
<1>4. UNCHANGED vars => Same
  BY DEF vars
<1>5. Same => Sound(cleaner', evicted', refused')
  BY DEF CleanInv
<1> HIDE DEF Same
<1> QED
  BY <1>1, <1>2, <1>3, <1>4, <1>5, SoundRead, SoundTakeOut, SoundDelete, SoundEnd
     DEF Next

(* When the cleaner is done the songs it left fit or could not be deleted; *)
(* every song it deleted was older than those it left, and still needed:   *)
(* for any songs, sizes and budget, whatever the other threads write.      *)
THEOREM CleanerEvictsOldest == Spec => []EvictsOldestEnough
<1>1. Init => CleanInv
  <2> SUFFICES ASSUME Init PROVE CleanInv
    OBVIOUS
  <2>1. Rows = {}
    BY DEF Init, Rows
  <2> QED
    BY <2>1, TypeInit, FS_EmptySet DEF Init, CleanInv, Sound
<1> QED
  BY <1>1, CleanNext, SoundAtTheEnd, PTL DEF Spec
=============================================================================
