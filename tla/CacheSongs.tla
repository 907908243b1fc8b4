----------------------------- MODULE CacheSongs -----------------------------
(***************************************************************************)
(* The table cacheSongs of DBManager, and the cache files it accounts for.  *)
(* Three threads read and write it, each statement by itself:              *)
(*   - the main thread, in playWithSong, looks for the song's row, reads   *)
(*     it and writes it back with the new time, or inserts it;             *)
(*   - routerQueue, in syncCacheInfoToDBForKey, reads the row and writes   *)
(*     it back with the size the index counts;                             *)
(*   - cleanQueue, once after the launch, reads all rows and deletes files *)
(*     and rows, least recently played first, until the rest fits.         *)
(* The streaming itself is reduced to the chunks it stores.                *)
(***************************************************************************)
EXTENDS Integers, FiniteSets, FiniteSetsExt

CONSTANTS
  Songs,
  Chunks,       (* the pieces of a song, all of one size *)
  MaxSize,      (* maxSize of cleanCacheWithMaxSize, in chunks *)
  MaxPlays,     (* bound: how often songs are played *)
  MaxRestarts,  (* bound: how often the app is killed and started again *)
  NoRow         (* the table has no row of the song *)

ASSUME CacheSongsAssumption ==
  /\ IsFiniteSet(Chunks)
  /\ MaxSize \in Nat /\ MaxPlays \in Nat /\ MaxRestarts \in Nat
  /\ NoRow \notin [played : Nat, size : Nat]

VARIABLES
  row,       (* row[s]: lastPlayTimestamp and cacheSize of s, or NoRow *)
  file,      (* file[s]: the chunks in the cache file; {} if no file *)
  cached,    (* cached[s]: the chunks LZCacheIndex knows *)
  queued,    (* queued[s]: the chunks ioQueue has still to write *)
  main,      (* where the main thread is in playWithSong *)
  router,    (* where routerQueue is in syncCacheInfoToDBForKey *)
  cleaner,   (* where cleanQueue is in cleanCacheWithMaxSize *)
  streamed,  (* the songs AVPlayer has been given since the launch *)
  stored,    (* those whose file has been read or written since then *)
  clock,     (* the time: how often songs were played *)
  restarts,  (* how often the app was killed *)
  evicted,   (* history: the songs the cleaner has deleted since the launch *)
  refused,   (* history: those whose file it could not delete *)
  strays     (* history: the songs written to after the cleaner had removed *)
             (* their file and before they had a row again *)

vars == <<row, file, cached, queued, main, router, cleaner, streamed, stored,
          clock, restarts, evicted, refused, strays>>

Idle == [at |-> "idle"]
Launched == [at |-> "launched"]

Init ==
  /\ row = [s \in Songs |-> NoRow]
  /\ file = [s \in Songs |-> {}]
  /\ cached = [s \in Songs |-> {}]
  /\ queued = [s \in Songs |-> {}]
  /\ main = Idle
  /\ router = Idle
  /\ cleaner = Launched
  /\ streamed = {} /\ stored = {}
  /\ clock = 0
  /\ restarts = 0
  /\ evicted = {} /\ refused = {} /\ strays = {}

(* An UPDATE changes the row it finds: a row deleted meanwhile stays away. *)
UpdateRow(s, new) ==
  row' = [row EXCEPT ![s] = IF @ = NoRow THEN NoRow ELSE new]

----------------------------------------------------------------------------
(* The main thread plays s: the time is taken, and dataBaseHasObject       *)
(* decides between update and insert.                                      *)
PlayWithSong(s) ==
  /\ main = Idle
  /\ clock < MaxPlays
  /\ clock' = clock + 1
  /\ main' = [at |-> IF row[s] = NoRow THEN "insert" ELSE "query",
              song |-> s, time |-> clock + 1]
  /\ UNCHANGED <<row, file, cached, queued, router, cleaner, streamed, stored,
                 restarts, evicted, refused, strays>>

(* Either way AVPlayer is given the song in the end. *)
Stream(s) ==
  /\ main' = Idle
  /\ streamed' = streamed \cup {s}

(* The slip of taking the row for granted. *)
PlayQueryUnchecked ==
  /\ main.at = "query"
  /\ main' = [at |-> "update", song |-> main.song, time |-> main.time,
              existing |-> row[main.song]]
  /\ UNCHANGED <<row, file, cached, queued, router, cleaner, streamed, stored,
                 clock, restarts, evicted, refused, strays>>

(* querySongWithSongId; the row may be gone, and nothing is inserted then. *)
PlayQuery ==
  /\ main.at = "query"
  /\ IF row[main.song] = NoRow
     THEN Stream(main.song)
     ELSE /\ main' = [at |-> "update", song |-> main.song, time |-> main.time,
                      existing |-> row[main.song]]
          /\ UNCHANGED streamed
  /\ UNCHANGED <<row, file, cached, queued, router, cleaner, stored, clock,
                 restarts, evicted, refused, strays>>

(* updateObject writes all columns of the object that was read. *)
PlayUpdate ==
  /\ main.at = "update"
  /\ UpdateRow(main.song, [main.existing EXCEPT !.played = main.time])
  /\ Stream(main.song)
  /\ UNCHANGED <<file, cached, queued, router, cleaner, stored, clock,
                 restarts, evicted, refused, strays>>

(* The slip of leaving the insert to the first sync. *)
InsertRowLater(s, new) == UNCHANGED row

(* Only the main thread inserts, so that the row is still missing. *)
InsertRow(s, new) == row' = [row EXCEPT ![s] = new]

PlayInsert ==
  /\ main.at = "insert"
  /\ InsertRow(main.song, [played |-> main.time, size |-> 0])
  /\ Stream(main.song)
  /\ UNCHANGED <<file, cached, queued, router, cleaner, stored, clock,
                 restarts, evicted, refused, strays>>

----------------------------------------------------------------------------
(* A chunk is read from the file, and the index told of it. *)
ReadChunk(s, c) ==
  /\ s \in streamed
  /\ c \in file[s]
  /\ cached' = [cached EXCEPT ![s] = @ \cup {c}]
  /\ stored' = stored \cup {s}
  /\ UNCHANGED <<row, file, queued, main, router, cleaner, streamed, clock,
                 restarts, evicted, refused, strays>>

(* A chunk comes from the network, for a request that did not find it in   *)
(* the file or as a preload of what the index does not know: the index is  *)
(* told at once, the file later.                                           *)
FetchChunk(s, c) ==
  /\ s \in streamed
  /\ c \notin queued[s] /\ c \notin file[s] \cap cached[s]
  /\ cached' = [cached EXCEPT ![s] = @ \cup {c}]
  /\ queued' = [queued EXCEPT ![s] = @ \cup {c}]
  /\ UNCHANGED <<row, file, main, router, cleaner, streamed, stored, clock,
                 restarts, evicted, refused, strays>>

(* The cleaner has removed the file of s and is about to delete its row. *)
Removing(s) == cleaner.at = "deleteRow" /\ cleaner.song = s

(* ioQueue writes a chunk; a file that is gone is created again. *)
WriteChunk(s, c) ==
  /\ c \in queued[s]
  /\ queued' = [queued EXCEPT ![s] = @ \ {c}]
  /\ file' = [file EXCEPT ![s] = @ \cup {c}]
  /\ stored' = stored \cup {s}
  /\ strays' = IF row[s] = NoRow \/ Removing(s) THEN strays \cup {s} ELSE strays
  /\ UNCHANGED <<row, cached, main, router, cleaner, streamed, clock,
                 restarts, evicted, refused>>

----------------------------------------------------------------------------
(* syncCacheInfoToDBForKey, after a read or a write of the file: if there  *)
(* is a row, ask the index for the size.                                   *)
SyncMeasure(s) ==
  /\ router = Idle
  /\ s \in stored
  /\ row[s] # NoRow
  /\ router' = [at |-> "read", song |-> s, size |-> Cardinality(cached[s])]
  /\ UNCHANGED <<row, file, cached, queued, main, cleaner, streamed, stored,
                 clock, restarts, evicted, refused, strays>>

(* updateSongCacheInfo reads the row. *)
SyncRead ==
  /\ router.at = "read"
  /\ router' = IF row[router.song] = NoRow THEN Idle
               ELSE [at |-> "write", song |-> router.song,
                     obj |-> [row[router.song] EXCEPT !.size = router.size]]
  /\ UNCHANGED <<row, file, cached, queued, main, cleaner, streamed, stored,
                 clock, restarts, evicted, refused, strays>>

(* It writes all columns of the object that was read. *)
SyncWrite ==
  /\ router.at = "write"
  /\ UpdateRow(router.song, router.obj)
  /\ router' = Idle
  /\ UNCHANGED <<file, cached, queued, main, cleaner, streamed, stored, clock,
                 restarts, evicted, refused, strays>>

----------------------------------------------------------------------------
(* The size of a set of songs, by the rows of a table. *)
TotalSize(table, S) == MapThenSumSet(LAMBDA s : table[s].size, S)

(* The cleaner reads all rows.  It returns at once if they fit, which is    *)
(* what its loop does.                                                     *)
CleanRead ==
  /\ cleaner = Launched
  /\ LET listed == {s \in Songs : row[s] # NoRow}
     IN  cleaner' = [at |-> "loop", table |-> [s \in listed |-> row[s]],
                     left |-> listed, size |-> TotalSize(row, listed)]
  /\ UNCHANGED <<row, file, cached, queued, main, router, streamed, stored,
                 clock, restarts, evicted, refused, strays>>

(* The slip of a comparator the wrong way round. *)
MostRecent(s) ==
  \A t \in cleaner.left : cleaner.table[t].played <= cleaner.table[s].played

(* s is the first song left in the order of lastPlayTimestamp. *)
LeastRecent(s) ==
  \A t \in cleaner.left : cleaner.table[s].played <= cleaner.table[t].played

(* The cleaner's next song, while the rest is too large. *)
Cleaning(s) ==
  /\ cleaner.at = "loop"
  /\ cleaner.size > MaxSize
  /\ s \in cleaner.left
  /\ LeastRecent(s)

(* The slip of taking a failed removal for a removal. *)
FileKept(s) == UNCHANGED file

(* The file is removed; a file that does not exist counts as removed. *)
FileRemoved(s) == file' = [file EXCEPT ![s] = {}]

RemoveFile(s) ==
  /\ Cleaning(s)
  /\ FileRemoved(s)
  /\ cleaner' = [at |-> "deleteRow", table |-> cleaner.table,
                 left |-> cleaner.left \ {s}, size |-> cleaner.size, song |-> s]
  /\ UNCHANGED <<row, cached, queued, main, router, streamed, stored, clock,
                 restarts, evicted, refused, strays>>

(* An existing file cannot be removed: the song is skipped. *)
SkipFile(s) ==
  /\ Cleaning(s)
  /\ file[s] # {}
  /\ cleaner' = [at |-> "loop", table |-> cleaner.table,
                 left |-> cleaner.left \ {s}, size |-> cleaner.size]
  /\ refused' = refused \cup {s}
  /\ UNCHANGED <<row, file, cached, queued, main, router, streamed, stored,
                 clock, restarts, evicted, strays>>

(* deleteSongWithId, and the size of the song is taken off. *)
DeleteRow ==
  /\ cleaner.at = "deleteRow"
  /\ LET s == cleaner.song
     IN  /\ row' = [row EXCEPT ![s] = NoRow]
         /\ evicted' = evicted \cup {s}
         /\ cleaner' = [at |-> "loop", table |-> cleaner.table,
                        left |-> cleaner.left,
                        size |-> cleaner.size - cleaner.table[s].size]
  /\ UNCHANGED <<file, cached, queued, main, router, streamed, stored, clock,
                 restarts, refused, strays>>

(* The loop has run out of songs, or the rest fits. *)
CleanEnd ==
  /\ cleaner.at = "loop"
  /\ cleaner.size <= MaxSize \/ cleaner.left = {}
  /\ cleaner' = [at |-> "done", table |-> cleaner.table,
                 left |-> cleaner.left, size |-> cleaner.size]
  /\ UNCHANGED <<row, file, cached, queued, main, router, streamed, stored,
                 clock, restarts, evicted, refused, strays>>

(* The app is killed, wherever its threads are, and started again: files   *)
(* and rows survive, and the cleaner is started.                           *)
Restart ==
  /\ restarts < MaxRestarts
  /\ restarts' = restarts + 1
  /\ cached' = [s \in Songs |-> {}]
  /\ queued' = [s \in Songs |-> {}]
  /\ main' = Idle
  /\ router' = Idle
  /\ cleaner' = Launched
  /\ streamed' = {} /\ stored' = {}
  /\ evicted' = {} /\ refused' = {}
  /\ UNCHANGED <<row, file, clock, strays>>

Next ==
  \/ \E s \in Songs : PlayWithSong(s)
  \/ PlayQuery \/ PlayUpdate \/ PlayInsert
  \/ \E s \in Songs, c \in Chunks :
       ReadChunk(s, c) \/ FetchChunk(s, c) \/ WriteChunk(s, c)
  \/ \E s \in Songs : SyncMeasure(s)
  \/ SyncRead \/ SyncWrite
  \/ CleanRead
  \/ \E s \in Songs : RemoveFile(s) \/ SkipFile(s)
  \/ DeleteRow \/ CleanEnd
  \/ Restart

Spec == Init /\ [][Next]_vars

----------------------------------------------------------------------------
(* What a row holds, and where the three threads can be. *)
Row == [played : Nat, size : Nat]

MainStates ==
  {Idle}
    \cup [at : {"query", "insert"}, song : Songs, time : Nat]
    \cup [at : {"update"}, song : Songs, time : Nat, existing : Row]

RouterStates ==
  {Idle}
    \cup [at : {"read"}, song : Songs, size : Nat]
    \cup [at : {"write"}, song : Songs, obj : Row]

(* Rows, files and threads are well formed.  The cleaner's table and sum   *)
(* are the subject of EvictsOldestEnough.                                  *)
TypeOK ==
  /\ row \in [Songs -> Row \cup {NoRow}]
  /\ file \in [Songs -> SUBSET Chunks]
  /\ cached \in [Songs -> SUBSET Chunks]
  /\ queued \in [Songs -> SUBSET Chunks]
  /\ main \in MainStates
  /\ router \in RouterStates
  /\ cleaner.at \in {"launched", "loop", "deleteRow", "done"}
  /\ cleaner.at = "deleteRow" => cleaner.song \in Songs
  /\ clock \in 0 .. MaxPlays
  /\ restarts \in 0 .. MaxRestarts
  /\ streamed \subseteq Songs /\ stored \subseteq Songs
  /\ evicted \subseteq Songs
  /\ refused \subseteq Songs /\ strays \subseteq Songs

(* The cleaner deletes enough and no more than that: when it is done, the  *)
(* songs it left fit, or could not be deleted; every song it deleted was   *)
(* older than those it left, but for these, and without it the later ones  *)
(* would not have fitted.                                                  *)
EvictsOldestEnough ==
  cleaner.at = "done" =>
    LET table == cleaner.table
        kept == DOMAIN table \ evicted
    IN  /\ TotalSize(table, kept) <= MaxSize \/ kept \subseteq refused
        /\ \A e \in evicted :
             /\ \A s \in kept :
                  table[s].played < table[e].played => s \in refused
             /\ TotalSize(table, kept \cup {s \in DOMAIN table :
                            table[s].played >= table[e].played}) > MaxSize

(* A song that is streamed has a row, by which a later cleaner will find   *)
(* its file, unless the cleaner of this launch has deleted the row: then   *)
(* playWithSong may have seen it and found it gone, and inserts none.      *)
StreamedHasRow ==
  \A s \in streamed : row[s] = NoRow => s \in evicted

(* A file without a row, which no cleaner will ever find, comes about only *)
(* when the song is written to after the cleaner has removed its file; a   *)
(* kill or a failed removal leaves at worst a row without a file.          *)
OrphansAreStrays ==
  \A s \in Songs : file[s] # {} /\ row[s] = NoRow => s \in strays

----------------------------------------------------------------------------
(* What the comments say, and the code does not. *)

(* updateSongCacheInfo changes nothing of a row but what it says of the    *)
(* cache ("仅更新某首歌的缓存信息", comment on line 45 of DBManager.h).      *)
UpdatesOnlyCacheInfo ==
  [][router.at = "write" =>
       \A s \in Songs : row[s] # NoRow /\ row'[s] # NoRow /\ row'[s] # row[s]
         /\ main' = main => row'[s].played = row[s].played]_vars

(* The size a sync records is that of the file, at least ("已缓存大小",      *)
(* comment on the column cacheSize in SongDBModel.h, line 19).             *)
SizeCoversFile ==
  [][router = Idle /\ router'.at = "read" =>
       router'.size >= Cardinality(file[router'.song])]_vars
=============================================================================
