---------------------------- MODULE LZCacheIndex ----------------------------
(***************************************************************************)
(* LZCacheIndex: which byte ranges of each song are cached, which are      *)
(* being downloaded, and how long the song is.                             *)
(*                                                                         *)
(* Every operation runs as one block on the serial queue of its key        *)
(* (queueForKey), so a block is one atomic action here; in which order the *)
(* blocks of concurrent callers run, and what a caller may conclude, is    *)
(* the subject of LZCacheIndexQueues.  The early return of every operation *)
(* for an empty key or a zero length leaves the state unchanged and is the *)
(* positive-length guard of the actions.                                   *)
(***************************************************************************)
EXTENDS LZCacheRanges

CONSTANTS
  Keys,      (* the songs *)
  Unknown    (* totalMap[key] is nil *)

ASSUME UnknownAssumption == Unknown \notin Nat

VARIABLES
  map,         (* map[k]: the cached ranges; {} for an absent key *)
  loadingMap,  (* loadingMap[k]: the ranges being downloaded; {} if absent *)
  totalMap     (* totalMap[k]: the total length, or Unknown *)

vars == <<map, loadingMap, totalMap>>

Init ==
  /\ map = [k \in Keys |-> {}]
  /\ loadingMap = [k \in Keys |-> {}]
  /\ totalMap = [k \in Keys |-> Unknown]

----------------------------------------------------------------------------
(* Queries. *)

(* The slip of looking only at where the range begins. *)
IsStartLoading(k, start, length) ==
  /\ length > 0
  /\ \E r \in loadingMap[k] : start \in r.start .. r.end

IsRangeLoadingForKey(k, start, length) ==
  /\ length > 0
  /\ \E r \in loadingMap[k] : Overlaps(RangeOf(start, length), r)

(* The slip of comparing with the byte after the last. *)
IsRangeCachedExclusive(k, start, length) ==
  \/ length = 0
  \/ \E r \in map[k] : start >= r.start /\ start + length <= r.end

IsRangeCachedForKey(k, start, length) ==
  \/ length = 0
  \/ \E r \in map[k] : start >= r.start /\ start + length - 1 <= r.end

NextMissingOffsetForKey(k) == NextMissing(map[k])

IsCompletedForKey(k) ==
  /\ totalMap[k] # Unknown
  /\ NextMissing(map[k]) >= totalMap[k]

CachedTotalLengthForKey(k) == CachedLength(map[k])

----------------------------------------------------------------------------
(* Updates. *)

(* Answers YES, and records the range, only if it overlaps no other. *)
MarkRangeLoadingForKey(k, start, length) ==
  /\ length > 0
  /\ ~IsRangeLoadingForKey(k, start, length)
  /\ loadingMap' = [loadingMap EXCEPT ![k] = @ \cup {RangeOf(start, length)}]
  /\ UNCHANGED <<map, totalMap>>

(* Removes the loading range with exactly these bounds, if there is one. *)
UnmarkRangeLoadingForKey(k, start, length) ==
  /\ length > 0
  /\ loadingMap' = [loadingMap EXCEPT ![k] = @ \ {RangeOf(start, length)}]
  /\ UNCHANGED <<map, totalMap>>

AddRangeForKey(k, start, length) ==
  /\ length > 0
  /\ map' = [map EXCEPT ![k] = Merged(@, RangeOf(start, length))]
  /\ UNCHANGED <<loadingMap, totalMap>>

RemoveRangeForKey(k, start, length) ==
  /\ length > 0
  /\ map' = [map EXCEPT ![k] = Without(@, RangeOf(start, length))]
  /\ UNCHANGED <<loadingMap, totalMap>>

SetTotalLength(k, length) ==
  /\ totalMap' = [totalMap EXCEPT ![k] = length]
  /\ UNCHANGED <<map, loadingMap>>

(* The loading ranges of the key stay. *)
ClearForKey(k) ==
  /\ map' = [map EXCEPT ![k] = {}]
  /\ totalMap' = [totalMap EXCEPT ![k] = Unknown]
  /\ UNCHANGED loadingMap

Next ==
  \E k \in Keys :
    \/ \E c \in Call :
         \/ MarkRangeLoadingForKey(k, c.start, c.length)
         \/ UnmarkRangeLoadingForKey(k, c.start, c.length)
         \/ AddRangeForKey(k, c.start, c.length)
         \/ RemoveRangeForKey(k, c.start, c.length)
    \/ \E n \in 0 .. LastByte + 1 : SetTotalLength(k, n)
    \/ ClearForKey(k)

Spec == Init /\ [][Next]_vars

----------------------------------------------------------------------------
(* Every map holds sets of well-formed ranges. *)
TypeOK ==
  /\ map \in [Keys -> SUBSET CacheRange]
  /\ loadingMap \in [Keys -> SUBSET CacheRange]
  /\ totalMap \in [Keys -> Nat \cup {Unknown}]

(* However adds, removals and clears interleave, the cached ranges of a    *)
(* key neither overlap nor touch: the single merging pass of addRange      *)
(* (lines 125-131) and the in-place edits of removeRange rely on it.       *)
CachedSeparated == \A k \in Keys : Separated(map[k])

(* Two ranges being downloaded never share a byte, although unmark only    *)
(* ever removes an exact match and clear forgets to touch loadingMap.      *)
LoadingDisjoint == \A k \in Keys : Disjoint(loadingMap[k])

(* A call is reported cached iff all its bytes are.  The loop wants ONE    *)
(* range to hold the call, so no run of cached bytes may be split in two.  *)
CachedAnswerExact ==
  \A k \in Keys : \A c \in Call :
    IsRangeCachedForKey(k, c.start, c.length) <=>
      c.start .. (c.start + c.length - 1) \subseteq Bytes(map[k])

(* cachedTotalLength, the size the database is told, counts each cached    *)
(* byte exactly once.                                                      *)
LengthAnswerExact ==
  \A k \in Keys : CachedTotalLengthForKey(k) = Cardinality(Bytes(map[k]))

(* addRange adds the bytes of its call and removeRange removes them, no    *)
(* more and no less, whichever ranges they join, cut or swallow.           *)
UpdateExact(k, c) ==
  LET span == c.start .. (c.start + c.length - 1)
  IN  /\ AddRangeForKey(k, c.start, c.length) =>
           Bytes(map'[k]) = Bytes(map[k]) \cup span
      /\ RemoveRangeForKey(k, c.start, c.length) =>
           Bytes(map'[k]) = Bytes(map[k]) \ span

UpdatesExact == [][\A k \in Keys, c \in Call : UpdateExact(k, c)]_vars

(* The index implements the byte-level specification. *)
CB == INSTANCE CachedBytes
        WITH bytes <- [k \in Keys |-> Bytes(map[k])],
             claimed <- [k \in Keys |-> Bytes(loadingMap[k])],
             total <- totalMap

CachedBytesSpec == CB!Spec
=============================================================================
