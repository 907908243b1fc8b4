------------------------ MODULE LZCacheIndex_proofs ------------------------
(***************************************************************************)
(* The index, for any number of keys and any LastByte: type correctness,   *)
(* separation of the cached ranges, disjointness of the loading ranges,    *)
(* and that the ranges implement the byte-level specification.             *)
(***************************************************************************)
EXTENDS LZCacheIndex, LZCacheRanges_proofs

(* The inductive invariant: the three safety invariants together; each of  *)
(* the last two is kept only by well-formed ranges.                        *)
IndexInv == TypeOK /\ CachedSeparated /\ LoadingDisjoint

(* An empty index satisfies the invariant. *)
LEMMA IndexInvInit == Init => IndexInv
BY DEF Init, IndexInv, TypeOK, CachedSeparated, LoadingDisjoint, Separated, Disjoint

(* A marked range overlaps none of those marked before. *)
LEMMA MarkKeeps ==
  ASSUME IndexInv, NEW k \in Keys, NEW c \in Call,
         MarkRangeLoadingForKey(k, c.start, c.length)
  PROVE  IndexInv'
<1> DEFINE r == RangeOf(c.start, c.length)
<1>1. /\ c.length > 0
      /\ loadingMap' = [loadingMap EXCEPT ![k] = @ \cup {r}]
      /\ UNCHANGED <<map, totalMap>>
      /\ \A q \in loadingMap[k] : ~Overlaps(r, q)
  BY DEF MarkRangeLoadingForKey, IsRangeLoadingForKey
<1>2. r \in CacheRange
  BY <1>1, RangeOfType
<1> HIDE DEF r
<1>3. TypeOK'
  BY <1>1, <1>2 DEF IndexInv, TypeOK
<1>4. \A q \in loadingMap[k] : ~Overlaps(q, r)
  BY <1>1, <1>2, LastByteAssumption
     DEF IndexInv, TypeOK, Overlaps, CacheRange, Offset
<1>5. LoadingDisjoint'
  BY <1>1, <1>4 DEF IndexInv, TypeOK, LoadingDisjoint, Disjoint
<1>6. CachedSeparated'
  BY <1>1 DEF IndexInv, CachedSeparated
<1> QED
  BY <1>3, <1>5, <1>6 DEF IndexInv

(* Unmarking leaves a subset of disjoint ranges. *)
LEMMA UnmarkKeeps ==
  ASSUME IndexInv, NEW k \in Keys, NEW c \in Call,
         UnmarkRangeLoadingForKey(k, c.start, c.length)
  PROVE  IndexInv'
BY DEF UnmarkRangeLoadingForKey, IndexInv, TypeOK, CachedSeparated,
       LoadingDisjoint, Disjoint

(* The joined range neither overlaps nor touches those that stay. *)
LEMMA AddKeeps ==
  ASSUME IndexInv, NEW k \in Keys, NEW c \in Call,
         AddRangeForKey(k, c.start, c.length)
  PROVE  IndexInv'
<1> DEFINE r == RangeOf(c.start, c.length)
<1>1. /\ c.length > 0
      /\ map' = [map EXCEPT ![k] = Merged(@, r)]
      /\ UNCHANGED <<loadingMap, totalMap>>
  BY DEF AddRangeForKey
<1>2. r \in CacheRange
  BY <1>1, RangeOfType
<1> HIDE DEF r
<1>3. /\ Merged(map[k], r) \subseteq CacheRange
      /\ Separated(Merged(map[k], r))
  BY <1>2, MergedType, MergedSeparated DEF IndexInv, TypeOK, CachedSeparated
<1> QED
  BY <1>1, <1>3 DEF IndexInv, TypeOK, CachedSeparated, LoadingDisjoint

(* What a removal leaves of separated ranges is separated. *)
LEMMA RemoveKeeps ==
  ASSUME IndexInv, NEW k \in Keys, NEW c \in Call,
         RemoveRangeForKey(k, c.start, c.length)
  PROVE  IndexInv'
<1> DEFINE r == RangeOf(c.start, c.length)
<1>1. /\ c.length > 0
      /\ map' = [map EXCEPT ![k] = Without(@, r)]
      /\ UNCHANGED <<loadingMap, totalMap>>
  BY DEF RemoveRangeForKey
<1>2. r \in CacheRange
  BY <1>1, RangeOfType
<1> HIDE DEF r
<1>3. map[k] \subseteq CacheRange /\ Separated(map[k])
  BY DEF IndexInv, TypeOK, CachedSeparated
<1>4. /\ Without(map[k], r) \subseteq CacheRange
      /\ Separated(Without(map[k], r))
  BY <1>2, <1>3, WithoutType, WithoutSeparated
<1> QED
  BY <1>1, <1>4 DEF IndexInv, TypeOK, CachedSeparated, LoadingDisjoint

(* Setting a length and clearing a key disturb no range. *)
LEMMA TotalsKeep ==
  ASSUME IndexInv, NEW k \in Keys,
         ClearForKey(k) \/ \E n \in 0 .. LastByte + 1 : SetTotalLength(k, n)
  PROVE  IndexInv'
BY LastByteAssumption
   DEF ClearForKey, SetTotalLength, IndexInv, TypeOK, CachedSeparated,
       LoadingDisjoint, Separated

(* Every step keeps the invariant. *)
LEMMA IndexInvNext == IndexInv /\ [Next]_vars => IndexInv'
<1> SUFFICES ASSUME IndexInv, [Next]_vars
             PROVE  IndexInv'
  OBVIOUS
<1>1. CASE Next
  BY <1>1, MarkKeeps, UnmarkKeeps, AddKeeps, RemoveKeeps, TotalsKeep DEF Next
<1>2. CASE UNCHANGED vars
  BY <1>2 DEF vars, IndexInv, TypeOK, CachedSeparated, LoadingDisjoint
<1> QED
  BY <1>1, <1>2

(* Reachable states satisfy the invariant: what every theorem below rests on. *)
THEOREM Invariance == Spec => []IndexInv
BY IndexInvInit, IndexInvNext, PTL DEF Spec

(* Type correctness of the index, for every set of keys and every LastByte. *)
THEOREM TypeCorrect == Spec => []TypeOK
<1>1. IndexInv => TypeOK
  BY DEF IndexInv
<1> QED
  BY <1>1, Invariance, PTL

(* The cached ranges of a key never overlap nor touch. *)
THEOREM RangesStaySeparated == Spec => []CachedSeparated
<1>1. IndexInv => CachedSeparated
  BY DEF IndexInv
<1> QED
  BY <1>1, Invariance, PTL

(* No byte is claimed by two downloads at once. *)
THEOREM LoadingStaysDisjoint == Spec => []LoadingDisjoint
<1>1. IndexInv => LoadingDisjoint
  BY DEF IndexInv
<1> QED
  BY <1>1, Invariance, PTL

----------------------------------------------------------------------------
(* The answers of the queries. *)

(* The byte after a range is cached by no range, for such a range would    *)
(* touch it; so cached bytes in a row lie in one range.                    *)
LEMMA OneRangeHoldsRun ==
  ASSUME NEW R, R \subseteq CacheRange, Separated(R),
         NEW a \in Offset, NEW b \in Offset, a <= b,
         a .. b \subseteq Bytes(R)
  PROVE  \E r \in R : a >= r.start /\ b <= r.end
<1> USE LastByteAssumption
<1>1. PICK r \in R : a \in r.start .. r.end
  <2>1. a \in Bytes(R)
    BY DEF Offset
  <2> QED
    BY <2>1, InBytes
<1>2. ASSUME b > r.end PROVE FALSE
  <2>1. r.end + 1 \in a .. b
    BY <1>1, <1>2 DEF CacheRange, Offset
  <2>2. PICK q \in R : r.end + 1 \in q.start .. q.end
    BY <2>1, InBytes
  <2>3. q # r /\ Touches(r, q)
    BY <2>2 DEF CacheRange, Offset, Touches
  <2> QED
    BY <2>3 DEF Separated
<1> QED
  BY <1>1, <1>2 DEF CacheRange, Offset

(* In a state of the invariant a run of cached bytes lies in one range. *)
LEMMA CachedAnswer == IndexInv => CachedAnswerExact
<1> USE LastByteAssumption
<1> SUFFICES ASSUME IndexInv, NEW k \in Keys, NEW c \in Call
             PROVE  IsRangeCachedForKey(k, c.start, c.length) <=>
                      c.start .. (c.start + c.length - 1) \subseteq Bytes(map[k])
  BY DEF CachedAnswerExact
<1> DEFINE e == c.start + c.length - 1
<1>1. map[k] \subseteq CacheRange /\ Separated(map[k])
  BY DEF IndexInv, TypeOK, CachedSeparated
<1>2. CASE c.length = 0
  BY <1>2 DEF IsRangeCachedForKey, Call, Offset
<1>3. CASE c.length > 0
  <2>1. c.start \in Offset /\ e \in Offset /\ c.start <= e
    BY <1>3 DEF Call, Offset
  <2> HIDE DEF e
  <2>2. ASSUME NEW r \in map[k], c.start >= r.start, e <= r.end
        PROVE  c.start .. e \subseteq Bytes(map[k])
    <3>1. c.start .. e \subseteq r.start .. r.end
      BY <1>1, <2>1, <2>2 DEF CacheRange, Offset
    <3> QED
      BY <3>1 DEF Bytes
  <2>3. ASSUME c.start .. e \subseteq Bytes(map[k])
        PROVE  \E r \in map[k] : c.start >= r.start /\ e <= r.end
    BY <1>1, <2>1, <2>3, OneRangeHoldsRun
  <2>4. IsRangeCachedForKey(k, c.start, c.length) <=>
          \E r \in map[k] : c.start >= r.start /\ e <= r.end
    BY <1>3 DEF IsRangeCachedForKey, e, Call, Offset
  <2> QED
    BY <2>2, <2>3, <2>4 DEF e
<1> QED
  BY <1>2, <1>3 DEF Call

(* isRangeCached is exact: YES iff every byte asked for is recorded. *)
THEOREM CachedAnswerIsExact == Spec => []CachedAnswerExact
BY CachedAnswer, Invariance, PTL

(* In a state of the invariant the lengths of the ranges add up to the     *)
(* number of their bytes.                                                  *)
LEMMA LengthAnswer == IndexInv => LengthAnswerExact
<1> SUFFICES ASSUME IndexInv, NEW k \in Keys
             PROVE  CachedLength(map[k]) = Cardinality(Bytes(map[k]))
  BY DEF LengthAnswerExact, CachedTotalLengthForKey
<1>1. map[k] \subseteq CacheRange /\ Separated(map[k])
  BY DEF IndexInv, TypeOK, CachedSeparated
<1> QED
  BY <1>1, CachedLengthCounts

(* cachedTotalLength counts every cached byte exactly once, whatever the   *)
(* ranges were joined and cut from.                                        *)
THEOREM LengthAnswerIsExact == Spec => []LengthAnswerExact
BY LengthAnswer, Invariance, PTL

----------------------------------------------------------------------------
(* In a state of the invariant an update changes the bytes of its call.    *)
LEMMA UpdateIsExact ==
  ASSUME IndexInv, NEW k \in Keys, NEW c \in Call
  PROVE  UpdateExact(k, c)
<1> DEFINE r == RangeOf(c.start, c.length)
           span == c.start .. (c.start + c.length - 1)
<1>1. r.start .. r.end = span
  BY DEF RangeOf
<1>2. map \in [Keys -> SUBSET CacheRange]
  BY DEF IndexInv, TypeOK
<1>3. ASSUME AddRangeForKey(k, c.start, c.length)
      PROVE  Bytes(map'[k]) = Bytes(map[k]) \cup span
  <2>1. r \in CacheRange /\ map' = [map EXCEPT ![k] = Merged(@, r)]
    BY <1>3, RangeOfType DEF AddRangeForKey
  <2> HIDE DEF r, span
  <2> QED
    BY <1>1, <1>2, <2>1, MergedBytes
<1>4. ASSUME RemoveRangeForKey(k, c.start, c.length)
      PROVE  Bytes(map'[k]) = Bytes(map[k]) \ span
  <2>1. r \in CacheRange /\ map' = [map EXCEPT ![k] = Without(@, r)]
    BY <1>4, RangeOfType DEF RemoveRangeForKey
  <2> HIDE DEF r, span
  <2> QED
    BY <1>1, <1>2, <2>1, WithoutBytes
<1> QED
  BY <1>3, <1>4 DEF UpdateExact

(* Adding and removing change exactly the bytes they are called for. *)
THEOREM UpdatesAreExact == Spec => UpdatesExact
<1>1. IndexInv => \A k \in Keys, c \in Call : UpdateExact(k, c)
  BY UpdateIsExact
<1> QED
  BY <1>1, Invariance, PTL DEF UpdatesExact

----------------------------------------------------------------------------
(* The refinement: every step of the index is a step of the byte-level     *)
(* specification on the mapped state, or leaves the mapped state alone.    *)

(* An empty index is the empty set of bytes. *)
LEMMA InitRefines == Init => CB!Init
BY DEF Init, CB!Init, Bytes

(* The bytes of a call are a run the byte-level specification knows. *)
LEMMA SpanOfCall ==
  ASSUME NEW c \in Call, c.length > 0
  PROVE  LET r == RangeOf(c.start, c.length)
         IN  r \in CacheRange /\ r.start .. r.end \in CB!Span
<1> DEFINE r == RangeOf(c.start, c.length)
<1>1. r \in CacheRange
  BY RangeOfType
<1>2. /\ r.start \in 0 .. LastByte /\ r.end \in 0 .. LastByte
      /\ r.start \in r.start .. r.end
  BY <1>1, LastByteAssumption DEF CacheRange, Offset
<1> QED
  BY <1>1, <1>2 DEF CB!Span

(* Marking a range claims its bytes, none of which was claimed. *)
LEMMA MarkRefines ==
  ASSUME IndexInv, NEW k \in Keys, NEW c \in Call,
         MarkRangeLoadingForKey(k, c.start, c.length)
  PROVE  \E s \in CB!Span : CB!Claim(k, s)
<1> DEFINE r == RangeOf(c.start, c.length)
<1>1. /\ c.length > 0
      /\ loadingMap' = [loadingMap EXCEPT ![k] = @ \cup {r}]
      /\ UNCHANGED <<map, totalMap>>
      /\ \A q \in loadingMap[k] : ~Overlaps(r, q)
  BY DEF MarkRangeLoadingForKey, IsRangeLoadingForKey
<1>2. r \in CacheRange /\ r.start .. r.end \in CB!Span
  BY <1>1, SpanOfCall
<1> HIDE DEF r
<1>3. Bytes(loadingMap[k]) \cap (r.start .. r.end) = {}
  <2> SUFFICES ASSUME NEW q \in loadingMap[k], NEW x \in q.start .. q.end,
                      x \in r.start .. r.end
               PROVE  FALSE
    BY InBytes
  <2> QED
    BY <1>1, <1>2, LastByteAssumption
       DEF IndexInv, TypeOK, Overlaps, CacheRange, Offset
<1>4. Bytes(loadingMap[k] \cup {r}) = Bytes(loadingMap[k]) \cup (r.start .. r.end)
  BY InBytes
<1>5. CB!Claim(k, r.start .. r.end)
  BY <1>1, <1>3, <1>4 DEF CB!Claim, IndexInv, TypeOK
<1> QED
  BY <1>2, <1>5

(* Unmarking releases the bytes of the range, or nothing. *)
LEMMA UnmarkRefines ==
  ASSUME IndexInv, NEW k \in Keys, NEW c \in Call,
         UnmarkRangeLoadingForKey(k, c.start, c.length)
  PROVE  (\E s \in CB!Span : CB!Release(k, s)) \/ UNCHANGED CB!vars
<1> DEFINE r == RangeOf(c.start, c.length)
<1>1. /\ c.length > 0
      /\ loadingMap' = [loadingMap EXCEPT ![k] = @ \ {r}]
      /\ UNCHANGED <<map, totalMap>>
  BY DEF UnmarkRangeLoadingForKey
<1>2. r \in CacheRange /\ r.start .. r.end \in CB!Span
  BY <1>1, SpanOfCall
<1> HIDE DEF r
<1>3. CASE r \in loadingMap[k]
  <2>1. Bytes(loadingMap[k] \ {r}) = Bytes(loadingMap[k]) \ (r.start .. r.end)
    BY <1>3, DisjointRelease DEF IndexInv, TypeOK, LoadingDisjoint
  <2>2. r.start .. r.end \subseteq Bytes(loadingMap[k])
    BY <1>3, InBytes
  <2>3. CB!Release(k, r.start .. r.end)
    BY <1>1, <2>1, <2>2 DEF CB!Release, IndexInv, TypeOK
  <2> QED
    BY <1>2, <2>3
<1>4. CASE r \notin loadingMap[k]
  <2>1. loadingMap' = loadingMap
    BY <1>1, <1>4 DEF IndexInv, TypeOK
  <2> QED
    BY <1>1, <2>1 DEF CB!vars
<1> QED
  BY <1>3, <1>4

(* Adding a range adds its bytes and no other. *)
LEMMA AddRefines ==
  ASSUME IndexInv, NEW k \in Keys, NEW c \in Call,
         AddRangeForKey(k, c.start, c.length)
  PROVE  \E s \in CB!Span : CB!Add(k, s)
<1> DEFINE r == RangeOf(c.start, c.length)
<1>1. /\ c.length > 0
      /\ map' = [map EXCEPT ![k] = Merged(@, r)]
      /\ UNCHANGED <<loadingMap, totalMap>>
  BY DEF AddRangeForKey
<1>2. r \in CacheRange /\ r.start .. r.end \in CB!Span
  BY <1>1, SpanOfCall
<1> HIDE DEF r
<1>3. Bytes(Merged(map[k], r)) = Bytes(map[k]) \cup (r.start .. r.end)
  BY <1>2, MergedBytes DEF IndexInv, TypeOK
<1>4. CB!Add(k, r.start .. r.end)
  BY <1>1, <1>3 DEF CB!Add, IndexInv, TypeOK
<1> QED
  BY <1>2, <1>4

(* Removing a range removes its bytes and no other. *)
LEMMA RemoveRefines ==
  ASSUME IndexInv, NEW k \in Keys, NEW c \in Call,
         RemoveRangeForKey(k, c.start, c.length)
  PROVE  \E s \in CB!Span : CB!Remove(k, s)
<1> DEFINE r == RangeOf(c.start, c.length)
<1>1. /\ c.length > 0
      /\ map' = [map EXCEPT ![k] = Without(@, r)]
      /\ UNCHANGED <<loadingMap, totalMap>>
  BY DEF RemoveRangeForKey
<1>2. r \in CacheRange /\ r.start .. r.end \in CB!Span
  BY <1>1, SpanOfCall
<1> HIDE DEF r
<1>3. Bytes(Without(map[k], r)) = Bytes(map[k]) \ (r.start .. r.end)
  BY <1>2, WithoutBytes DEF IndexInv, TypeOK
<1>4. CB!Remove(k, r.start .. r.end)
  BY <1>1, <1>3 DEF CB!Remove, IndexInv, TypeOK
<1> QED
  BY <1>2, <1>4

(* Lengths and clearing mean the same on both levels. *)
LEMMA TotalsRefine ==
  ASSUME IndexInv, NEW k \in Keys
  PROVE  /\ ClearForKey(k) => CB!Clear(k)
         /\ \A n \in 0 .. LastByte + 1 : SetTotalLength(k, n) => CB!SetTotal(k, n)
<1>1. Bytes({}) = {}
  BY InBytes
<1>2. ClearForKey(k) => CB!Clear(k)
  BY <1>1 DEF ClearForKey, CB!Clear, IndexInv, TypeOK
<1>3. ASSUME NEW n \in 0 .. LastByte + 1, SetTotalLength(k, n)
      PROVE  CB!SetTotal(k, n)
  BY <1>3 DEF SetTotalLength, CB!SetTotal
<1> QED
  BY <1>2, <1>3

(* Every step of the index is a step of the byte-level specification. *)
LEMMA StepRefines == IndexInv /\ [Next]_vars => [CB!Next]_(CB!vars)
<1> SUFFICES ASSUME IndexInv, [Next]_vars
             PROVE  CB!Next \/ UNCHANGED CB!vars
  OBVIOUS
<1>1. CASE Next
  <2> PICK k \in Keys :
        \/ \E c \in Call :
             \/ MarkRangeLoadingForKey(k, c.start, c.length)
             \/ UnmarkRangeLoadingForKey(k, c.start, c.length)
             \/ AddRangeForKey(k, c.start, c.length)
             \/ RemoveRangeForKey(k, c.start, c.length)
        \/ \E n \in 0 .. LastByte + 1 : SetTotalLength(k, n)
        \/ ClearForKey(k)
    BY <1>1 DEF Next
  <2> QED
    BY MarkRefines, UnmarkRefines, AddRefines, RemoveRefines, TotalsRefine
       DEF CB!Next
<1>2. CASE UNCHANGED vars
  BY <1>2 DEF vars, CB!vars
<1> QED
  BY <1>1, <1>2

(* LZCacheIndex implements CachedBytes: an observer who asks about bytes   *)
(* cannot tell the ranges from plain sets of bytes.                        *)
THEOREM IndexRefinesBytes == Spec => CachedBytesSpec
BY InitRefines, StepRefines, Invariance, PTL DEF Spec, CachedBytesSpec, CB!Spec
=============================================================================
