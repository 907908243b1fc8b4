------------------------ MODULE LZCacheRanges_proofs ------------------------
(***************************************************************************)
(* Facts about the range algebra: Merged and Without return sets of        *)
(* ranges, keep them separated, and add or remove exactly the bytes asked. *)
(***************************************************************************)
EXTENDS LZCacheRanges, WellFoundedInduction, FiniteSetTheorems, TLAPS

(* Every non-empty set of naturals has a minimum, so Min is one of its     *)
(* members and below all of them.                                          *)
LEMMA MinProperties ==
  ASSUME NEW S, S \subseteq Nat, S # {}
  PROVE  Min(S) \in S /\ \A y \in S : Min(S) <= y
<1>1. PICK x \in S : \A y \in S : ~ (<<y, x>> \in OpToRel(<, Nat))
  BY NatLessThanWellFounded, WFMin, Zenon
<1>2. ASSUME NEW y \in S PROVE x <= y
  <2>1. <<y, x>> \in Nat \X Nat
    OBVIOUS
  <2>2. ~ (<<y, x>>[1] < <<y, x>>[2])
    BY <1>1, <2>1, Zenon DEF OpToRel
  <2> QED
    BY <2>2
<1> QED
  BY <1>2, Zenon DEF Min

(* A set of offsets that has a member has a maximum: mirror it into the    *)
(* distances from LastByte and take their minimum.                         *)
LEMMA MaxProperties ==
  ASSUME NEW S, S \subseteq Offset, S # {}
  PROVE  Max(S) \in S /\ \A y \in S : Max(S) >= y
<1> USE LastByteAssumption
<1> DEFINE D == {LastByte - y : y \in S}
<1>1. D \subseteq Nat /\ D # {}
  <2>1. \A y \in S : LastByte - y \in Nat
    BY DEF Offset
  <2>2. PICK y \in S : TRUE
    OBVIOUS
  <2>3. LastByte - y \in D
    OBVIOUS
  <2>4. D \subseteq Nat
    BY <2>1
  <2> QED
    BY <2>3, <2>4
<1>2. Min(D) \in D /\ \A d \in D : Min(D) <= d
  BY <1>1, MinProperties
<1> HIDE DEF D
<1>3. PICK x \in S : Min(D) = LastByte - x
  BY <1>2 DEF D
<1>4. ASSUME NEW y \in S PROVE x >= y
  <2>1. LastByte - y \in D
    BY DEF D
  <2>2. LastByte - x <= LastByte - y
    BY <1>2, <1>3, <2>1
  <2> QED
    BY <2>2 DEF Offset
<1> QED
  BY <1>4, Zenon DEF Max

----------------------------------------------------------------------------
(* The range of a call of positive length is a range of the index. *)
LEMMA RangeOfType ==
  ASSUME NEW c \in Call, c.length > 0
  PROVE  RangeOf(c.start, c.length) \in CacheRange
BY LastByteAssumption DEF Call, RangeOf, CacheRange, Offset

(* What addRangeForKey puts in place of the ranges that touch the new one: *)
(* a range that begins where one of them begins and ends where one ends,   *)
(* and reaches over all of them.                                           *)
Touching(R, new) == {r \in R : Touches(new, r)} \cup {new}
Hull(R, new) == [start |-> Min({r.start : r \in Touching(R, new)}),
                 end   |-> Max({r.end : r \in Touching(R, new)})]

(* Merged replaces the touching ranges by their hull. *)
LEMMA MergedIsHull ==
  ASSUME NEW R, NEW new
  PROVE  Merged(R, new) = (R \ Touching(R, new)) \cup {Hull(R, new)}
BY DEF Merged, Touching, Hull

(* The hull begins and ends where one of its parts does, and is a range. *)
LEMMA HullProperties ==
  ASSUME NEW R, R \subseteq CacheRange, NEW new \in CacheRange
  PROVE  /\ \E r \in Touching(R, new) : Hull(R, new).start = r.start
         /\ \E r \in Touching(R, new) : Hull(R, new).end = r.end
         /\ \A r \in Touching(R, new) :
              Hull(R, new).start <= r.start /\ r.end <= Hull(R, new).end
         /\ Hull(R, new) \in CacheRange
<1> DEFINE T == Touching(R, new)
           Starts == {r.start : r \in T}
           Ends == {r.end : r \in T}
<1> USE LastByteAssumption
<1>1. T \subseteq CacheRange /\ new \in T
  BY DEF Touching
<1>2. Starts \subseteq Nat /\ Starts # {} /\ Ends \subseteq Offset /\ Ends # {}
  BY <1>1 DEF CacheRange, Offset
<1>3. Min(Starts) \in Starts /\ \A y \in Starts : Min(Starts) <= y
  BY <1>2, MinProperties
<1>4. Max(Ends) \in Ends /\ \A y \in Ends : Max(Ends) >= y
  BY <1>2, MaxProperties
<1>5. Hull(R, new) = [start |-> Min(Starts), end |-> Max(Ends)]
  BY DEF Hull
<1> HIDE DEF T
<1>6. PICK a \in T : Min(Starts) = a.start
  BY <1>3
<1>7. PICK b \in T : Max(Ends) = b.end
  BY <1>4
<1>8. \A r \in T : Min(Starts) <= r.start /\ r.end <= Max(Ends)
  <2> SUFFICES ASSUME NEW r \in T
               PROVE  Min(Starts) <= r.start /\ r.end <= Max(Ends)
    OBVIOUS
  <2>1. r.start \in Starts /\ r.end \in Ends
    OBVIOUS
  <2>2. r.end \in Nat /\ b.end \in Nat
    BY <1>1 DEF CacheRange, Offset
  <2> QED
    BY <2>1, <2>2, <1>3, <1>4, <1>7
<1> HIDE DEF Starts, Ends
<1>9. Min(Starts) \in Offset /\ Max(Ends) \in Offset /\ Min(Starts) <= Max(Ends)
  BY <1>1, <1>6, <1>7, <1>8 DEF CacheRange, Offset
<1>10. Hull(R, new) \in CacheRange
  BY <1>5, <1>9 DEF CacheRange
<1> QED
  BY <1>5, <1>6, <1>7, <1>8, <1>10 DEF T


(* Adding a range to a set of ranges gives a set of ranges. *)
LEMMA MergedType ==
  ASSUME NEW R, R \subseteq CacheRange, NEW new \in CacheRange
  PROVE  Merged(R, new) \subseteq CacheRange
BY HullProperties, MergedIsHull

(* The byte x lies in some range of R. *)
LEMMA InBytes ==
  ASSUME NEW R, NEW x
  PROVE  x \in Bytes(R) <=> \E r \in R : x \in r.start .. r.end
BY DEF Bytes

(* addRangeForKey records the new bytes and forgets none: the joined range *)
(* spans no byte that was in neither.                                      *)
LEMMA MergedBytes ==
  ASSUME NEW R, R \subseteq CacheRange, NEW new \in CacheRange
  PROVE  Bytes(Merged(R, new)) = Bytes(R) \cup (new.start .. new.end)
<1> DEFINE h == Hull(R, new)
           T == Touching(R, new)
<1>1. /\ h \in CacheRange
      /\ \E r \in T : h.start = r.start
      /\ \E r \in T : h.end = r.end
      /\ \A r \in T : h.start <= r.start /\ r.end <= h.end
  BY HullProperties
<1>2. Merged(R, new) = (R \ T) \cup {h}
  BY MergedIsHull
<1>3. /\ new \in T
      /\ \A r \in T : r \in CacheRange /\ (r = new \/ (r \in R /\ Touches(new, r)))
  BY DEF Touching
<1> HIDE DEF h, T
<1>4. ASSUME NEW x \in h.start .. h.end
      PROVE  \E r \in T : x \in r.start .. r.end
  <2>1. PICK a \in T : h.start = a.start
    BY <1>1
  <2>2. PICK b \in T : h.end = b.end
    BY <1>1
  <2>3. x \in a.start .. a.end \/ x \in new.start .. new.end \/ x \in b.start .. b.end
    BY <1>1, <1>3, <2>1, <2>2, LastByteAssumption DEF Touches, CacheRange, Offset
  <2> QED
    BY <1>3, <2>3
<1>5. ASSUME NEW x, NEW r \in T, x \in r.start .. r.end
      PROVE  x \in h.start .. h.end
  BY <1>1, <1>3, <1>5, LastByteAssumption DEF CacheRange, Offset
<1>6. ASSUME NEW x
      PROVE  x \in Bytes(Merged(R, new)) <=> x \in Bytes(R) \cup (new.start .. new.end)
  <2>1. x \in Bytes(Merged(R, new)) <=>
          (\E r \in R \ T : x \in r.start .. r.end) \/ x \in h.start .. h.end
    BY <1>2, InBytes
  <2>2. x \in h.start .. h.end <=> \E r \in T : x \in r.start .. r.end
    BY <1>4, <1>5
  <2>3. (\E r \in T : x \in r.start .. r.end) <=>
          \/ x \in new.start .. new.end
          \/ \E r \in R \cap T : x \in r.start .. r.end
    BY <1>3
  <2> QED
    BY <2>1, <2>2, <2>3, InBytes
<1> QED
  BY <1>6

(* addRangeForKey keeps the ranges apart: a range that touches the joined  *)
(* one touches one of those it was made of.                                *)
LEMMA MergedSeparated ==
  ASSUME NEW R, R \subseteq CacheRange, NEW new \in CacheRange, Separated(R)
  PROVE  Separated(Merged(R, new))
<1> DEFINE h == Hull(R, new)
           T == Touching(R, new)
<1>1. /\ h \in CacheRange
      /\ \E r \in T : h.start = r.start
      /\ \E r \in T : h.end = r.end
  BY HullProperties
<1>2. Merged(R, new) = (R \ T) \cup {h}
  BY MergedIsHull
<1>3. /\ \A r \in T : r \in CacheRange /\ (r = new \/ (r \in R /\ Touches(new, r)))
      /\ \A r \in R \ T : r \in CacheRange /\ ~Touches(new, r)
      /\ T \subseteq R \cup {new}
  BY DEF Touching
<1> HIDE DEF h, T
<1>4. ASSUME NEW r \in R \ T
      PROVE  ~Touches(h, r) /\ ~Touches(r, h)
  <2>1. PICK a \in T : h.start = a.start
    BY <1>1
  <2>2. PICK b \in T : h.end = b.end
    BY <1>1
  <2>3. \A t \in T : ~Touches(t, r)
    BY <1>3 DEF Separated
  <2>4. ~Touches(a, r) /\ ~Touches(b, r) /\ ~Touches(new, r)
    BY <1>3, <2>3
  <2> QED
    BY <1>1, <1>3, <2>1, <2>2, <2>4, LastByteAssumption DEF Touches, CacheRange, Offset
<1> QED
  BY <1>2, <1>3, <1>4 DEF Separated

----------------------------------------------------------------------------
(* A range of Without(R, cut) is a range of R the cut misses, or what is   *)
(* left of one before the cut, or after it.                                *)
LEMMA WithoutMember ==
  ASSUME NEW R, NEW cut, NEW w \in Without(R, cut)
  PROVE  \E r \in R :
           \/ w = r /\ ~Overlaps(r, cut)
           \/ /\ Overlaps(r, cut) /\ r.start < cut.start
              /\ w = [start |-> r.start, end |-> cut.start - 1]
           \/ /\ Overlaps(r, cut) /\ r.end > cut.end
              /\ w = [start |-> cut.end + 1, end |-> r.end]
BY DEF Without

(* removeRangeForKey leaves well-formed ranges, each inside one it cut. *)
LEMMA WithoutType ==
  ASSUME NEW R, R \subseteq CacheRange, NEW cut \in CacheRange,
         NEW w \in Without(R, cut)
  PROVE  /\ w \in CacheRange
         /\ ~Overlaps(w, cut)
         /\ \E r \in R : r.start <= w.start /\ w.end <= r.end
<1>1. PICK r \in R :
           \/ w = r /\ ~Overlaps(r, cut)
           \/ /\ Overlaps(r, cut) /\ r.start < cut.start
              /\ w = [start |-> r.start, end |-> cut.start - 1]
           \/ /\ Overlaps(r, cut) /\ r.end > cut.end
              /\ w = [start |-> cut.end + 1, end |-> r.end]
  BY WithoutMember
<1> QED
  BY <1>1, LastByteAssumption DEF Overlaps, CacheRange, Offset

(* removeRangeForKey forgets exactly the bytes of the cut. *)
LEMMA WithoutBytes ==
  ASSUME NEW R, R \subseteq CacheRange, NEW cut \in CacheRange
  PROVE  Bytes(Without(R, cut)) = Bytes(R) \ (cut.start .. cut.end)
<1>1. ASSUME NEW x \in Bytes(Without(R, cut))
      PROVE  x \in Bytes(R) \ (cut.start .. cut.end)
  <2>1. PICK w \in Without(R, cut) : x \in w.start .. w.end
    BY InBytes
  <2>2. PICK r \in R : r.start <= w.start /\ w.end <= r.end
    BY WithoutType
  <2>3. w \in CacheRange /\ ~Overlaps(w, cut)
    BY WithoutType
  <2>4. x \in r.start .. r.end /\ x \notin cut.start .. cut.end
    BY <2>1, <2>2, <2>3, LastByteAssumption DEF Overlaps, CacheRange, Offset
  <2> QED
    BY <2>4, InBytes
<1>2. ASSUME NEW x \in Bytes(R), x \notin cut.start .. cut.end
      PROVE  x \in Bytes(Without(R, cut))
  <2>1. PICK r \in R : x \in r.start .. r.end
    BY InBytes
  <2>2. CASE ~Overlaps(r, cut)
    <3>1. r \in Without(R, cut)
      BY <2>2 DEF Without
    <3> QED
      BY <2>1, <3>1, InBytes
  <2>3. CASE Overlaps(r, cut) /\ x < cut.start
    <3>1. r.start < cut.start
      BY <2>1, <2>3, LastByteAssumption DEF CacheRange, Offset
    <3>2. [start |-> r.start, end |-> cut.start - 1] \in Without(R, cut)
      BY <2>3, <3>1 DEF Without
    <3>3. x \in r.start .. (cut.start - 1)
      BY <2>1, <2>3, LastByteAssumption DEF CacheRange, Offset
    <3> QED
      BY <3>2, <3>3, InBytes
  <2>4. CASE Overlaps(r, cut) /\ x > cut.end
    <3>1. r.end > cut.end
      BY <2>1, <2>4, LastByteAssumption DEF CacheRange, Offset
    <3>2. [start |-> cut.end + 1, end |-> r.end] \in Without(R, cut)
      BY <2>4, <3>1 DEF Without
    <3>3. x \in (cut.end + 1) .. r.end
      BY <2>1, <2>4, LastByteAssumption DEF CacheRange, Offset
    <3> QED
      BY <3>2, <3>3, InBytes
  <2>5. x < cut.start \/ x > cut.end
    BY <1>2, <2>1, LastByteAssumption DEF CacheRange, Offset
  <2> QED
    BY <2>2, <2>3, <2>4, <2>5
<1> QED
  BY <1>1, <1>2

(* removeRangeForKey keeps the ranges apart: pieces of distinct ranges are *)
(* apart as those were, and the two pieces of one have the cut in between. *)
LEMMA WithoutSeparated ==
  ASSUME NEW R, R \subseteq CacheRange, NEW cut \in CacheRange, Separated(R)
  PROVE  Separated(Without(R, cut))
<1> SUFFICES ASSUME NEW v \in Without(R, cut), NEW w \in Without(R, cut), v # w
             PROVE  ~Touches(v, w)
  BY DEF Separated
<1> DEFINE Piece(p, r) ==
             \/ p = r /\ ~Overlaps(r, cut)
             \/ /\ Overlaps(r, cut) /\ r.start < cut.start
                /\ p = [start |-> r.start, end |-> cut.start - 1]
             \/ /\ Overlaps(r, cut) /\ r.end > cut.end
                /\ p = [start |-> cut.end + 1, end |-> r.end]
<1>1. PICK a \in R : Piece(v, a)
  BY WithoutMember
<1>2. PICK b \in R : Piece(w, b)
  BY WithoutMember
<1>3. CASE a = b
  BY <1>1, <1>2, <1>3, LastByteAssumption DEF Touches, Overlaps, CacheRange, Offset
<1>4. CASE a # b
  <2>1. ~Touches(a, b)
    BY <1>4 DEF Separated
  <2> QED
    BY <1>1, <1>2, <2>1, LastByteAssumption DEF Touches, Overlaps, CacheRange, Offset
<1> QED
  BY <1>3, <1>4

----------------------------------------------------------------------------
(* No byte of an unmarked range is also in another loading range, so that  *)
(* releasing the range releases its bytes and no others.                   *)
LEMMA DisjointRelease ==
  ASSUME NEW R, R \subseteq CacheRange, Disjoint(R), NEW r \in R
  PROVE  Bytes(R \ {r}) = Bytes(R) \ (r.start .. r.end)
<1>1. ASSUME NEW q \in R \ {r}, NEW x \in q.start .. q.end
      PROVE  x \notin r.start .. r.end
  BY <1>1, LastByteAssumption DEF Disjoint, Overlaps, CacheRange, Offset
<1>2. \A x : x \in Bytes(R \ {r}) <=> x \in Bytes(R) \ (r.start .. r.end)
  <2> TAKE x
  <2>1. x \in Bytes(R \ {r}) <=> \E q \in R \ {r} : x \in q.start .. q.end
    BY InBytes
  <2>2. x \in Bytes(R) <=> \E q \in R : x \in q.start .. q.end
    BY InBytes
  <2> QED
    BY <1>1, <2>1, <2>2
<1> QED
  BY <1>2

----------------------------------------------------------------------------
(* A set of ranges is finite, and so is what it stands for. *)
LEMMA RangesFinite ==
  ASSUME NEW R, R \subseteq CacheRange
  PROVE  /\ IsFiniteSet(R)
         /\ Bytes(R) \subseteq Offset
         /\ IsFiniteSet(Bytes(R))
         /\ Cardinality(Bytes(R)) \in Nat
<1> USE LastByteAssumption
<1>1. IsFiniteSet(Offset)
  BY FS_Interval DEF Offset
<1>2. IsFiniteSet(R)
  <2> DEFINE f == [r \in R |-> <<r.start, r.end>>]
  <2>1. f \in Injection(R, Offset \X Offset)
    BY DEF CacheRange, Injection, IsInjective
  <2> QED
    BY <1>1, <2>1, FS_Product, FS_Injection
<1>3. Bytes(R) \subseteq Offset
  BY InBytes DEF CacheRange, Offset
<1>4. IsFiniteSet(Bytes(R))
  BY <1>1, <1>3, FS_Subset
<1> QED
  BY <1>2, <1>3, <1>4, FS_CardinalityType

(* Of ranges that are apart, one adds its length to the bytes of the rest. *)
LEMMA BytesOfOneMore ==
  ASSUME NEW R, R \subseteq CacheRange, Separated(R), NEW x \in R
  PROVE  Cardinality(Bytes(R)) =
           x.end - x.start + 1 + Cardinality(Bytes(R \ {x}))
<1> USE LastByteAssumption
<1> DEFINE X == x.start .. x.end
           Y == Bytes(R \ {x})
<1>1. Bytes(R) = X \cup Y
  <2>1. \A y : y \in Bytes(R) <=> y \in X \/ y \in Y
    <3> TAKE y
    <3>1. y \in Bytes(R) <=> \E r \in R : y \in r.start .. r.end
      BY InBytes
    <3>2. y \in Y <=> \E r \in R \ {x} : y \in r.start .. r.end
      BY InBytes
    <3> QED
      BY <3>1, <3>2
  <2> QED
    BY <2>1
<1>2. X \cap Y = {}
  <2> SUFFICES ASSUME NEW y \in X, y \in Y PROVE FALSE
    OBVIOUS
  <2>1. PICK r \in R \ {x} : y \in r.start .. r.end
    BY InBytes
  <2> QED
    BY <2>1 DEF Separated, Touches, CacheRange, Offset
<1>3. x.start \in Int /\ x.end \in Int /\ x.start <= x.end
  BY DEF CacheRange, Offset
<1>4. IsFiniteSet(X) /\ Cardinality(X) = x.end - x.start + 1
  BY <1>3, FS_Interval
<1>5. IsFiniteSet(Y) /\ Cardinality(Y) \in Nat
  BY RangesFinite
<1> HIDE DEF X, Y
<1>6. Cardinality(X \cup Y) = Cardinality(X) + Cardinality(Y) - Cardinality(X \cap Y)
  BY <1>4, <1>5, FS_Union
<1>7. Cardinality(X \cap Y) = 0
  BY <1>2, FS_EmptySet
<1> QED
  BY <1>1, <1>3, <1>4, <1>5, <1>6, <1>7 DEF Y

(* cachedTotalLengthForKey: for ranges that are apart, the sum of their    *)
(* lengths is the number of their bytes.  The counting function satisfies  *)
(* the equation of the sum, and a smallest set at which another solution   *)
(* differed from it would not satisfy its own.                             *)
LEMMA CachedLengthCounts ==
  ASSUME NEW R, R \subseteq CacheRange, Separated(R)
  PROVE  CachedLength(R) = Cardinality(Bytes(R))
<1> DEFINE Any(s) == CHOOSE x \in s : TRUE
           Sums(f) == f = [s \in SUBSET R |->
             IF s = {} THEN 0
             ELSE Any(s).end - Any(s).start + 1 + f[s \ {Any(s)}]]
           size == [s \in SUBSET R |-> Cardinality(Bytes(s))]
<1>1. \A s \in SUBSET R : s # {} => Any(s) \in s
  OBVIOUS
<1>2. Bytes({}) = {}
  BY DEF Bytes
<1>3. ASSUME NEW s \in SUBSET R
      PROVE  size[s] = IF s = {} THEN 0
               ELSE Any(s).end - Any(s).start + 1 + size[s \ {Any(s)}]
  <2>1. CASE s = {}
    BY <1>2, <2>1, FS_EmptySet
  <2>2. CASE s # {}
    <3>1. Separated(s) /\ s \subseteq CacheRange /\ Any(s) \in s
      BY <1>1, <2>2 DEF Separated
    <3> DEFINE x == Any(s)
    <3> HIDE DEF Any, x
    <3>2. Cardinality(Bytes(s)) = x.end - x.start + 1 + Cardinality(Bytes(s \ {x}))
      BY <3>1, BytesOfOneMore DEF x
    <3> QED
      BY <2>2, <3>2 DEF x
  <2> QED
    BY <2>1, <2>2
<1>4. Sums(size)
  BY <1>3
<1> HIDE DEF Any, size
<1>5. ASSUME NEW f, Sums(f)
      PROVE  f[R] = Cardinality(Bytes(R))
  <2> DEFINE Bad == {s \in SUBSET R : f[s] # size[s]}
             Sizes == {Cardinality(s) : s \in Bad}
  <2>1. SUFFICES ASSUME Bad # {} PROVE FALSE
    BY DEF size
  <2>2. \A s \in SUBSET R : IsFiniteSet(s) /\ Cardinality(s) \in Nat
    BY RangesFinite, FS_Subset, FS_CardinalityType
  <2>3. Sizes \subseteq Nat /\ Sizes # {}
    BY <2>1, <2>2
  <2>4. Min(Sizes) \in Sizes /\ \A n \in Sizes : Min(Sizes) <= n
    BY <2>3, MinProperties
  <2>5. PICK s \in Bad : Min(Sizes) = Cardinality(s)
    BY <2>4
  <2>6. f[s] = IF s = {} THEN 0
               ELSE Any(s).end - Any(s).start + 1 + f[s \ {Any(s)}]
    BY <1>5
  <2>7. s # {}
    BY <1>3, <2>6
  <2>8. Cardinality(s \ {Any(s)}) = Cardinality(s) - 1
    BY <1>1, <2>2, <2>7, FS_RemoveElement
  <2>9. s \ {Any(s)} \notin Bad
    <3>1. SUFFICES ASSUME s \ {Any(s)} \in Bad PROVE FALSE
      OBVIOUS
    <3>2. Cardinality(s \ {Any(s)}) \in Sizes
      BY <3>1
    <3>3. Cardinality(s) <= Cardinality(s \ {Any(s)})
      BY <2>4, <2>5, <3>2, Zenon
    <3>4. Cardinality(s) \in Nat
      BY <2>2
    <3> HIDE DEF Bad, Sizes
    <3> QED
      BY <2>8, <3>3, <3>4
  <2>10. f[s \ {Any(s)}] = size[s \ {Any(s)}]
    BY <2>9
  <2> QED
    BY <1>3, <2>6, <2>7, <2>10
<1> HIDE DEF Sums
<1>6. CachedLength(R) = (CHOOSE f : Sums(f))[R]
  BY DEF CachedLength, MapThenSumSet, MapThenFoldSet, Sums, Any
<1> QED
  BY <1>4, <1>5, <1>6
=============================================================================
