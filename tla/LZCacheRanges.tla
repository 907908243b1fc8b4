--------------------------- MODULE LZCacheRanges ---------------------------
(***************************************************************************)
(* The byte-range algebra of LZCacheIndex.                                 *)
(*                                                                         *)
(* The index keeps, per key, an array of LZCacheRange objects with         *)
(* inclusive bounds.  Nothing the array is used for depends on its order   *)
(* (addRange sorts it, the readers that need an order sort a copy), so it  *)
(* is modelled as a set of ranges.  The loops over the array are translated *)
(* literally in LZCacheRangeArrays, and shown there to compute the          *)
(* operators of this module.                                               *)
(***************************************************************************)
EXTENDS Integers, FiniteSets, FiniteSetsExt

CONSTANT LastByte   (* the last byte offset a caller ever names *)

ASSUME LastByteAssumption == LastByte \in Nat

Offset == 0 .. LastByte

(* An LZCacheRange; the index only ever stores ranges of positive length. *)
CacheRange == {r \in [start : Offset, end : Offset] : r.start <= r.end}

(* The slip of taking start + length for the last byte. *)
RangeOfPastEnd(start, length) == [start |-> start, end |-> start + length]

(* The range of a call's start and length arguments: end = start+length-1. *)
RangeOf(start, length) == [start |-> start, end |-> start + length - 1]

(* The calls whose range stays inside the offsets of the model. *)
Call == {c \in [start : Offset, length : 0 .. LastByte + 1] :
            c.start + c.length - 1 <= LastByte}

Overlaps(a, b) == a.start <= b.end /\ a.end >= b.start

Touches(a, b) == a.start <= b.end + 1 /\ a.end + 1 >= b.start

(* The bytes a set of ranges stands for. *)
Bytes(R) == UNION {r.start .. r.end : r \in R}

----------------------------------------------------------------------------
(* The slip of joining only the ranges that overlap, not those next door. *)
MergedOverlapping(R, new) ==
  LET touching == {r \in R : Overlaps(new, r)} \cup {new}
  IN  (R \ touching) \cup
        {[start |-> Min({r.start : r \in touching}),
          end   |-> Max({r.end : r \in touching})]}

(* addRangeForKey: the ranges that touch the new one are replaced by one   *)
(* range that spans them all.                                              *)
Merged(R, new) ==
  LET touching == {r \in R : Touches(new, r)} \cup {new}
  IN  (R \ touching) \cup
        {[start |-> Min({r.start : r \in touching}),
          end   |-> Max({r.end : r \in touching})]}

(* The slip of keeping only what is left before the cut. *)
WithoutTail(R, cut) ==
  LET hit == {r \in R : Overlaps(r, cut)}
  IN  (R \ hit)
        \cup {[start |-> r.start, end |-> cut.start - 1] :
                r \in {h \in hit : h.start < cut.start}}

(* removeRangeForKey: what is left of a range before and after the cut.    *)
Without(R, cut) ==
  LET hit == {r \in R : Overlaps(r, cut)}
  IN  (R \ hit)
        \cup {[start |-> r.start, end |-> cut.start - 1] :
                r \in {h \in hit : h.start < cut.start}}
        \cup {[start |-> cut.end + 1, end |-> r.end] :
                r \in {h \in hit : h.end > cut.end}}

(* nextMissingOffsetForKey: the first offset no range covers. *)
NextMissing(R) == Min((0 .. LastByte + 1) \ Bytes(R))

(* The slip of forgetting that end is the last byte. *)
CachedLengthShort(R) == MapThenSumSet(LAMBDA r : r.end - r.start, R)

(* cachedTotalLengthForKey: the sum of the lengths of the ranges. *)
CachedLength(R) == MapThenSumSet(LAMBDA r : r.end - r.start + 1, R)

----------------------------------------------------------------------------
(* No two ranges of the set overlap or are adjacent: what addRangeForKey   *)
(* keeps up, and what makes the sum above count every byte once.           *)
Separated(R) == \A a, b \in R : a # b => ~Touches(a, b)

(* No two ranges of the set share a byte. *)
Disjoint(R) == \A a, b \in R : a # b => ~Overlaps(a, b)
=============================================================================
