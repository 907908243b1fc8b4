------------------------- MODULE LZCacheRangeArrays -------------------------
(***************************************************************************)
(* The loops of LZCacheIndex over its NSMutableArray of cached ranges,     *)
(* for one key: one pass that grows the new range while it collects what   *)
(* to remove, a sort by start, edits of the range objects in place, a copy *)
(* sorted for the readers.  The array implements the set of LZCacheIndex.  *)
(***************************************************************************)
EXTENDS LZCacheRanges, SequencesExt

CONSTANTS
  Song,      (* the key the array belongs to *)
  NoLength   (* totalMap[key] is nil *)

ASSUME NoLengthAssumption == NoLength \notin Nat

VARIABLE ranges   (* map[key]: the array, in its order *)

ArrayInit == ranges = <<>>

(* sortUsingComparator: the ranges in an order in which the starts ascend. *)
Sorted(s) ==
  LET order == CHOOSE p \in Bijection(DOMAIN s, DOMAIN s) :
                 \A i, j \in DOMAIN s : i < j => s[p[i]].start <= s[p[j]].start
  IN  [i \in DOMAIN s |-> s[order[i]]]

----------------------------------------------------------------------------
(* The slip of taking the last range's end for the end of all. *)
AbsorbLastEnd(acc, r) ==
  IF Touches(acc.newRange, r)
  THEN [acc EXCEPT !.newRange.start = Min({@, r.start}), !.newRange.end = r.end]
  ELSE [acc EXCEPT !.kept = Append(@, r)]

(* One turn of addRange's loop: newRange so far, and the ranges that stay. *)
Absorb(acc, r) ==
  IF Touches(acc.newRange, r)
  THEN [newRange |-> [start |-> Min({acc.newRange.start, r.start}),
                      end   |-> Max({acc.newRange.end, r.end})],
        kept     |-> acc.kept]
  ELSE [newRange |-> acc.newRange, kept |-> Append(acc.kept, r)]

ArrayAdd(s, new) ==
  LET done == FoldLeft(Absorb, [newRange |-> new, kept |-> <<>>], s)
  IN  Sorted(Append(done.kept, done.newRange))

(* One turn of removeRange's loop: the four cases, the ranges that stay in *)
(* their place (edited) and those added at the end.                        *)
Edit(cut, acc, r) ==
  LET before == [start |-> r.start, end |-> cut.start - 1]
      after == [start |-> cut.end + 1, end |-> r.end]
      stays(q) == [kept |-> Append(acc.kept, q), toAdd |-> acc.toAdd]
  IN  CASE cut.start <= r.start /\ cut.end >= r.end -> acc
        [] cut.start <= r.start /\ cut.end < r.end /\ cut.end >= r.start -> stays(after)
        [] cut.start > r.start /\ cut.start <= r.end /\ cut.end >= r.end -> stays(before)
        [] cut.start > r.start /\ cut.end < r.end ->
             [kept |-> Append(acc.kept, before), toAdd |-> Append(acc.toAdd, after)]
        [] OTHER -> stays(r)

ArrayRemove(s, cut) ==
  LET done == FoldLeft(LAMBDA acc, r : Edit(cut, acc, r),
                       [kept |-> <<>>, toAdd |-> <<>>], s)
  IN  done.kept \o done.toAdd

(* The slip of stopping at a range that begins right at p. *)
PassEarly(acc, r) ==
  IF acc.found \/ acc.p <= r.start
  THEN [p |-> acc.p, found |-> TRUE]
  ELSE [p |-> Max({acc.p, r.end + 1}), found |-> FALSE]

(* One turn of the loop of nextMissingOffset and isCompleted over a sorted *)
(* copy: p moves past each range until one begins beyond it.               *)
Pass(acc, r) ==
  IF acc.found \/ acc.p < r.start
  THEN [p |-> acc.p, found |-> TRUE]
  ELSE [p |-> Max({acc.p, r.end + 1}), found |-> FALSE]

FirstGap(s) == FoldLeft(Pass, [p |-> 0, found |-> FALSE], Sorted(s)).p

(* The loop of cachedTotalLength. *)
Count(n, r) == n + (r.end - r.start + 1)

ArrayLength(s) == FoldLeft(Count, 0, s)

----------------------------------------------------------------------------
AddRange(c) ==
  /\ c.length > 0
  /\ ranges' = ArrayAdd(ranges, RangeOf(c.start, c.length))

RemoveRange(c) ==
  /\ c.length > 0
  /\ ranges' = ArrayRemove(ranges, RangeOf(c.start, c.length))

Clear == ranges' = <<>>

ArrayNext == Clear \/ \E c \in Call : AddRange(c) \/ RemoveRange(c)

ArraySpec == ArrayInit /\ [][ArrayNext]_ranges

----------------------------------------------------------------------------
(* The array never holds the same range twice, in whatever order the       *)
(* removals left it, so that it is a set, and the loops of the readers     *)
(* compute on it what LZCacheIndex's operators compute on the set.         *)
ReadersAgree ==
  /\ IsInjective(ranges)
  /\ FirstGap(ranges) = NextMissing(ToSet(ranges))
  /\ ArrayLength(ranges) = CachedLength(ToSet(ranges))

(* The loops that write the array implement the set of ranges: growing the *)
(* new range while looping collects exactly the ranges that touched it at  *)
(* the start, and the in-place edits leave no range behind.                *)
SetIndex == INSTANCE LZCacheIndex
              WITH Keys <- {Song}, Unknown <- NoLength,
                   map <- [k \in {Song} |-> ToSet(ranges)],
                   loadingMap <- [k \in {Song} |-> {}],
                   totalMap <- [k \in {Song} |-> NoLength]

SetIndexSpec == SetIndex!Spec
=============================================================================
