-------------------------- MODULE MCLZCacheRouter --------------------------
(* A song of three bytes, and the ranges AVPlayer may ask for. *)
EXTENDS LZCacheRouter, TLC

Slice(a, b) == [start |-> a, end |-> b]

(* Two ranges that overlap. *)
Overlapping == {Slice(0, 1), Slice(1, 2)}

(* A seek: the start of the song, and a range further on. *)
Seek == {Slice(0, 0), Slice(2, 2)}

RequestSymmetry == Permutations(Requests)
=============================================================================
