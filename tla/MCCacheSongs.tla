---------------------------- MODULE MCCacheSongs ----------------------------
(* Songs are told apart only by the time they were played at. *)
EXTENDS CacheSongs, TLC

SongSymmetry == Permutations(Songs)
=============================================================================
