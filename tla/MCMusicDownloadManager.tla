----------------------- MODULE MCMusicDownloadManager -----------------------
(* An instance of MusicDownloadManager for TLC: two URLs of one song. *)
EXTENDS MusicDownloadManager, TLC

CONSTANTS s1, u1, u2

Offers == (u1 :> s1) @@ (u2 :> s1)
Symmetry == Permutations(TaskIds)
=============================================================================
