--------------------------- MODULE MCMusicPlayer ---------------------------
(* An instance of MusicPlayer for TLC. *)
EXTENDS MusicPlayer, TLC

(* Nothing, one song or two different songs. *)
MCSongLists == {l \in UNION {[1..n -> Songs] : n \in 0..2} :
                  \A i, j \in DOMAIN l : l[i] = l[j] => i = j}

Symmetry == Permutations(Songs) \cup Permutations(Objects) \cup Permutations(Pages)
=============================================================================
