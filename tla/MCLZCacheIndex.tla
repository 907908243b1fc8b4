--------------------------- MODULE MCLZCacheIndex ---------------------------
(* LZCacheIndex with one key: the operations of distinct keys touch        *)
(* distinct entries of the three maps.                                     *)
EXTENDS LZCacheIndex
=============================================================================
