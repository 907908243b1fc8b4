------------------------ MODULE MCLZCacheIndexQueues ------------------------
(* Two callers on the queue of one key, two byte offsets: two adjacent     *)
(* ranges that merge, and one that overlaps both.                          *)
EXTENDS LZCacheIndexQueues
=============================================================================
