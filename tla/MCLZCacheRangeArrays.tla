------------------------ MODULE MCLZCacheRangeArrays ------------------------
(* The array of one key over eight byte offsets: enough for four ranges    *)
(* that do not touch, hence for a new range that joins three of them, and  *)
(* for a removal that cuts one range, drops one and trims one.             *)
EXTENDS LZCacheRangeArrays
=============================================================================
