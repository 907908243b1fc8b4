---------------------------- MODULE CachedBytes ----------------------------
(***************************************************************************)
(* What LZCacheIndex promises, told in bytes and without any range: per    *)
(* key, the set of bytes that are cached, the set of bytes some download   *)
(* has claimed, and the total length once it is known (LZCacheIndex.h).    *)
(***************************************************************************)
EXTENDS Integers

CONSTANTS
  Keys,      (* the songs *)
  LastByte,  (* the last byte offset a caller ever names *)
  Unknown    (* the total length of a key nobody has set *)

VARIABLES
  bytes,     (* bytes[k]: the bytes of k recorded as cached *)
  claimed,   (* claimed[k]: the bytes of k a download has claimed *)
  total      (* total[k]: the length of k, or Unknown *)

vars == <<bytes, claimed, total>>

(* The non-empty runs of consecutive bytes. *)
Span == {a .. b : a \in 0 .. LastByte, b \in 0 .. LastByte} \ {{}}

Init ==
  /\ bytes = [k \in Keys |-> {}]
  /\ claimed = [k \in Keys |-> {}]
  /\ total = [k \in Keys |-> Unknown]

Claim(k, s) ==
  /\ claimed[k] \cap s = {}
  /\ claimed' = [claimed EXCEPT ![k] = @ \cup s]
  /\ UNCHANGED <<bytes, total>>

Release(k, s) ==
  /\ s \subseteq claimed[k]
  /\ claimed' = [claimed EXCEPT ![k] = @ \ s]
  /\ UNCHANGED <<bytes, total>>

Add(k, s) ==
  /\ bytes' = [bytes EXCEPT ![k] = @ \cup s]
  /\ UNCHANGED <<claimed, total>>

Remove(k, s) ==
  /\ bytes' = [bytes EXCEPT ![k] = @ \ s]
  /\ UNCHANGED <<claimed, total>>

SetTotal(k, n) ==
  /\ total' = [total EXCEPT ![k] = n]
  /\ UNCHANGED <<bytes, claimed>>

Clear(k) ==
  /\ bytes' = [bytes EXCEPT ![k] = {}]
  /\ total' = [total EXCEPT ![k] = Unknown]
  /\ UNCHANGED claimed

Next ==
  \E k \in Keys :
    \/ \E s \in Span : Claim(k, s) \/ Release(k, s) \/ Add(k, s) \/ Remove(k, s)
    \/ \E n \in 0 .. LastByte + 1 : SetTotal(k, n)
    \/ Clear(k)

Spec == Init /\ [][Next]_vars
=============================================================================
