------------------------- MODULE LZCacheIndexQueues -------------------------
(***************************************************************************)
(* How concurrent callers meet the index: each key has a serial dispatch   *)
(* queue (queueForKey).  An update is dispatch_async: the caller goes on   *)
(* while the block waits in the queue.  A query, and markRangeLoading, is  *)
(* dispatch_sync: the caller sleeps until its block has run.               *)
(*                                                                         *)
(* The router relies on this: it submits addRange and unmarkRangeLoading,  *)
(* does not wait, and asks cachedTotalLength or isCompleted next.          *)
(***************************************************************************)
EXTENDS LZCacheRanges, SequencesExt

CONSTANTS
  Keys,       (* the songs *)
  Callers,    (* the threads that use the index *)
  Unknown,    (* totalMap[key] is nil *)
  Totals,     (* the lengths setTotalLength is called with *)
  MaxQueued   (* bound: an update is submitted only to a queue below this *)

(* The lengths are those LZCacheIndex considers. *)
ASSUME TotalsAssumption == Totals \subseteq 0 .. LastByte + 1

(* nil is no NSNumber. *)
ASSUME UnknownAssumption == Unknown \notin Nat

VARIABLES
  entry,     (* entry[k]: map[k], loadingMap[k] and totalMap[k] *)
  queue,     (* queue[k]: the blocks submitted to the queue of k *)
  due,       (* due[t]: <<>>, or, while t sleeps in dispatch_sync, what its *)
             (* call has to answer as seen from the moment t made it        *)
  misled     (* the callers whose call did not answer what was due: a       *)
             (* history variable                                            *)

vars == <<entry, queue, due, misled>>

Sleeps(t) == due[t] # <<>>

NoEntry == [cached |-> {}, loading |-> {}, total |-> Unknown]

Updates ==
  [op : {"addRange", "removeRange", "unmarkRangeLoading"}, call : Call]
    \cup [op : {"setTotalLength"}, length : Totals]
    \cup [op : {"clear"}]

Queries ==
  [op : {"markRangeLoading", "isRangeLoading", "isRangeCached"}, call : Call]
    \cup [op : {"isCompleted", "nextMissingOffset", "cachedTotalLength"}]

(* A length of zero returns before anything is submitted. *)
Submittable(b) == "call" \in DOMAIN b => b.call.length > 0

RangeOfBlock(b) == RangeOf(b.call.start, b.call.length)

Loading(e, r) == \E q \in e.loading : Overlaps(r, q)

(* What a block does to the entry of its key. *)
After(e, b) ==
  CASE b.op = "addRange" -> [e EXCEPT !.cached = Merged(@, RangeOfBlock(b))]
    [] b.op = "removeRange" -> [e EXCEPT !.cached = Without(@, RangeOfBlock(b))]
    [] b.op = "unmarkRangeLoading" -> [e EXCEPT !.loading = @ \ {RangeOfBlock(b)}]
    [] b.op = "setTotalLength" -> [e EXCEPT !.total = b.length]
    [] b.op = "clear" -> [e EXCEPT !.cached = {}, !.total = Unknown]
    [] b.op = "markRangeLoading" /\ ~Loading(e, RangeOfBlock(b)) ->
         [e EXCEPT !.loading = @ \cup {RangeOfBlock(b)}]
    [] OTHER -> e

(* What a synchronous block answers its caller: a number, or a BOOL, which *)
(* is 1 or 0.                                                              *)
BOOL(yes) == IF yes THEN 1 ELSE 0

Answer(e, b) ==
  CASE b.op = "markRangeLoading" -> BOOL(~Loading(e, RangeOfBlock(b)))
    [] b.op = "isRangeLoading" -> BOOL(Loading(e, RangeOfBlock(b)))
    [] b.op = "isRangeCached" ->
         BOOL(\E r \in e.cached : /\ r.start <= b.call.start
                                 /\ RangeOfBlock(b).end <= r.end)
    [] b.op = "isCompleted" ->
         BOOL(e.total # Unknown /\ NextMissing(e.cached) >= e.total)
    [] b.op = "nextMissingOffset" -> NextMissing(e.cached)
    [] b.op = "cachedTotalLength" -> CachedLength(e.cached)

(* The entry of k once everything submitted so far has run. *)
Submitted(k) == FoldLeft(After, entry[k], [i \in DOMAIN queue[k] |-> queue[k][i].block])

Init ==
  /\ entry = [k \in Keys |-> NoEntry]
  /\ queue = [k \in Keys |-> <<>>]
  /\ due = [t \in Callers |-> <<>>]
  /\ misled = {}

(* dispatch_async *)
Async(t, k, b) ==
  /\ ~Sleeps(t)
  /\ Submittable(b)
  /\ Len(queue[k]) < MaxQueued
  /\ queue' = [queue EXCEPT ![k] = Append(@, [by |-> t, block |-> b])]
  /\ UNCHANGED <<entry, due, misled>>

(* dispatch_sync *)
Sync(t, k, b) ==
  /\ ~Sleeps(t)
  /\ Submittable(b)
  /\ queue' = [queue EXCEPT ![k] = Append(@, [by |-> t, block |-> b])]
  /\ due' = [due EXCEPT ![t] = <<Answer(Submitted(k), b)>>]
  /\ UNCHANGED <<entry, misled>>

(* The queue of k runs its block number i to the end. *)
RunBlockAt(k, i) ==
  LET next == queue[k][i]
      t == next.by
  IN  /\ queue' = [queue EXCEPT ![k] = RemoveAt(@, i)]
      /\ entry' = [entry EXCEPT ![k] = After(@, next.block)]
      /\ IF next.block \in Queries
         THEN /\ due' = [due EXCEPT ![t] = <<>>]
              /\ misled' = IF due[t] = <<Answer(entry[k], next.block)>>
                           THEN misled ELSE misled \cup {t}
         ELSE UNCHANGED <<due, misled>>

(* The slip of creating the queue concurrent: blocks run in any order. *)
RunAnyBlock(k) == \E i \in DOMAIN queue[k] : RunBlockAt(k, i)

(* The slip the comment on line 222 warns of: isCompleted's block would    *)
(* dispatch_sync nextMissingOffset on the very queue it runs on.           *)
RunUnlessNested(k) ==
  queue[k] # <<>> /\ Head(queue[k]).block.op # "isCompleted" /\ RunBlockAt(k, 1)

(* The queue is serial: it runs its first block. *)
RunBlock(k) == queue[k] # <<>> /\ RunBlockAt(k, 1)

Next ==
  \/ \E t \in Callers, k \in Keys :
       \/ \E b \in Updates : Async(t, k, b)
       \/ \E b \in Queries : Sync(t, k, b)
  \/ \E k \in Keys : RunBlock(k)

(* GCD runs the blocks of a queue that has any. *)
Fairness == \A k \in Keys : WF_vars(RunBlock(k))

Spec == Init /\ [][Next]_vars /\ Fairness

----------------------------------------------------------------------------
(* A synchronous call answers as if every update submitted before it, by   *)
(* its own thread or another, had already run, and no later one: although  *)
(* updates are not waited for, a thread reads its own writes.              *)
AnswersAsSubmitted == misled = {}

(* Seen from the callers the updates are atomic and take effect the moment *)
(* they are submitted: the queues implement LZCacheIndex.                  *)
Index == INSTANCE LZCacheIndex
           WITH map <- [k \in Keys |-> Submitted(k).cached],
                loadingMap <- [k \in Keys |-> Submitted(k).loading],
                totalMap <- [k \in Keys |-> Submitted(k).total]

IndexSpec == Index!Spec

(* No caller sleeps for ever: no block of a queue waits for that queue     *)
(* (isCompleted would, if it called nextMissingOffset: comment line 222).  *)
CallsReturn == \A t \in Callers : Sleeps(t) ~> ~Sleeps(t)
=============================================================================
