---------------------- MODULE LZCacheIndexDetails_proofs ----------------------
(***************************************************************************)
(* What the atomic index abstracts from is correct in detail, for any      *)
(* offsets, keys, callers, calls and queue lengths.                        *)
(*   - Serial queues: a synchronous call answers what was due when it was  *)
(*     made, and seen from the callers the queues are the atomic index.    *)
(*   - Loops: the passes over the sorted array compute the operators on    *)
(*     sets of ranges.                                                     *)
(* All of these are folds over sequences, so that what a fold does turn by *)
(* turn comes first.                                                       *)
(***************************************************************************)
EXTENDS LZCacheIndexQueues, LZCacheRangeArrays, LZCacheRanges_proofs, SequenceTheorems

(* A set of positions that has a member has a last one: mirror it into the *)
(* distances from n and take their minimum.                                *)
LEMMA LastPosition ==
  ASSUME NEW n \in Nat, NEW S, S \subseteq 1..n, S # {}
  PROVE  Max(S) \in S /\ \A y \in S : Max(S) >= y
<1> DEFINE D == {n - y : y \in S}
<1>1. D \subseteq Nat /\ D # {}
  <2>1. \A y \in S : n - y \in Nat
    OBVIOUS
  <2>2. PICK y \in S : TRUE
    OBVIOUS
  <2>3. n - y \in D
    OBVIOUS
  <2>4. D \subseteq Nat
    BY <2>1
  <2> QED
    BY <2>3, <2>4
<1>2. Min(D) \in D /\ \A d \in D : Min(D) <= d
  BY <1>1, MinProperties
<1> HIDE DEF D
<1>3. PICK x \in S : Min(D) = n - x
  BY <1>2 DEF D
<1>4. ASSUME NEW y \in S PROVE x >= y
  <2>1. n - y \in D
    BY DEF D
  <2>2. n - x <= n - y
    BY <1>2, <1>3, <2>1
  <2> QED
    BY <2>2
<1> QED
  BY <1>4, Zenon DEF Max

(* The turns of the loops the two modules write as folds: the blocks of a  *)
(* queue on an entry, and the four loops over the array of ranges.         *)
Turn(l, acc, x) ==
  CASE l.loop = "queue" -> After(acc, x)
    [] l.loop = "add" -> Absorb(acc, x)
    [] l.loop = "remove" -> Edit(l.cut, acc, x)
    [] l.loop = "gap" -> Pass(acc, x)
    [] l.loop = "length" -> Count(acc, x)

(* h lists what the turns of the loop l over s make of e, one after the    *)
(* other.                                                                  *)
Runs(l, h, e, s, n) == h[0] = e /\ \A i \in 1..n : h[i] = Turn(l, h[i - 1], s[i])

(* g satisfies the equation the fold of s from e is defined by. *)
Folds(l, g, e, s, D) ==
  g = [S \in SUBSET D |->
         IF S = {} THEN e ELSE Turn(l, g[S \ {Max(S)}], s[Max(S)])]

(* The equation has a solution: for no positions it is e, and one for m    *)
(* positions extends to one for m + 1, so no m is the least without one.   *)
LEMMA FoldExists ==
  ASSUME NEW n \in Nat, NEW l, NEW e, NEW s PROVE \E g : Folds(l, g, e, s, 1..n)
<1> DEFINE Unsolved == {m \in Nat : ~ \E g : Folds(l, g, e, s, 1..m)}
<1> SUFFICES ASSUME Unsolved # {} PROVE FALSE
  OBVIOUS
<1>1. Min(Unsolved) \in Unsolved /\ \A y \in Unsolved : Min(Unsolved) <= y
  <2>1. Unsolved \subseteq Nat
    OBVIOUS
  <2> HIDE DEF Unsolved
  <2> QED
    BY <2>1, MinProperties
<1>2. PICK m \in Unsolved : \A y \in Unsolved : m <= y
  BY <1>1
<1>3. m \in Nat /\ ~ \E g : Folds(l, g, e, s, 1..m)
  OBVIOUS
<1>4. m # 0
  <2> DEFINE g == [S \in SUBSET (1..0) |-> e]
  <2>1. \A S \in SUBSET (1..0) : S = {}
    OBVIOUS
  <2>2. Folds(l, g, e, s, 1..0)
    BY <2>1 DEF Folds
  <2> QED
    BY <1>3, <2>2
<1>5. m - 1 \in Nat /\ m - 1 \notin Unsolved
  BY <1>2, <1>3, <1>4
<1>6. PICK g : Folds(l, g, e, s, 1..(m - 1))
  BY <1>5
<1> DEFINE G == [S \in SUBSET (1..m) |->
                   IF m \in S THEN Turn(l, g[S \ {m}], s[m]) ELSE g[S]]
<1>7. ASSUME NEW S \in SUBSET (1..m)
      PROVE  G[S] = IF S = {} THEN e ELSE Turn(l, G[S \ {Max(S)}], s[Max(S)])
  <2>0. \A T \in SUBSET (1..(m - 1)) :
          g[T] = IF T = {} THEN e ELSE Turn(l, g[T \ {Max(T)}], s[Max(T)])
    BY <1>6 DEF Folds
  <2>1. CASE S = {}
    <3>1. {} \in SUBSET (1..(m - 1)) /\ {} \in SUBSET (1..m)
      OBVIOUS
    <3> QED
      BY <2>0, <2>1, <3>1
  <2>2. CASE m \in S
    <3>1. Max(S) \in S /\ \A y \in S : Max(S) >= y
      BY <1>3, <2>2, LastPosition
    <3>2. Max(S) = m
      <4>1. Max(S) \in 1..m /\ Max(S) >= m
        BY <2>2, <3>1
      <4> QED
        BY <1>3, <4>1
    <3>3. S \ {m} \in SUBSET (1..m) /\ m \notin S \ {m}
      OBVIOUS
    <3>4. G[S \ {m}] = g[S \ {m}]
      BY <3>3
    <3> QED
      BY <2>2, <3>2, <3>4
  <2>3. CASE S # {} /\ m \notin S
    <3>1. S \in SUBSET (1..(m - 1))
      BY <1>3, <2>3
    <3>2. S \ {Max(S)} \in SUBSET (1..m) /\ m \notin S \ {Max(S)}
      BY <2>3
    <3>3. G[S \ {Max(S)}] = g[S \ {Max(S)}]
      BY <3>2
    <3> QED
      BY <2>0, <2>3, <3>1, <3>3
  <2> QED
    BY <2>1, <2>2, <2>3
<1>8. Folds(l, G, e, s, 1..m)
  BY <1>7 DEF Folds
<1> QED
  BY <1>3, <1>8

(* A solution runs through the blocks in their order: the least position   *)
(* at which it did not would not satisfy the equation.                     *)
LEMMA FoldRuns ==
  ASSUME NEW n \in Nat, NEW l, NEW e, NEW s, NEW g, Folds(l, g, e, s, 1..n)
  PROVE  Runs(l, [i \in 0..n |-> g[1..i]], e, s, n)
<1> DEFINE h == [i \in 0..n |-> g[1..i]]
<1>1. \A T \in SUBSET (1..n) :
        g[T] = IF T = {} THEN e ELSE Turn(l, g[T \ {Max(T)}], s[Max(T)])
  BY DEF Folds
<1>2. h[0] = e
  <2>1. 1..0 = {} /\ {} \in SUBSET (1..n) /\ 0 \in 0..n
    OBVIOUS
  <2> QED
    BY <1>1, <2>1
<1>3. ASSUME NEW i \in 1..n PROVE h[i] = Turn(l, h[i - 1], s[i])
  <2>1. 1..i \in SUBSET (1..n) /\ i \in 1..i /\ i \in 0..n /\ i - 1 \in 0..n
    OBVIOUS
  <2>2. Max(1..i) \in 1..i /\ \A y \in 1..i : Max(1..i) >= y
    BY <2>1, LastPosition
  <2>3. Max(1..i) = i
    BY <2>1, <2>2
  <2>4. (1..i) \ {i} = 1..(i - 1)
    OBVIOUS
  <2> QED
    BY <1>1, <2>1, <2>3, <2>4
<1> QED
  BY <1>2, <1>3 DEF Runs

(* Two runs through the same blocks are the same. *)
LEMMA RunsAgree ==
  ASSUME NEW n \in Nat, NEW l, NEW e, NEW s, NEW h, NEW f,
         Runs(l, h, e, s, n), Runs(l, f, e, s, n)
  PROVE  h[n] = f[n]
<1> DEFINE Apart == {i \in 0..n : h[i] # f[i]}
<1>1. SUFFICES ASSUME Apart # {} PROVE FALSE
  OBVIOUS
<1>2. Apart \subseteq Nat
  OBVIOUS
<1> HIDE DEF Apart
<1>3. Min(Apart) \in Apart /\ \A y \in Apart : Min(Apart) <= y
  BY <1>1, <1>2, MinProperties
<1>4. PICK i \in Apart : \A y \in Apart : i <= y
  BY <1>3
<1>5. i \in 0..n /\ h[i] # f[i]
  BY DEF Apart
<1>6. i # 0
  BY <1>5 DEF Runs
<1>7. i \in 1..n /\ i - 1 \in 0..n /\ ~(i <= i - 1)
  BY <1>5, <1>6
<1>8. h[i - 1] = f[i - 1]
  BY <1>4, <1>7 DEF Apart
<1> QED
  BY <1>5, <1>7, <1>8 DEF Runs

(* Where a solution ends is where a run ends. *)
LEMMA FoldEnds ==
  ASSUME NEW n \in Nat, NEW l, NEW e, NEW s, NEW g, Folds(l, g, e, s, 1..n)
  PROVE  \E h : Runs(l, h, e, s, n) /\ h[n] = g[1..n]
<1> DEFINE r == [i \in 0..n |-> g[1..i]]
<1>1. Runs(l, r, e, s, n) /\ r[n] = g[1..n]
  BY FoldRuns
<1> HIDE DEF r
<1> QED
  BY <1>1

QueueLoop == [loop |-> "queue"]
AddLoop == [loop |-> "add"]
RemoveLoop(cut) == [loop |-> "remove", cut |-> cut]
GapLoop == [loop |-> "gap"]
LengthLoop == [loop |-> "length"]

LEMMA Turns ==
  /\ \A a, x : Turn(QueueLoop, a, x) = After(a, x)
  /\ \A a, x : Turn(AddLoop, a, x) = Absorb(a, x)
  /\ \A cut, a, x : Turn(RemoveLoop(cut), a, x) = Edit(cut, a, x)
  /\ \A a, x : Turn(GapLoop, a, x) = Pass(a, x)
  /\ \A a, x : Turn(LengthLoop, a, x) = Count(a, x)
  BY DEF Turn, QueueLoop, AddLoop, RemoveLoop, GapLoop, LengthLoop

(* The folds of the two modules are runs. *)
LEMMA QueueRun ==
  ASSUME NEW n \in Nat, NEW e, NEW s, DOMAIN s = 1..n
  PROVE  \E h : Runs(QueueLoop, h, e, s, n) /\ h[n] = FoldLeft(After, e, s)
<1> DEFINE Solves(g) == g = [S \in SUBSET (1..n) |->
                              IF S = {} THEN e ELSE After(g[S \ {Max(S)}], s[Max(S)])]
           f == CHOOSE g : Solves(g)
<1>1. FoldLeft(After, e, s) = f[1..n]
  BY DEF FoldLeft, MapThenFoldSet
<1> HIDE DEF f
<1>2. \A g : Solves(g) <=> Folds(QueueLoop, g, e, s, 1..n)
  <2>1. \A a, x : Turn(QueueLoop, a, x) = After(a, x)
    BY Turns
  <2> QED
    BY <2>1 DEF Folds
<1> HIDE DEF Solves
<1>3. Folds(QueueLoop, f, e, s, 1..n)
  BY <1>2, FoldExists DEF f
<1> QED
  BY <1>1, <1>3, FoldEnds

LEMMA AddRun ==
  ASSUME NEW n \in Nat, NEW e, NEW s, DOMAIN s = 1..n
  PROVE  \E h : Runs(AddLoop, h, e, s, n) /\ h[n] = FoldLeft(Absorb, e, s)
<1> DEFINE Solves(g) == g = [S \in SUBSET (1..n) |->
                              IF S = {} THEN e ELSE Absorb(g[S \ {Max(S)}], s[Max(S)])]
           f == CHOOSE g : Solves(g)
<1>1. FoldLeft(Absorb, e, s) = f[1..n]
  BY DEF FoldLeft, MapThenFoldSet
<1> HIDE DEF f
<1>2. \A g : Solves(g) <=> Folds(AddLoop, g, e, s, 1..n)
  <2>1. \A a, x : Turn(AddLoop, a, x) = Absorb(a, x)
    BY Turns
  <2> QED
    BY <2>1 DEF Folds
<1> HIDE DEF Solves
<1>3. Folds(AddLoop, f, e, s, 1..n)
  BY <1>2, FoldExists DEF f
<1> QED
  BY <1>1, <1>3, FoldEnds

EditAll(cut, e, s) == FoldLeft(LAMBDA acc, r : Edit(cut, acc, r), e, s)

LEMMA RemoveRun ==
  ASSUME NEW n \in Nat, NEW e, NEW s, DOMAIN s = 1..n,
         NEW cut, NEW l, l = RemoveLoop(cut)
  PROVE  \E h : Runs(l, h, e, s, n) /\ h[n] = EditAll(cut, e, s)
<1> DEFINE Solves(g) == g = [S \in SUBSET (1..n) |->
                              IF S = {} THEN e ELSE Edit(cut, g[S \ {Max(S)}], s[Max(S)])]
           f == CHOOSE g : Solves(g)
<1>1. EditAll(cut, e, s) = f[1..n]
  BY DEF EditAll, FoldLeft, MapThenFoldSet
<1> HIDE DEF f
<1>2. \A g : Solves(g) <=> Folds(l, g, e, s, 1..n)
  <2>1. \A a, x : Turn(l, a, x) = Edit(cut, a, x)
    BY Turns
  <2> QED
    BY <2>1, ZenonT(60) DEF Folds
<1> HIDE DEF Solves
<1>3. Folds(l, f, e, s, 1..n)
  BY <1>2, FoldExists DEF f
<1> QED
  BY <1>1, <1>3, FoldEnds

LEMMA GapRun ==
  ASSUME NEW n \in Nat, NEW e, NEW s, DOMAIN s = 1..n
  PROVE  \E h : Runs(GapLoop, h, e, s, n) /\ h[n] = FoldLeft(Pass, e, s)
<1> DEFINE Solves(g) == g = [S \in SUBSET (1..n) |->
                              IF S = {} THEN e ELSE Pass(g[S \ {Max(S)}], s[Max(S)])]
           f == CHOOSE g : Solves(g)
<1>1. FoldLeft(Pass, e, s) = f[1..n]
  BY DEF FoldLeft, MapThenFoldSet
<1> HIDE DEF f
<1>2. \A g : Solves(g) <=> Folds(GapLoop, g, e, s, 1..n)
  <2>1. \A a, x : Turn(GapLoop, a, x) = Pass(a, x)
    BY Turns
  <2> QED
    BY <2>1 DEF Folds
<1> HIDE DEF Solves
<1>3. Folds(GapLoop, f, e, s, 1..n)
  BY <1>2, FoldExists DEF f
<1> QED
  BY <1>1, <1>3, FoldEnds

LEMMA LengthRun ==
  ASSUME NEW n \in Nat, NEW e, NEW s, DOMAIN s = 1..n
  PROVE  \E h : Runs(LengthLoop, h, e, s, n) /\ h[n] = FoldLeft(Count, e, s)
<1> DEFINE Solves(g) == g = [S \in SUBSET (1..n) |->
                              IF S = {} THEN e ELSE Count(g[S \ {Max(S)}], s[Max(S)])]
           f == CHOOSE g : Solves(g)
<1>1. FoldLeft(Count, e, s) = f[1..n]
  BY DEF FoldLeft, MapThenFoldSet
<1> HIDE DEF f
<1>2. \A g : Solves(g) <=> Folds(LengthLoop, g, e, s, 1..n)
  <2>1. \A a, x : Turn(LengthLoop, a, x) = Count(a, x)
    BY Turns
  <2> QED
    BY <2>1 DEF Folds
<1> HIDE DEF Solves
<1>3. Folds(LengthLoop, f, e, s, 1..n)
  BY <1>2, FoldExists DEF f
<1> QED
  BY <1>1, <1>3, FoldEnds

(* The fold over the blocks of a queue is where any run through them ends. *)
LEMMA FoldIsRun ==
  ASSUME NEW n \in Nat, NEW e, NEW s, DOMAIN s = 1..n
  PROVE  /\ \E h : Runs(QueueLoop, h, e, s, n)
         /\ \A h : Runs(QueueLoop, h, e, s, n) => FoldLeft(After, e, s) = h[n]
BY QueueRun, RunsAgree

(* What the blocks s make of the entry e. *)
Made(e, s) == FoldLeft(After, e, s)

(* No blocks leave the entry as it is. *)
LEMMA FoldNothing ==
  ASSUME NEW e, NEW s, DOMAIN s = {} PROVE Made(e, s) = e
<1>1. DOMAIN s = 1..0 /\ 0 \in Nat
  OBVIOUS
<1>2. PICK h : Runs(QueueLoop, h, e, s, 0)
  BY <1>1, FoldIsRun
<1>3. Made(e, s) = h[0]
  BY <1>1, <1>2, FoldIsRun DEF Made
<1> QED
  BY <1>2, <1>3, Turns DEF Runs

(* A block that joins at the end acts on what the others have made. *)
LEMMA FoldJoin ==
  ASSUME NEW n \in Nat, NEW e, NEW s, DOMAIN s = 1..n,
         NEW t, DOMAIN t = 1..(n + 1), \A i \in 1..n : t[i] = s[i]
  PROVE  Made(e, t) = After(Made(e, s), t[n + 1])
<1>1. PICK h : Runs(QueueLoop, h, e, s, n)
  BY FoldIsRun
<1> DEFINE f == [i \in 0..(n + 1) |-> IF i <= n THEN h[i] ELSE After(h[n], t[n + 1])]
<1>2. Runs(QueueLoop, f, e, t, n + 1)
  <2>1. f[0] = e
    BY <1>1, Turns DEF Runs
  <2>2. ASSUME NEW i \in 1..(n + 1) PROVE f[i] = After(f[i - 1], t[i])
    <3>1. CASE i = n + 1
      BY <3>1
    <3>2. CASE i \in 1..n
      <4>1. i - 1 \in 0..(n + 1) /\ i - 1 <= n /\ i <= n /\ i \in 0..(n + 1)
        BY <3>2
      <4>2. f[i] = h[i] /\ f[i - 1] = h[i - 1] /\ t[i] = s[i]
        BY <3>2, <4>1
      <4> QED
        BY <1>1, <3>2, <4>2, Turns DEF Runs
    <3> QED
      BY <3>1, <3>2
  <2>3. \A i \in 1..(n + 1) : f[i] = Turn(QueueLoop, f[i - 1], t[i])
    <3>1. \A a, x : Turn(QueueLoop, a, x) = After(a, x)
      BY Turns
    <3> HIDE DEF f
    <3> QED
      BY <2>2, <3>1
  <2> HIDE DEF f
  <2> QED
    BY <2>1, <2>3 DEF Runs
<1>3. f[n + 1] = After(h[n], t[n + 1])
  OBVIOUS
<1> HIDE DEF f
<1>4. Made(e, t) = f[n + 1]
  <2>1. n + 1 \in Nat
    OBVIOUS
  <2> QED
    BY <1>2, <2>1, FoldIsRun DEF Made
<1>5. Made(e, s) = h[n]
  BY <1>1, FoldIsRun DEF Made
<1> QED
  BY <1>3, <1>4, <1>5

(* t is what is left of the n + 1 blocks s without the first. *)
Behind(t, s, n) ==
  DOMAIN s = 1..(n + 1) /\ DOMAIN t = 1..n /\ \A i \in 1..n : t[i] = s[i + 1]

(* The first block may as well have run. *)
LEMMA FoldFirst ==
  ASSUME NEW n \in Nat, NEW e, NEW s, NEW t, Behind(t, s, n),
         NEW d, d = After(e, s[1])
  PROVE  Made(d, t) = Made(e, s)
<1> USE DEF Behind
<1>0. n + 1 \in Nat
  OBVIOUS
<1>1. PICK h : Runs(QueueLoop, h, e, s, n + 1)
  BY <1>0, FoldIsRun
<1> DEFINE f == [i \in 0..n |-> h[i + 1]]
<1>2. Runs(QueueLoop, f, d, t, n)
  <2>1. f[0] = d
    <3>1. 1 \in 1..(n + 1) /\ 0 \in 0..n
      OBVIOUS
    <3> QED
      BY <1>1, <3>1, Turns DEF Runs
  <2>2. ASSUME NEW i \in 1..n PROVE f[i] = After(f[i - 1], t[i])
    <3>1. i \in 0..n /\ i - 1 \in 0..n /\ i + 1 \in 1..(n + 1) /\ (i + 1) - 1 = i
          /\ (i - 1) + 1 = i
      OBVIOUS
    <3>2. h[i + 1] = After(h[i], s[i + 1])
      BY <1>1, <3>1, Turns DEF Runs
    <3>3. f[i] = h[i + 1] /\ f[i - 1] = h[i]
      BY <3>1
    <3> QED
      BY <3>2, <3>3
  <2>3. \A i \in 1..n : f[i] = Turn(QueueLoop, f[i - 1], t[i])
    <3>1. \A a, x : Turn(QueueLoop, a, x) = After(a, x)
      BY Turns
    <3> HIDE DEF f
    <3> QED
      BY <2>2, <3>1
  <2> HIDE DEF f
  <2> QED
    BY <2>1, <2>3 DEF Runs
<1>3. f[n] = h[n + 1]
  OBVIOUS
<1> HIDE DEF f
<1>4. Made(d, t) = f[n]
  BY <1>2, FoldIsRun DEF Made
<1>5. Made(e, s) = h[n + 1]
  BY <1>0, <1>1, FoldIsRun DEF Made
<1> QED
  BY <1>3, <1>4, <1>5

----------------------------------------------------------------------------
(* What the synchronous calls are answered. *)

Block == {b \in Updates \cup Queries : Submittable(b)}
Submission == [by : Callers, block : Block]

(* The entry of k once the blocks before the i-th have run. *)
Blocks(q, n) == [j \in 1..n |-> q[j].block]
Reached(e, q, i) == Made(e, Blocks(q, i - 1))

Asks(q, i) == q[i].block \in Queries

(* The invariant: who asks sleeps, is due what the entry will be then, and *)
(* asks once.                                                              *)
Sound(e, q, d) ==
  \A i \in DOMAIN q :
    Asks(q, i) => d[q[i].by] = <<Answer(Reached(e, q, i), q[i].block)>>

AskOnce(q, p, same) ==
  \A i \in DOMAIN q, j \in DOMAIN p :
    Asks(q, i) /\ Asks(p, j) /\ q[i].by = p[j].by => same /\ i = j

QueueType ==
  /\ queue \in [Keys -> Seq(Submission)]
  /\ entry = [k \in Keys |-> entry[k]]
  /\ due = [t \in Callers |-> due[t]]

QueueInv ==
  /\ QueueType
  /\ \A k \in Keys : Sound(entry[k], queue[k], due)
  /\ \A k, l \in Keys : AskOnce(queue[k], queue[l], k = l)
  /\ misled = {}

(* Removing the first leaves the tail. *)
LEMMA HeadRemoved ==
  ASSUME NEW T, NEW q \in Seq(T), q # <<>>
  PROVE  /\ RemoveAt(q, 1) \in Seq(T)
         /\ Len(q) \in Nat /\ Len(q) > 0 /\ DOMAIN q = 1..Len(q)
         /\ DOMAIN RemoveAt(q, 1) = 1..(Len(q) - 1)
         /\ \A i \in 1..(Len(q) - 1) : RemoveAt(q, 1)[i] = q[i + 1]
<1>0. Len(q) \in Nat /\ DOMAIN q = 1..Len(q)
  BY LenProperties
<1>1. Len(q) \in Nat /\ Len(q) > 0 /\ DOMAIN q = 1..Len(q)
  <2>1. Len(q) # 0
    BY EmptySeq
  <2> QED
    BY <1>0, <2>1
<1> DEFINE a == SubSeq(q, 1, 0)
           b == SubSeq(q, 2, Len(q))
<1>2. \A i \in 1..Len(q) : q[i] \in T
  BY <1>1, ElementOfSeq
<1>3. a \in Seq(T) /\ Len(a) = 0
  BY <1>1, <1>2, SubSeqProperties
<1>4. /\ b \in Seq(T) /\ Len(b) = Len(q) - 1
      /\ \A i \in 1..(Len(q) - 1) : b[i] = q[i + 1]
  BY <1>1, <1>2, SubSeqProperties
<1>5. RemoveAt(q, 1) = a \o b
  BY DEF RemoveAt
<1> HIDE DEF a, b
<1>6. a \o b = b
  BY <1>3, <1>4, ConcatEmptySeq, EmptySeq
<1>7. DOMAIN b = 1..Len(b)
  BY <1>4, LenProperties
<1> QED
  BY <1>1, <1>4, <1>5, <1>6, <1>7

(* Every block but one that joins at the end finds what it found before,   *)
(* and the newcomer finds what all the others have made.                   *)
Joined(e, q, x, p) ==
  /\ p \in Seq(Submission)
  /\ Len(q) \in Nat /\ DOMAIN q = 1..Len(q)
  /\ Len(p) = Len(q) + 1
  /\ DOMAIN p = 1..(Len(q) + 1)
  /\ p[Len(q) + 1] = x
  /\ \A i \in 1..Len(q) : p[i] = q[i]
  /\ \A i \in 1..(Len(q) + 1) : Reached(e, p, i) = Reached(e, q, i)
  /\ Reached(e, p, Len(q) + 2) = After(Reached(e, q, Len(q) + 1), x.block)

LEMMA Joins ==
  ASSUME NEW q \in Seq(Submission), NEW x \in Submission, NEW e
  PROVE  Joined(e, q, x, Append(q, x))
<1> DEFINE n == Len(q)
           p == Append(q, x)
<1>1. /\ p \in Seq(Submission) /\ Len(p) = n + 1 /\ p[n + 1] = x
      /\ \A i \in 1..n : p[i] = q[i]
  BY AppendProperties
<1>2. n \in Nat /\ DOMAIN q = 1..n /\ DOMAIN p = 1..(n + 1)
  BY <1>1, LenProperties
<1> HIDE DEF n, p
<1>3. ASSUME NEW i \in 1..(n + 1) PROVE Reached(e, p, i) = Reached(e, q, i)
  <2>1. i - 1 \in 0..n /\ \A j \in 1..(i - 1) : j \in 1..n
    BY <1>2
  <2>2. Blocks(p, i - 1) = Blocks(q, i - 1)
    BY <1>1, <2>1 DEF Blocks
  <2> QED
    BY <2>2 DEF Reached
<1>4. Reached(e, p, n + 2) = After(Reached(e, q, n + 1), x.block)
  <2> DEFINE s == Blocks(q, n)
             t == Blocks(p, n + 1)
  <2>1. (n + 1) - 1 = n /\ (n + 2) - 1 = n + 1 /\ n + 1 \in 1..(n + 1)
    BY <1>2
  <2>2. DOMAIN s = 1..n /\ DOMAIN t = 1..(n + 1) /\ t[n + 1] = x.block
    BY <1>1, <2>1 DEF Blocks
  <2>3. \A i \in 1..n : t[i] = s[i]
    BY <1>1, <1>2 DEF Blocks
  <2>4. Reached(e, p, n + 2) = Made(e, t)
        /\ Reached(e, q, n + 1) = Made(e, s)
    BY <2>1 DEF Reached
  <2> HIDE DEF s, t
  <2>5. Made(e, t) = After(Made(e, s), t[n + 1])
    BY <1>2, <2>2, <2>3, FoldJoin
  <2> QED
    BY <2>2, <2>4, <2>5
<1> QED
  BY <1>1, <1>2, <1>3, <1>4 DEF n, p, Joined

(* Once the first block has run, the others find what they would have      *)
(* found behind it.                                                        *)
LEMMA Leaves ==
  ASSUME NEW q \in Seq(Submission), q # <<>>, NEW e
  PROVE  /\ Reached(e, q, 1) = e
         /\ \A i \in 1..Len(q) :
              Reached(After(e, q[1].block), RemoveAt(q, 1), i) = Reached(e, q, i + 1)
<1> DEFINE p == RemoveAt(q, 1)
           n == Len(q)
<1>1. /\ n \in Nat /\ n > 0 /\ DOMAIN q = 1..n /\ DOMAIN p = 1..(n - 1)
      /\ \A i \in 1..(n - 1) : p[i] = q[i + 1]
  BY HeadRemoved
<1> HIDE DEF p, n
<1>2. Reached(e, q, 1) = e
  <2>1. DOMAIN Blocks(q, 1 - 1) = {}
    BY DEF Blocks
  <2> QED
    BY <2>1, FoldNothing DEF Reached
<1>3. ASSUME NEW i \in 1..n
      PROVE  Reached(After(e, q[1].block), p, i) = Reached(e, q, i + 1)
  <2> DEFINE m == i - 1
             s == Blocks(q, m + 1)
             t == Blocks(p, m)
  <2>1. m \in Nat /\ m + 1 = i /\ (i + 1) - 1 = m + 1 /\ m <= n - 1 /\ 1 \in 1..(m + 1)
    BY <1>1
  <2>2. DOMAIN s = 1..(m + 1) /\ DOMAIN t = 1..m /\ s[1] = q[1].block
    BY <2>1 DEF Blocks
  <2>3. \A j \in 1..m : t[j] = s[j + 1]
    <3>1. \A j \in 1..m : j \in 1..(n - 1) /\ j + 1 \in 1..(m + 1)
      BY <1>1, <2>1
    <3> QED
      BY <1>1, <3>1 DEF Blocks
  <2>4. /\ Reached(After(e, q[1].block), p, i) = Made(After(e, q[1].block), t)
        /\ Reached(e, q, i + 1) = Made(e, s)
    BY <2>1 DEF Reached
  <2> DEFINE d == After(e, q[1].block)
  <2>6. d = After(e, s[1])
    BY <2>2
  <2> HIDE DEF m, s, t, d
  <2>5. Made(d, t) = Made(e, s)
    <3>1. Behind(t, s, m)
      BY <2>2, <2>3 DEF Behind
    <3>2. m \in Nat
      BY <2>1
    <3> QED
      BY <2>6, <3>1, <3>2, FoldFirst
  <2> QED
    BY <2>4, <2>5 DEF d
<1> QED
  BY <1>2, <1>3 DEF p, n

(* Submitted is what the queue has made of the entry at its end. *)
LEMMA SubmittedReached ==
  ASSUME QueueType, NEW k \in Keys
  PROVE  Submitted(k) = Reached(entry[k], queue[k], Len(queue[k]) + 1)
<1>1. queue[k] \in Seq(Submission)
  BY DEF QueueType
<1>2. DOMAIN queue[k] = 1..Len(queue[k]) /\ (Len(queue[k]) + 1) - 1 = Len(queue[k])
  BY <1>1, LenProperties
<1> QED
  BY <1>2 DEF Submitted, Reached, Made, Blocks

(* An update is not a query. *)
LEMMA UpdatesDoNotAsk == \A b \in Updates : b \notin Queries
  BY DEF Updates, Queries

(* Who asks is asleep. *)
LEMMA AskersSleep ==
  ASSUME QueueInv, NEW k \in Keys, NEW i \in DOMAIN queue[k], Asks(queue[k], i)
  PROVE  Sleeps(queue[k][i].by)
<1>1. due[queue[k][i].by] = <<Answer(Reached(entry[k], queue[k], i), queue[k][i].block)>>
  BY DEF QueueInv, Sound
<1>2. \A x : <<x>> # <<>>
  OBVIOUS
<1> QED
  BY <1>1, <1>2 DEF Sleeps

(* An update disturbs nobody: it joins behind all who ask. *)
LEMMA AsyncKeeps ==
  ASSUME QueueInv, NEW t \in Callers, NEW k \in Keys, NEW b \in Updates, Async(t, k, b)
  PROVE  QueueInv'
<1> DEFINE x == [by |-> t, block |-> b]
<1>1. x \in Submission /\ x.block = b /\ x.by = t
  BY DEF Submission, Block, Async
<1>2. queue \in [Keys -> Seq(Submission)] /\ queue' = [queue EXCEPT ![k] = Append(@, x)]
  BY DEF QueueInv, QueueType, Async
<1>3. entry' = entry /\ due' = due /\ misled' = misled
  BY DEF Async
<1> HIDE DEF x
<1>4. queue'[k] = Append(queue[k], x) /\ \A l \in Keys \ {k} : queue'[l] = queue[l]
  BY <1>2
<1>5. /\ queue'[k] \in Seq(Submission)
      /\ Len(queue[k]) \in Nat /\ DOMAIN queue[k] = 1..Len(queue[k])
      /\ DOMAIN queue'[k] = 1..(Len(queue[k]) + 1)
      /\ queue'[k][Len(queue[k]) + 1] = x
      /\ \A i \in 1..Len(queue[k]) : queue'[k][i] = queue[k][i]
      /\ \A i \in 1..(Len(queue[k]) + 1) :
           Reached(entry[k], queue'[k], i) = Reached(entry[k], queue[k], i)
  <2>1. queue[k] \in Seq(Submission)
    BY <1>2
  <2>2. Joined(entry[k], queue[k], x, queue'[k])
    BY <1>1, <1>4, <2>1, Joins
  <2> QED
    BY <2>2 DEF Joined
<1>6. ~Asks(queue'[k], Len(queue[k]) + 1)
  BY <1>1, <1>4, <1>5, UpdatesDoNotAsk DEF Asks
<1>7. ASSUME NEW l \in Keys, NEW i \in DOMAIN queue'[l], Asks(queue'[l], i)
      PROVE  /\ i \in DOMAIN queue[l] /\ queue'[l][i] = queue[l][i]
             /\ Reached(entry'[l], queue'[l], i) = Reached(entry[l], queue[l], i)
  <2>1. CASE l = k
    <3>1. i \in 1..(Len(queue[k]) + 1) /\ i # Len(queue[k]) + 1
      BY <1>4, <1>5, <1>6, <1>7, <2>1
    <3>2. i \in 1..Len(queue[k])
      BY <1>5, <3>1
    <3> QED
      BY <1>3, <1>4, <1>5, <2>1, <3>1, <3>2
  <2>2. CASE l # k
    BY <1>3, <1>4, <2>2
  <2> QED
    BY <2>1, <2>2
<1>8. queue' \in [Keys -> Seq(Submission)]
  BY <1>2, <1>5
<1>9. ASSUME NEW l \in Keys PROVE Sound(entry'[l], queue'[l], due')
  <2>1. Sound(entry[l], queue[l], due)
    BY DEF QueueInv
  <2> QED
    BY <1>3, <1>7, <2>1 DEF Sound, Asks
<1>10. ASSUME NEW l \in Keys, NEW m \in Keys PROVE AskOnce(queue'[l], queue'[m], l = m)
  <2>1. AskOnce(queue[l], queue[m], l = m)
    BY DEF QueueInv
  <2> QED
    BY <1>7, <2>1 DEF AskOnce, Asks
<1> QED
  BY <1>3, <1>8, <1>9, <1>10 DEF QueueInv, QueueType

(* A query is due what it will be answered, and its caller, awake until    *)
(* now, asks nothing else.                                                 *)
LEMMA SyncKeeps ==
  ASSUME QueueInv, NEW t \in Callers, NEW k \in Keys, NEW b \in Queries, Sync(t, k, b)
  PROVE  QueueInv'
<1> DEFINE x == [by |-> t, block |-> b]
           n == Len(queue[k])
<1>1. x \in Submission /\ x.block = b /\ x.by = t
  BY DEF Submission, Block, Sync
<1>2. queue \in [Keys -> Seq(Submission)] /\ queue' = [queue EXCEPT ![k] = Append(@, x)]
  BY DEF QueueInv, QueueType, Sync
<1>3. /\ entry' = entry /\ misled' = misled
      /\ due' = [due EXCEPT ![t] = <<Answer(Submitted(k), b)>>]
  BY DEF Sync
<1> HIDE DEF x
<1>4. queue'[k] = Append(queue[k], x) /\ \A l \in Keys \ {k} : queue'[l] = queue[l]
  BY <1>2
<1>5. /\ queue'[k] \in Seq(Submission)
      /\ n \in Nat /\ DOMAIN queue[k] = 1..n
      /\ DOMAIN queue'[k] = 1..(n + 1)
      /\ queue'[k][n + 1] = x
      /\ \A i \in 1..n : queue'[k][i] = queue[k][i]
      /\ \A i \in 1..(n + 1) :
           Reached(entry[k], queue'[k], i) = Reached(entry[k], queue[k], i)
  <2>1. queue[k] \in Seq(Submission)
    BY <1>2
  <2>2. Joined(entry[k], queue[k], x, queue'[k])
    BY <1>1, <1>4, <2>1, Joins
  <2> QED
    BY <2>2 DEF Joined, n
<1> HIDE DEF n
<1>6. /\ due'[t] = <<Answer(Reached(entry'[k], queue'[k], n + 1), b)>>
      /\ \A u \in Callers \ {t} : due'[u] = due[u]
      /\ due' = [u \in Callers |-> due'[u]]
  <2>1. Submitted(k) = Reached(entry[k], queue[k], n + 1)
    BY SubmittedReached DEF QueueInv, n
  <2>2. Reached(entry'[k], queue'[k], n + 1) = Reached(entry[k], queue[k], n + 1)
    BY <1>3, <1>4, <1>5
  <2>3. due = [u \in Callers |-> due[u]]
    BY DEF QueueInv, QueueType
  <2> QED
    BY <1>3, <2>1, <2>2, <2>3
<1>7. ASSUME NEW l \in Keys, NEW i \in DOMAIN queue'[l], ~(l = k /\ i = n + 1)
      PROVE  /\ i \in DOMAIN queue[l] /\ queue'[l][i] = queue[l][i]
             /\ Reached(entry'[l], queue'[l], i) = Reached(entry[l], queue[l], i)
  <2>1. CASE l = k
    <3>1. i \in 1..n /\ i \in 1..(n + 1)
      BY <1>4, <1>5, <1>7, <2>1
    <3> QED
      BY <1>3, <1>4, <1>5, <2>1, <3>1
  <2>2. CASE l # k
    BY <1>3, <1>4, <2>2
  <2> QED
    BY <2>1, <2>2
<1>8. ASSUME NEW l \in Keys, NEW i \in DOMAIN queue[l], Asks(queue[l], i)
      PROVE  queue[l][i].by \in Callers \ {t}
  <2>1. queue[l][i] \in Submission
    BY <1>2
  <2>2. Sleeps(queue[l][i].by)
    BY <1>8, AskersSleep
  <2> QED
    BY <2>1, <2>2 DEF Submission, Sync
<1>9. queue'[k][n + 1] = x
  BY <1>4, <1>5
<1>10. queue' \in [Keys -> Seq(Submission)]
  BY <1>2, <1>5
<1>11. ASSUME NEW l \in Keys PROVE Sound(entry'[l], queue'[l], due')
  <2>1. Sound(entry[l], queue[l], due)
    BY DEF QueueInv
  <2> SUFFICES ASSUME NEW i \in DOMAIN queue'[l], Asks(queue'[l], i)
               PROVE  due'[queue'[l][i].by] =
                        <<Answer(Reached(entry'[l], queue'[l], i), queue'[l][i].block)>>
    BY DEF Sound
  <2>2. CASE l = k /\ i = n + 1
    BY <1>1, <1>6, <1>9, <2>2
  <2>3. CASE ~(l = k /\ i = n + 1)
    <3>1. /\ i \in DOMAIN queue[l] /\ queue'[l][i] = queue[l][i]
          /\ Reached(entry'[l], queue'[l], i) = Reached(entry[l], queue[l], i)
      BY <1>7, <2>3
    <3>2. Asks(queue[l], i)
      BY <3>1 DEF Asks
    <3>3. due'[queue[l][i].by] = due[queue[l][i].by]
      BY <1>6, <1>8, <3>1, <3>2
    <3> QED
      BY <2>1, <3>1, <3>2, <3>3 DEF Sound
  <2> QED
    BY <2>2, <2>3
<1>12. ASSUME NEW l \in Keys, NEW m \in Keys PROVE AskOnce(queue'[l], queue'[m], l = m)
  <2>1. AskOnce(queue[l], queue[m], l = m)
    BY DEF QueueInv
  <2> SUFFICES ASSUME NEW i \in DOMAIN queue'[l], NEW j \in DOMAIN queue'[m],
                      Asks(queue'[l], i), Asks(queue'[m], j),
                      queue'[l][i].by = queue'[m][j].by
               PROVE  l = m /\ i = j
    BY DEF AskOnce
  <2>2. CASE (l = k /\ i = n + 1) /\ (m = k /\ j = n + 1)
    BY <2>2
  <2>3. CASE (l = k /\ i = n + 1) /\ ~(m = k /\ j = n + 1)
    BY <1>1, <1>7, <1>8, <1>9, <2>3 DEF Asks
  <2>4. CASE ~(l = k /\ i = n + 1) /\ (m = k /\ j = n + 1)
    BY <1>1, <1>7, <1>8, <1>9, <2>4 DEF Asks
  <2>5. CASE ~(l = k /\ i = n + 1) /\ ~(m = k /\ j = n + 1)
    BY <1>7, <2>1, <2>5 DEF AskOnce, Asks
  <2> QED
    BY <2>2, <2>3, <2>4, <2>5
<1> QED
  BY <1>3, <1>6, <1>10, <1>11, <1>12 DEF QueueInv, QueueType

(* A block that runs finds the entry its caller was promised, and those    *)
(* behind it find what they would have found.                              *)
LEMMA RunBlockKeeps ==
  ASSUME QueueInv, NEW k \in Keys, RunBlock(k)
  PROVE  QueueInv'
<1> DEFINE x == queue[k][1]
           n == Len(queue[k])
           asks == x.block \in Queries
           at(l, i) == IF l = k THEN i + 1 ELSE i
<1>1. queue \in [Keys -> Seq(Submission)] /\ queue[k] \in Seq(Submission) /\ queue[k] # <<>>
  BY DEF QueueInv, QueueType, RunBlock
<1>2. /\ queue' = [queue EXCEPT ![k] = RemoveAt(@, 1)]
      /\ entry' = [entry EXCEPT ![k] = After(@, x.block)]
      /\ IF x.block \in Queries
         THEN /\ due' = [due EXCEPT ![x.by] = <<>>]
              /\ misled' = IF due[x.by] = <<Answer(entry[k], x.block)>>
                           THEN misled ELSE misled \cup {x.by}
         ELSE due' = due /\ misled' = misled
  BY DEF RunBlock, RunBlockAt
<1>3. /\ RemoveAt(queue[k], 1) \in Seq(Submission)
      /\ n \in Nat /\ n > 0 /\ DOMAIN queue[k] = 1..n
      /\ DOMAIN RemoveAt(queue[k], 1) = 1..(n - 1)
      /\ \A i \in 1..(n - 1) : RemoveAt(queue[k], 1)[i] = queue[k][i + 1]
  BY <1>1, HeadRemoved
<1>4. /\ Reached(entry[k], queue[k], 1) = entry[k]
      /\ \A i \in 1..n : Reached(After(entry[k], x.block), RemoveAt(queue[k], 1), i)
                           = Reached(entry[k], queue[k], i + 1)
  BY <1>1, Leaves
<1> HIDE DEF x, n
<1>5. /\ queue'[k] = RemoveAt(queue[k], 1) /\ entry'[k] = After(entry[k], x.block)
      /\ \A l \in Keys \ {k} : queue'[l] = queue[l] /\ entry'[l] = entry[l]
      /\ entry' = [l \in Keys |-> entry'[l]]
  <2>1. entry = [l \in Keys |-> entry[l]]
    BY DEF QueueInv, QueueType
  <2> QED
    BY <1>1, <1>2, <2>1
<1>6. ASSUME NEW l \in Keys, NEW i \in DOMAIN queue'[l]
      PROVE  /\ at(l, i) \in DOMAIN queue[l] /\ queue'[l][i] = queue[l][at(l, i)]
             /\ Reached(entry'[l], queue'[l], i) = Reached(entry[l], queue[l], at(l, i))
             /\ ~(l = k /\ at(l, i) = 1)
  <2>1. CASE l = k
    <3>1. i \in 1..(n - 1) /\ i \in 1..n /\ i + 1 \in 1..n /\ i + 1 # 1
      BY <1>3, <1>5, <2>1
    <3> QED
      BY <1>3, <1>4, <1>5, <2>1, <3>1
  <2>2. CASE l # k
    BY <1>5, <2>2
  <2> QED
    BY <2>1, <2>2
<1>7. \A l \in Keys : \A i, j \in DOMAIN queue'[l] : at(l, i) = at(l, j) => i = j
  <2> SUFFICES ASSUME NEW l \in Keys, NEW i \in DOMAIN queue'[l], NEW j \in DOMAIN queue'[l],
                      at(l, i) = at(l, j)
               PROVE  i = j
    OBVIOUS
  <2>1. CASE l = k
    <3>1. i \in 1..(n - 1) /\ j \in 1..(n - 1)
      BY <1>3, <1>5, <2>1
    <3> QED
      BY <1>3, <2>1, <3>1
  <2> QED
    BY <2>1
<1> HIDE DEF at
<1>8. x = queue[k][1] /\ 1 \in DOMAIN queue[k] /\ x \in Submission
  <2>1. 1 \in 1..n
    BY <1>3
  <2>2. 1 \in DOMAIN queue[k] /\ x = queue[k][1]
    BY <1>3, <2>1 DEF x
  <2> QED
    BY <1>1, <2>2
<1>9. asks => due[x.by] = <<Answer(entry[k], x.block)>>
  <2>1. Sound(entry[k], queue[k], due)
    BY DEF QueueInv
  <2> QED
    BY <1>4, <1>8, <2>1 DEF Sound, Asks
<1>10. misled' = {}
  <2>1. misled = {}
    BY DEF QueueInv
  <2> QED
    BY <1>2, <1>9, <2>1
<1>11. ASSUME NEW l \in Keys, NEW i \in DOMAIN queue[l], ~(l = k /\ i = 1), Asks(queue[l], i)
       PROVE  due'[queue[l][i].by] = due[queue[l][i].by]
  <2>1. due = [u \in Callers |-> due[u]]
    BY DEF QueueInv, QueueType
  <2>2. queue[l][i].by \in Callers
    <3>1. queue[l][i] \in Submission
      BY <1>1
    <3> QED
      BY <3>1 DEF Submission
  <2>3. CASE asks
    <3>1. AskOnce(queue[l], queue[k], l = k)
      BY DEF QueueInv
    <3>2. Asks(queue[k], 1)
      BY <1>8, <2>3 DEF Asks
    <3>3. queue[l][i].by # x.by
      BY <1>8, <1>11, <3>1, <3>2 DEF AskOnce
    <3> QED
      BY <1>2, <2>1, <2>2, <2>3, <3>3
  <2> QED
    BY <1>2, <2>3
<1>12. due' = [u \in Callers |-> due'[u]]
  <2>1. due = [u \in Callers |-> due[u]]
    BY DEF QueueInv, QueueType
  <2> QED
    BY <1>2, <2>1
<1>13. queue' \in [Keys -> Seq(Submission)]
  BY <1>1, <1>2, <1>3
<1>14. ASSUME NEW l \in Keys PROVE Sound(entry'[l], queue'[l], due')
  <2>1. Sound(entry[l], queue[l], due)
    BY DEF QueueInv
  <2> SUFFICES ASSUME NEW i \in DOMAIN queue'[l], Asks(queue'[l], i)
               PROVE  due'[queue'[l][i].by] =
                        <<Answer(Reached(entry'[l], queue'[l], i), queue'[l][i].block)>>
    BY DEF Sound
  <2>2. Asks(queue[l], at(l, i))
    BY <1>6 DEF Asks
  <2>3. due'[queue[l][at(l, i)].by] = due[queue[l][at(l, i)].by]
    BY <1>6, <1>11, <2>2
  <2>4. due[queue[l][at(l, i)].by] =
          <<Answer(Reached(entry[l], queue[l], at(l, i)), queue[l][at(l, i)].block)>>
    BY <1>6, <2>1, <2>2 DEF Sound
  <2> QED
    BY <1>6, <2>3, <2>4
<1>15. ASSUME NEW l \in Keys, NEW m \in Keys PROVE AskOnce(queue'[l], queue'[m], l = m)
  <2>1. AskOnce(queue[l], queue[m], l = m)
    BY DEF QueueInv
  <2> SUFFICES ASSUME NEW i \in DOMAIN queue'[l], NEW j \in DOMAIN queue'[m],
                      Asks(queue'[l], i), Asks(queue'[m], j),
                      queue'[l][i].by = queue'[m][j].by
               PROVE  l = m /\ i = j
    BY DEF AskOnce
  <2>2. l = m /\ at(l, i) = at(m, j)
    BY <1>6, <2>1 DEF AskOnce, Asks
  <2> QED
    BY <1>7, <2>2
<1> QED
  BY <1>5, <1>10, <1>12, <1>13, <1>14, <1>15 DEF QueueInv, QueueType

(* Nothing that is submitted or runs breaks the invariant. *)
LEMMA QueueStep == QueueInv /\ [Next]_vars => QueueInv'
<1> SUFFICES ASSUME QueueInv, [Next]_vars PROVE QueueInv'
  OBVIOUS
<1>1. ASSUME NEW t \in Callers, NEW k \in Keys, NEW b \in Updates, Async(t, k, b)
      PROVE  QueueInv'
  BY <1>1, AsyncKeeps
<1>2. ASSUME NEW t \in Callers, NEW k \in Keys, NEW b \in Queries, Sync(t, k, b)
      PROVE  QueueInv'
  BY <1>2, SyncKeeps
<1>3. ASSUME NEW k \in Keys, RunBlock(k) PROVE QueueInv'
  BY <1>3, RunBlockKeeps
<1>4. CASE UNCHANGED vars
  <2>1. entry' = entry /\ queue' = queue /\ due' = due /\ misled' = misled
    BY <1>4 DEF vars
  <2> QED
    <3>1. \A k \in Keys : Sound(entry'[k], queue'[k], due')
      BY <2>1 DEF QueueInv
    <3>2. \A k, l \in Keys : AskOnce(queue'[k], queue'[l], k = l)
      BY <2>1 DEF QueueInv
    <3>3. QueueType' /\ misled' = {}
      BY <2>1 DEF QueueInv, QueueType
    <3> QED
      BY <3>1, <3>2, <3>3 DEF QueueInv
<1> QED
  BY <1>1, <1>2, <1>3, <1>4 DEF Next

LEMMA QueueInitially == Init => QueueInv
<1> SUFFICES ASSUME Init PROVE QueueInv
  OBVIOUS
<1>1. \A k \in Keys : queue[k] = <<>> /\ DOMAIN queue[k] = {}
  BY DEF Init
<1>2. QueueType
  <2>1. <<>> \in Seq(Submission)
    OBVIOUS
  <2> QED
    BY <2>1 DEF Init, QueueType
<1>3. \A k \in Keys : Sound(entry[k], queue[k], due)
  BY <1>1 DEF Sound
<1>4. \A k, l \in Keys : AskOnce(queue[k], queue[l], k = l)
  BY <1>1 DEF AskOnce
<1> QED
  BY <1>2, <1>3, <1>4 DEF Init, QueueInv

LEMMA QueueAlways == Spec => []QueueInv
<1> QED
  BY QueueInitially, QueueStep, PTL DEF Spec

(* Whatever its callers submit to the queues of the index, and however the *)
(* queues take turns, a synchronous call answers as if every block         *)
(* submitted before it had run and none after it: a thread that does not   *)
(* wait for its addRange still finds it in the completion it asks for next.*)
THEOREM AnsweredAsSubmitted == Spec => []AnswersAsSubmitted
<1>1. QueueInv => AnswersAsSubmitted
  BY DEF QueueInv, AnswersAsSubmitted
<1> QED
  BY <1>1, QueueAlways, PTL

(* Nobody sleeps for a block that is in no queue: with AskOnce, for every  *)
(* caller asleep in dispatch_sync exactly one block is still to run, whose *)
(* end wakes it.  Liveness then is a matter of the queues' turns only.     *)
SleeperIsQueued ==
  \A t \in Callers : Sleeps(t) =>
    \E k \in Keys : \E i \in DOMAIN queue[k] : queue[k][i].by = t /\ Asks(queue[k], i)

(* A caller's query moves up as the blocks before it run; one that is not  *)
(* the first stays.                                                        *)
LEMMA SleeperStays ==
  ASSUME QueueInv, SleeperIsQueued, [Next]_vars
  PROVE  SleeperIsQueued'
<1>1. queue \in [Keys -> Seq(Submission)] /\ due = [t \in Callers |-> due[t]]
  BY DEF QueueInv, QueueType
<1>2. ASSUME NEW k \in Keys, NEW x \in Submission,
             queue' = [queue EXCEPT ![k] = Append(@, x)]
      PROVE  /\ \A l \in Keys, i \in Nat : i \in DOMAIN queue[l] =>
                  i \in DOMAIN queue'[l] /\ queue'[l][i] = queue[l][i]
             /\ \E i \in DOMAIN queue'[k] : queue'[k][i] = x
  <2>1. queue[k] \in Seq(Submission) /\ queue'[k] = Append(queue[k], x)
    BY <1>1, <1>2
  <2>2. \A l \in Keys \ {k} : queue'[l] = queue[l]
    BY <1>1, <1>2
  <2>3. /\ Len(queue[k]) \in Nat /\ DOMAIN queue[k] = 1..Len(queue[k])
        /\ DOMAIN queue'[k] = 1..(Len(queue[k]) + 1)
        /\ queue'[k][Len(queue[k]) + 1] = x
        /\ \A i \in 1..Len(queue[k]) : queue'[k][i] = queue[k][i]
    <3>1. Joined(entry[k], queue[k], x, queue'[k])
      BY <2>1, Joins
    <3> QED
      BY <3>1 DEF Joined
  <2>4. Len(queue[k]) + 1 \in DOMAIN queue'[k]
    BY <2>3
  <2>5. \A i \in Nat : i \in DOMAIN queue[k] =>
          i \in DOMAIN queue'[k] /\ queue'[k][i] = queue[k][i]
    BY <2>3
  <2> QED
    BY <2>2, <2>3, <2>4, <2>5
<1>3. \A l \in Keys : \A i \in DOMAIN queue[l] : i \in Nat
  <2> SUFFICES ASSUME NEW l \in Keys PROVE \A i \in DOMAIN queue[l] : i \in Nat
    OBVIOUS
  <2>1. queue[l] \in Seq(Submission)
    BY <1>1
  <2>2. DOMAIN queue[l] = 1..Len(queue[l]) /\ Len(queue[l]) \in Nat
    BY <2>1, LenProperties
  <2> QED
    BY <2>2
<1>4. ASSUME NEW t \in Callers, NEW k \in Keys, NEW b \in Updates, Async(t, k, b)
      PROVE  SleeperIsQueued'
  <2>1. [by |-> t, block |-> b] \in Submission
    BY <1>4 DEF Submission, Block, Async
  <2>2. due' = due /\ queue' = [queue EXCEPT ![k] = Append(@, [by |-> t, block |-> b])]
    BY <1>4 DEF Async
  <2> SUFFICES ASSUME NEW u \in Callers, Sleeps(u)
               PROVE  \E l \in Keys : \E i \in DOMAIN queue'[l] :
                        queue'[l][i].by = u /\ Asks(queue'[l], i)
    BY <2>2 DEF SleeperIsQueued, Sleeps, Asks
  <2>3. PICK l \in Keys, i \in Nat : /\ i \in DOMAIN queue[l]
                                     /\ queue[l][i].by = u /\ Asks(queue[l], i)
    BY <1>3 DEF SleeperIsQueued
  <2>4. i \in DOMAIN queue'[l] /\ queue'[l][i] = queue[l][i]
    BY <1>2, <2>1, <2>2, <2>3
  <2> QED
    BY <2>3, <2>4 DEF Asks
<1>5. ASSUME NEW t \in Callers, NEW k \in Keys, NEW b \in Queries, Sync(t, k, b)
      PROVE  SleeperIsQueued'
  <2> DEFINE x == [by |-> t, block |-> b]
  <2>1. x \in Submission /\ x.by = t /\ x.block = b
    BY <1>5 DEF Submission, Block, Sync
  <2>2. queue' = [queue EXCEPT ![k] = Append(@, x)]
    BY <1>5 DEF Sync
  <2>3. \A u \in Callers \ {t} : due'[u] = due[u]
    BY <1>1, <1>5 DEF Sync
  <2> HIDE DEF x
  <2> SUFFICES ASSUME NEW u \in Callers, due'[u] # <<>>
               PROVE  \E l \in Keys : \E i \in DOMAIN queue'[l] :
                        queue'[l][i].by = u /\ Asks(queue'[l], i)
    BY DEF SleeperIsQueued, Sleeps, Asks
  <2>4. CASE u = t
    <3>1. PICK i \in DOMAIN queue'[k] : queue'[k][i] = x
      BY <1>2, <2>1, <2>2
    <3> QED
      BY <2>1, <2>4, <3>1 DEF Asks
  <2>5. CASE u # t
    <3>1. Sleeps(u)
      BY <2>3, <2>5 DEF Sleeps
    <3>2. PICK l \in Keys, i \in Nat : /\ i \in DOMAIN queue[l]
                                       /\ queue[l][i].by = u /\ Asks(queue[l], i)
      BY <1>3, <3>1 DEF SleeperIsQueued
    <3>3. i \in DOMAIN queue'[l] /\ queue'[l][i] = queue[l][i]
      BY <1>2, <2>1, <2>2, <3>2
    <3> QED
      BY <3>2, <3>3 DEF Asks
  <2> QED
    BY <2>4, <2>5
<1>6. ASSUME NEW k \in Keys, RunBlock(k)
      PROVE  SleeperIsQueued'
  <2> DEFINE x == queue[k][1]
  <2>1. queue[k] \in Seq(Submission) /\ queue[k] # <<>>
    BY <1>1, <1>6 DEF RunBlock
  <2>2. /\ queue' = [queue EXCEPT ![k] = RemoveAt(@, 1)]
        /\ due' = IF x.block \in Queries THEN [due EXCEPT ![x.by] = <<>>] ELSE due
    BY <1>6 DEF RunBlock, RunBlockAt
  <2>3. /\ Len(queue[k]) \in Nat /\ DOMAIN queue[k] = 1..Len(queue[k])
        /\ DOMAIN RemoveAt(queue[k], 1) = 1..(Len(queue[k]) - 1)
        /\ \A i \in 1..(Len(queue[k]) - 1) : RemoveAt(queue[k], 1)[i] = queue[k][i + 1]
    BY <2>1, HeadRemoved
  <2>4. queue'[k] = RemoveAt(queue[k], 1) /\ \A l \in Keys \ {k} : queue'[l] = queue[l]
    BY <1>1, <2>2
  <2> SUFFICES ASSUME NEW u \in Callers, due'[u] # <<>>
               PROVE  \E l \in Keys : \E i \in DOMAIN queue'[l] :
                        queue'[l][i].by = u /\ Asks(queue'[l], i)
    BY DEF SleeperIsQueued, Sleeps, Asks
  <2>5. Sleeps(u) /\ ~(x.block \in Queries /\ x.by = u)
    BY <1>1, <2>2 DEF Sleeps
  <2>6. PICK l \in Keys, i \in Nat : /\ i \in DOMAIN queue[l]
                                     /\ queue[l][i].by = u /\ Asks(queue[l], i)
    BY <1>3, <2>5 DEF SleeperIsQueued
  <2>7. CASE l = k
    <3>1. i # 1
      BY <2>5, <2>6, <2>7 DEF Asks
    <3>2. i - 1 \in 1..(Len(queue[k]) - 1) /\ (i - 1) + 1 = i
      BY <2>3, <2>6, <2>7, <3>1
    <3>3. i - 1 \in DOMAIN queue'[k] /\ queue'[k][i - 1] = queue[k][i]
      BY <2>3, <2>4, <3>2
    <3> QED
      BY <2>6, <2>7, <3>3 DEF Asks
  <2>8. CASE l # k
    BY <2>4, <2>6, <2>8 DEF Asks
  <2> QED
    BY <2>7, <2>8
<1>7. CASE UNCHANGED vars
  BY <1>7 DEF vars, SleeperIsQueued, Sleeps, Asks
<1> QED
  BY <1>4, <1>5, <1>6, <1>7 DEF Next

(* For any threads, keys and queue lengths: whoever sleeps in a call of    *)
(* the index has a block in one of the queues that will wake it.           *)
THEOREM SleepersAreQueued == Spec => []SleeperIsQueued
<1>1. Init => SleeperIsQueued
  BY DEF Init, SleeperIsQueued, Sleeps
<1> QED
  BY <1>1, SleeperStays, QueueInitially, QueueStep, PTL DEF Spec

----------------------------------------------------------------------------
(* The queues implement the index. *)

(* Submitted, as a function of one entry and its queue. *)
Outcome(e, q) == FoldLeft(After, e, [i \in DOMAIN q |-> q[i].block])

(* An entry has three fields. *)
Shaped(e) == e = [cached |-> e.cached, loading |-> e.loading, total |-> e.total]

RefineInv == QueueInv /\ \A k \in Keys : Shaped(Outcome(entry[k], queue[k]))

LEMMA OutcomeReached ==
  ASSUME NEW q \in Seq(Submission), NEW e
  PROVE  Outcome(e, q) = Reached(e, q, Len(q) + 1)
<1>1. DOMAIN q = 1..Len(q) /\ (Len(q) + 1) - 1 = Len(q)
  BY LenProperties
<1> QED
  BY <1>1 DEF Outcome, Reached, Made, Blocks

LEMMA FieldShaped ==
  ASSUME NEW e, Shaped(e), NEW c
  PROVE  Shaped([e EXCEPT !.cached = c]) /\ Shaped([e EXCEPT !.loading = c])
         /\ Shaped([e EXCEPT !.total = c])
<1>1. e = [cached |-> e.cached, loading |-> e.loading, total |-> e.total]
  BY DEF Shaped
<1> QED
  BY <1>1 DEF Shaped

(* Every block leaves an entry an entry. *)
LEMMA AfterShaped ==
  ASSUME NEW e, Shaped(e), NEW b PROVE Shaped(After(e, b))
<1>1. \A c : Shaped([e EXCEPT !.cached = c]) /\ Shaped([e EXCEPT !.loading = c])
             /\ Shaped([e EXCEPT !.total = c])
  BY FieldShaped
<1>2. Shaped([e EXCEPT !.cached = {}, !.total = Unknown])
  <2> DEFINE d == [e EXCEPT !.cached = {}]
  <2>1. [e EXCEPT !.cached = {}, !.total = Unknown] = [d EXCEPT !.total = Unknown]
    OBVIOUS
  <2>2. Shaped(d)
    BY <1>1
  <2> HIDE DEF d
  <2>3. Shaped([d EXCEPT !.total = Unknown])
    BY <2>2, FieldShaped
  <2> QED
    BY <2>1, <2>3
<1> QED
  BY <1>1, <1>2 DEF After

(* A submission acts on the outcome of its queue at once. *)
LEMMA OutcomeJoins ==
  ASSUME QueueType, NEW k \in Keys, NEW x \in Submission, entry' = entry,
         queue' = [queue EXCEPT ![k] = Append(@, x)]
  PROVE  \A l \in Keys :
           Outcome(entry'[l], queue'[l]) =
             IF l = k THEN After(Outcome(entry[k], queue[k]), x.block)
             ELSE Outcome(entry[l], queue[l])
<1>1. queue \in [Keys -> Seq(Submission)] /\ queue[k] \in Seq(Submission)
  BY DEF QueueType
<1>2. queue'[k] = Append(queue[k], x) /\ \A l \in Keys \ {k} : queue'[l] = queue[l]
  BY <1>1
<1>3. Joined(entry[k], queue[k], x, queue'[k])
  BY <1>1, <1>2, Joins
<1>4. /\ queue'[k] \in Seq(Submission)
      /\ Len(queue'[k]) + 1 = Len(queue[k]) + 2
      /\ Reached(entry[k], queue'[k], Len(queue[k]) + 2)
           = After(Reached(entry[k], queue[k], Len(queue[k]) + 1), x.block)
  BY <1>3 DEF Joined
<1>5. Outcome(entry'[k], queue'[k]) = After(Outcome(entry[k], queue[k]), x.block)
  BY <1>1, <1>4, OutcomeReached
<1> QED
  BY <1>2, <1>5

(* Running a block does not change what its queue comes to. *)
LEMMA OutcomeLeaves ==
  ASSUME QueueType, NEW k \in Keys, RunBlock(k)
  PROVE  \A l \in Keys : Outcome(entry'[l], queue'[l]) = Outcome(entry[l], queue[l])
<1>1. /\ queue \in [Keys -> Seq(Submission)] /\ queue[k] \in Seq(Submission)
      /\ queue[k] # <<>> /\ entry = [l \in Keys |-> entry[l]]
      /\ queue' = [queue EXCEPT ![k] = RemoveAt(@, 1)]
      /\ entry' = [entry EXCEPT ![k] = After(@, queue[k][1].block)]
  BY DEF QueueType, RunBlock, RunBlockAt
<1>2. /\ queue'[k] = RemoveAt(queue[k], 1)
      /\ entry'[k] = After(entry[k], queue[k][1].block)
      /\ \A l \in Keys \ {k} : queue'[l] = queue[l] /\ entry'[l] = entry[l]
  BY <1>1
<1>3. /\ RemoveAt(queue[k], 1) \in Seq(Submission)
      /\ Len(queue[k]) \in Nat /\ Len(queue[k]) > 0
      /\ DOMAIN RemoveAt(queue[k], 1) = 1..(Len(queue[k]) - 1)
  BY <1>1, HeadRemoved
<1>4. Len(queue'[k]) + 1 = Len(queue[k]) /\ Len(queue[k]) \in 1..Len(queue[k])
  <2>1. Len(queue'[k]) \in Nat /\ DOMAIN queue'[k] = 1..Len(queue'[k])
    BY <1>2, <1>3, LenProperties
  <2> QED
    BY <1>2, <1>3, <2>1
<1>5. Reached(entry'[k], queue'[k], Len(queue[k]))
        = Reached(entry[k], queue[k], Len(queue[k]) + 1)
  <2>1. \A i \in 1..Len(queue[k]) :
          Reached(After(entry[k], queue[k][1].block), RemoveAt(queue[k], 1), i)
            = Reached(entry[k], queue[k], i + 1)
    BY <1>1, Leaves
  <2> QED
    BY <1>2, <1>4, <2>1
<1>6. Outcome(entry'[k], queue'[k]) = Outcome(entry[k], queue[k])
  <2>1. queue'[k] \in Seq(Submission)
    BY <1>2, <1>3
  <2> QED
    BY <1>1, <1>4, <1>5, <2>1, OutcomeReached
<1> QED
  BY <1>2, <1>6

(* What each operation leaves in the three fields. *)
Fields(e, c, l, t) == e.cached = c /\ e.loading = l /\ e.total = t

LEMMA AfterFields ==
  ASSUME NEW e, Shaped(e), NEW b
  PROVE  /\ b.op = "addRange" =>
              Fields(After(e, b), Merged(e.cached, RangeOfBlock(b)), e.loading, e.total)
         /\ b.op = "removeRange" =>
              Fields(After(e, b), Without(e.cached, RangeOfBlock(b)), e.loading, e.total)
         /\ b.op = "unmarkRangeLoading" =>
              Fields(After(e, b), e.cached, e.loading \ {RangeOfBlock(b)}, e.total)
         /\ b.op = "setTotalLength" =>
              Fields(After(e, b), e.cached, e.loading, b.length)
         /\ b.op = "clear" => Fields(After(e, b), {}, e.loading, Unknown)
         /\ b.op = "markRangeLoading" /\ ~Loading(e, RangeOfBlock(b)) =>
              Fields(After(e, b), e.cached, e.loading \cup {RangeOfBlock(b)}, e.total)
         /\ b.op = "markRangeLoading" /\ Loading(e, RangeOfBlock(b)) =>
              Fields(After(e, b), e.cached, e.loading, e.total)
         /\ b.op \in {"isRangeLoading", "isRangeCached", "isCompleted",
                      "nextMissingOffset", "cachedTotalLength"} =>
              Fields(After(e, b), e.cached, e.loading, e.total)
<1>1. e = [cached |-> e.cached, loading |-> e.loading, total |-> e.total]
  BY DEF Shaped
<1>2. \A c : /\ Fields([e EXCEPT !.cached = c], c, e.loading, e.total)
             /\ Fields([e EXCEPT !.loading = c], e.cached, c, e.total)
             /\ Fields([e EXCEPT !.total = c], e.cached, e.loading, c)
  BY <1>1 DEF Fields
<1>3. Fields([e EXCEPT !.cached = {}, !.total = Unknown], {}, e.loading, Unknown)
  BY <1>1 DEF Fields
<1>4. ASSUME b.op = "addRange"
      PROVE  Fields(After(e, b), Merged(e.cached, RangeOfBlock(b)), e.loading, e.total)
  BY <1>2, <1>4 DEF After
<1>5. ASSUME b.op = "removeRange"
      PROVE  Fields(After(e, b), Without(e.cached, RangeOfBlock(b)), e.loading, e.total)
  BY <1>2, <1>5 DEF After
<1>6. ASSUME b.op = "unmarkRangeLoading"
      PROVE  Fields(After(e, b), e.cached, e.loading \ {RangeOfBlock(b)}, e.total)
  BY <1>2, <1>6 DEF After
<1>7. ASSUME b.op = "setTotalLength"
      PROVE  Fields(After(e, b), e.cached, e.loading, b.length)
  BY <1>2, <1>7 DEF After
<1>8. ASSUME b.op = "clear" PROVE Fields(After(e, b), {}, e.loading, Unknown)
  BY <1>3, <1>8 DEF After
<1>9. ASSUME b.op = "markRangeLoading", ~Loading(e, RangeOfBlock(b))
      PROVE  Fields(After(e, b), e.cached, e.loading \cup {RangeOfBlock(b)}, e.total)
  BY <1>2, <1>9 DEF After
<1>10. ASSUME \/ b.op = "markRangeLoading" /\ Loading(e, RangeOfBlock(b))
              \/ b.op \in {"isRangeLoading", "isRangeCached", "isCompleted",
                           "nextMissingOffset", "cachedTotalLength"}
       PROVE  Fields(After(e, b), e.cached, e.loading, e.total)
  BY <1>10 DEF After, Fields
<1> QED
  BY <1>4, <1>5, <1>6, <1>7, <1>8, <1>9, <1>10

(* The index as the callers see it. *)
mapSeen == [k \in Keys |-> Submitted(k).cached]
loadingSeen == [k \in Keys |-> Submitted(k).loading]
totalSeen == [k \in Keys |-> Submitted(k).total]

LEMMA SeenNow ==
  /\ mapSeen = [k \in Keys |-> Outcome(entry[k], queue[k]).cached]
  /\ loadingSeen = [k \in Keys |-> Outcome(entry[k], queue[k]).loading]
  /\ totalSeen = [k \in Keys |-> Outcome(entry[k], queue[k]).total]
  BY DEF mapSeen, loadingSeen, totalSeen, Submitted, Outcome

LEMMA SeenNext ==
  /\ mapSeen' = [k \in Keys |-> Outcome(entry'[k], queue'[k]).cached]
  /\ loadingSeen' = [k \in Keys |-> Outcome(entry'[k], queue'[k]).loading]
  /\ totalSeen' = [k \in Keys |-> Outcome(entry'[k], queue'[k]).total]
  BY DEF mapSeen, loadingSeen, totalSeen, Submitted, Outcome

(* The operators of the instance are those of this module. *)
LEMMA SameOperators ==
  /\ Index!Call = Call
  /\ \A s, n : Index!RangeOf(s, n) = RangeOf(s, n)
  /\ \A a, b : Index!Overlaps(a, b) <=> Overlaps(a, b)
  /\ \A R, r : Index!Merged(R, r) = Merged(R, r)
  /\ \A R, r : Index!Without(R, r) = Without(R, r)
<1>1. Index!Call = Call
  BY DEF Index!Call, Call, Index!Offset, Offset
<1>2. \A s, n : Index!RangeOf(s, n) = RangeOf(s, n)
  BY DEF Index!RangeOf, RangeOf
<1>3. \A a, b : (Index!Overlaps(a, b) <=> Overlaps(a, b))
                /\ (Index!Touches(a, b) <=> Touches(a, b))
  BY DEF Index!Overlaps, Overlaps, Index!Touches, Touches
<1>4. \A S : Index!Min(S) = Min(S) /\ Index!Max(S) = Max(S)
  BY DEF Index!Min, Min, Index!Max, Max
<1>5. \A R, r : Index!Merged(R, r) = Merged(R, r)
  BY <1>3, <1>4 DEF Index!Merged, Merged
<1>6. \A R, r : Index!Without(R, r) = Without(R, r)
  BY <1>3 DEF Index!Without, Without
<1> QED
  BY <1>1, <1>2, <1>3, <1>5, <1>6

(* A block that is submitted is one operation of the index, or a query     *)
(* that changes nothing.                                                   *)
LEMMA SubmissionIsOperation ==
  ASSUME QueueType, NEW k \in Keys, NEW x \in Submission, entry' = entry,
         queue' = [queue EXCEPT ![k] = Append(@, x)],
         Shaped(Outcome(entry[k], queue[k]))
  PROVE  Index!Next \/ UNCHANGED Index!vars
<1> DEFINE e == Outcome(entry[k], queue[k])
           b == x.block
           f == After(e, b)
           start == b.call.start
           length == b.call.length
<1>1. mapSeen[k] = e.cached /\ loadingSeen[k] = e.loading /\ totalSeen[k] = e.total
  BY SeenNow
<1>2. ASSUME NEW c, NEW l, NEW t, Fields(f, c, l, t)
      PROVE  /\ mapSeen' = [mapSeen EXCEPT ![k] = c]
             /\ loadingSeen' = [loadingSeen EXCEPT ![k] = l]
             /\ totalSeen' = [totalSeen EXCEPT ![k] = t]
  <2>1. \A m \in Keys : Outcome(entry'[m], queue'[m]) =
                          IF m = k THEN f ELSE Outcome(entry[m], queue[m])
    BY OutcomeJoins
  <2> HIDE DEF f
  <2>2. f.cached = c /\ f.loading = l /\ f.total = t
    BY <1>2 DEF Fields
  <2>3. mapSeen' = [mapSeen EXCEPT ![k] = c]
    BY <2>1, <2>2, SeenNow, SeenNext
  <2>4. loadingSeen' = [loadingSeen EXCEPT ![k] = l]
    BY <2>1, <2>2, SeenNow, SeenNext
  <2>5. totalSeen' = [totalSeen EXCEPT ![k] = t]
    BY <2>1, <2>2, SeenNow, SeenNext
  <2> QED
    BY <2>3, <2>4, <2>5
<1>3. /\ [mapSeen EXCEPT ![k] = e.cached] = mapSeen
      /\ [loadingSeen EXCEPT ![k] = e.loading] = loadingSeen
      /\ [totalSeen EXCEPT ![k] = e.total] = totalSeen
  <2>1. /\ mapSeen = [m \in Keys |-> mapSeen[m]]
        /\ loadingSeen = [m \in Keys |-> loadingSeen[m]]
        /\ totalSeen = [m \in Keys |-> totalSeen[m]]
    BY DEF mapSeen, loadingSeen, totalSeen
  <2> HIDE DEF e
  <2> QED
    BY <1>1, <2>1
<1>4. b \in Updates \cup Queries /\ Submittable(b)
  BY DEF Submission, Block
<1> HIDE DEF e, b, f
<1>5. Shaped(e)
  BY DEF e
<1>6. ASSUME b.op \in {"addRange", "removeRange", "unmarkRangeLoading", "markRangeLoading"}
      PROVE  b.call \in Call /\ length > 0 /\ RangeOfBlock(b) = RangeOf(start, length)
  BY <1>4, <1>6 DEF Updates, Queries, Submittable, RangeOfBlock
<1> HIDE DEF start, length
<1>7. CASE b.op = "addRange"
  <2>1. Fields(f, Merged(e.cached, RangeOf(start, length)), e.loading, e.total)
    BY <1>5, <1>6, <1>7, AfterFields DEF f
  <2>2. /\ mapSeen' = [mapSeen EXCEPT ![k] = Merged(@, RangeOf(start, length))]
        /\ loadingSeen' = loadingSeen /\ totalSeen' = totalSeen
    BY <1>1, <1>2, <1>3, <2>1
  <2>3. Index!AddRangeForKey(k, start, length)
    BY <1>6, <1>7, <2>2, SameOperators
       DEF Index!AddRangeForKey, mapSeen, loadingSeen, totalSeen
  <2> QED
    BY <1>6, <1>7, <2>3, SameOperators DEF Index!Next, start, length
<1>8. CASE b.op = "removeRange"
  <2>1. Fields(f, Without(e.cached, RangeOf(start, length)), e.loading, e.total)
    BY <1>5, <1>6, <1>8, AfterFields DEF f
  <2>2. /\ mapSeen' = [mapSeen EXCEPT ![k] = Without(@, RangeOf(start, length))]
        /\ loadingSeen' = loadingSeen /\ totalSeen' = totalSeen
    BY <1>1, <1>2, <1>3, <2>1
  <2>3. Index!RemoveRangeForKey(k, start, length)
    BY <1>6, <1>8, <2>2, SameOperators
       DEF Index!RemoveRangeForKey, mapSeen, loadingSeen, totalSeen
  <2> QED
    BY <1>6, <1>8, <2>3, SameOperators DEF Index!Next, start, length
<1>9. CASE b.op = "unmarkRangeLoading"
  <2>1. Fields(f, e.cached, e.loading \ {RangeOf(start, length)}, e.total)
    BY <1>5, <1>6, <1>9, AfterFields DEF f
  <2>2. /\ loadingSeen' = [loadingSeen EXCEPT ![k] = @ \ {RangeOf(start, length)}]
        /\ mapSeen' = mapSeen /\ totalSeen' = totalSeen
    BY <1>1, <1>2, <1>3, <2>1
  <2>3. Index!UnmarkRangeLoadingForKey(k, start, length)
    BY <1>6, <1>9, <2>2, SameOperators
       DEF Index!UnmarkRangeLoadingForKey, mapSeen, loadingSeen, totalSeen
  <2> QED
    BY <1>6, <1>9, <2>3, SameOperators DEF Index!Next, start, length
<1>10. CASE b.op = "markRangeLoading" /\ ~Loading(e, RangeOfBlock(b))
  <2>1. Fields(f, e.cached, e.loading \cup {RangeOf(start, length)}, e.total)
    BY <1>5, <1>6, <1>10, AfterFields DEF f
  <2>2. /\ loadingSeen' = [loadingSeen EXCEPT ![k] = @ \cup {RangeOf(start, length)}]
        /\ mapSeen' = mapSeen /\ totalSeen' = totalSeen
    BY <1>1, <1>2, <1>3, <2>1
  <2>3. ~Index!IsRangeLoadingForKey(k, start, length)
    <3>1. ~ \E r \in loadingSeen[k] : Overlaps(RangeOf(start, length), r)
      BY <1>1, <1>6, <1>10 DEF Loading
    <3> QED
      BY <3>1, SameOperators DEF Index!IsRangeLoadingForKey, loadingSeen
  <2>4. Index!MarkRangeLoadingForKey(k, start, length)
    BY <1>6, <1>10, <2>2, <2>3, SameOperators
       DEF Index!MarkRangeLoadingForKey, mapSeen, loadingSeen, totalSeen
  <2> QED
    BY <1>6, <1>10, <2>4, SameOperators DEF Index!Next, start, length
<1>11. CASE b.op = "setTotalLength"
  <2>1. b.length \in 0 .. LastByte + 1
    BY <1>4, <1>11, TotalsAssumption DEF Updates, Queries
  <2>2. Fields(f, e.cached, e.loading, b.length)
    BY <1>5, <1>11, AfterFields DEF f
  <2>3. /\ totalSeen' = [totalSeen EXCEPT ![k] = b.length]
        /\ mapSeen' = mapSeen /\ loadingSeen' = loadingSeen
    BY <1>1, <1>2, <1>3, <2>2
  <2>4. Index!SetTotalLength(k, b.length)
    BY <2>3 DEF Index!SetTotalLength, mapSeen, loadingSeen, totalSeen
  <2> QED
    BY <2>1, <2>4 DEF Index!Next
<1>12. CASE b.op = "clear"
  <2>1. Fields(f, {}, e.loading, Unknown)
    BY <1>5, <1>12, AfterFields DEF f
  <2>2. /\ mapSeen' = [mapSeen EXCEPT ![k] = {}]
        /\ totalSeen' = [totalSeen EXCEPT ![k] = Unknown]
        /\ loadingSeen' = loadingSeen
    BY <1>1, <1>2, <1>3, <2>1
  <2>3. Index!ClearForKey(k)
    BY <2>2 DEF Index!ClearForKey, mapSeen, loadingSeen, totalSeen
  <2> QED
    BY <2>3 DEF Index!Next
<1>13. CASE \/ b.op = "markRangeLoading" /\ Loading(e, RangeOfBlock(b))
            \/ b.op \in {"isRangeLoading", "isRangeCached", "isCompleted",
                         "nextMissingOffset", "cachedTotalLength"}
  <2>1. Fields(f, e.cached, e.loading, e.total)
    BY <1>5, <1>13, AfterFields DEF f
  <2>2. mapSeen' = mapSeen /\ loadingSeen' = loadingSeen /\ totalSeen' = totalSeen
    BY <1>2, <1>3, <2>1
  <2> QED
    BY <2>2 DEF Index!vars, mapSeen, loadingSeen, totalSeen
<1>14. b.op \in {"addRange", "removeRange", "unmarkRangeLoading", "setTotalLength",
                 "clear", "markRangeLoading", "isRangeLoading", "isRangeCached",
                 "isCompleted", "nextMissingOffset", "cachedTotalLength"}
  BY <1>4 DEF Updates, Queries
<1> QED
  BY <1>7, <1>8, <1>9, <1>10, <1>11, <1>12, <1>13, <1>14

(* Submitting acts on the index as seen, running a block does not show.    *)
LEMMA StepSeen ==
  RefineInv /\ [Next]_vars => [Index!Next]_(Index!vars)
<1> SUFFICES ASSUME RefineInv, [Next]_vars PROVE Index!Next \/ UNCHANGED Index!vars
  OBVIOUS
<1>1. QueueType
  BY DEF RefineInv, QueueInv
<1>2. ASSUME NEW t \in Callers, NEW k \in Keys, NEW b \in Updates \cup Queries,
             Submittable(b), entry' = entry,
             queue' = [queue EXCEPT ![k] = Append(@, [by |-> t, block |-> b])]
      PROVE  Index!Next \/ UNCHANGED Index!vars
  <2>1. [by |-> t, block |-> b] \in Submission
    BY <1>2 DEF Submission, Block
  <2> QED
    BY <1>1, <1>2, <2>1, SubmissionIsOperation DEF RefineInv
<1>3. ASSUME NEW k \in Keys, RunBlock(k) PROVE UNCHANGED Index!vars
  <2>1. \A l \in Keys : Outcome(entry'[l], queue'[l]) = Outcome(entry[l], queue[l])
    BY <1>1, <1>3, OutcomeLeaves
  <2>2. mapSeen' = mapSeen /\ loadingSeen' = loadingSeen /\ totalSeen' = totalSeen
    BY <2>1, SeenNow, SeenNext
  <2> QED
    BY <2>2 DEF Index!vars, mapSeen, loadingSeen, totalSeen
<1>4. CASE UNCHANGED vars
  <2>1. entry' = entry /\ queue' = queue
    BY <1>4 DEF vars
  <2>2. mapSeen' = mapSeen /\ loadingSeen' = loadingSeen /\ totalSeen' = totalSeen
    BY <2>1, SeenNow, SeenNext
  <2> QED
    BY <2>2 DEF Index!vars, mapSeen, loadingSeen, totalSeen
<1> QED
  BY <1>2, <1>3, <1>4 DEF Next, Async, Sync

LEMMA RefineStep == RefineInv /\ [Next]_vars => RefineInv'
<1> SUFFICES ASSUME RefineInv, [Next]_vars PROVE RefineInv'
  OBVIOUS
<1>1. QueueInv' /\ QueueType
  BY QueueStep DEF RefineInv, QueueInv
<1> SUFFICES ASSUME NEW l \in Keys PROVE Shaped(Outcome(entry'[l], queue'[l]))
  BY <1>1 DEF RefineInv
<1>2. ASSUME NEW t \in Callers, NEW k \in Keys, NEW b \in Updates \cup Queries,
             Submittable(b), entry' = entry,
             queue' = [queue EXCEPT ![k] = Append(@, [by |-> t, block |-> b])]
      PROVE  Shaped(Outcome(entry'[l], queue'[l]))
  <2>1. [by |-> t, block |-> b] \in Submission
    BY <1>2 DEF Submission, Block
  <2>2. \E x : Outcome(entry'[l], queue'[l]) =
               IF l = k THEN After(Outcome(entry[k], queue[k]), x)
               ELSE Outcome(entry[l], queue[l])
    BY <1>1, <1>2, <2>1, OutcomeJoins
  <2> QED
    BY <2>2, AfterShaped DEF RefineInv
<1>3. ASSUME NEW k \in Keys, RunBlock(k) PROVE Shaped(Outcome(entry'[l], queue'[l]))
  BY <1>1, <1>3, OutcomeLeaves DEF RefineInv
<1>4. CASE UNCHANGED vars
  BY <1>4 DEF vars, RefineInv
<1> QED
  BY <1>2, <1>3, <1>4 DEF Next, Async, Sync

LEMMA InitSeen == Init => RefineInv /\ Index!Init
<1> SUFFICES ASSUME Init PROVE RefineInv /\ Index!Init
  OBVIOUS
<1>1. \A k \in Keys : Outcome(entry[k], queue[k]) = NoEntry
  <2> SUFFICES ASSUME NEW k \in Keys PROVE Outcome(entry[k], queue[k]) = NoEntry
    OBVIOUS
  <2>1. queue[k] = <<>> /\ entry[k] = NoEntry
    BY DEF Init
  <2> DEFINE s == [i \in DOMAIN queue[k] |-> queue[k][i].block]
  <2>2. DOMAIN s = {}
    BY <2>1
  <2>3. Made(entry[k], s) = entry[k]
    BY <2>2, FoldNothing
  <2> QED
    BY <2>1, <2>3 DEF Outcome, Made
<1>2. Shaped(NoEntry)
  BY DEF Shaped, NoEntry
<1>3. /\ mapSeen = [k \in Keys |-> {}] /\ loadingSeen = [k \in Keys |-> {}]
      /\ totalSeen = [k \in Keys |-> Unknown]
  BY <1>1, SeenNow DEF NoEntry
<1>4. Index!Init
  BY <1>3 DEF Index!Init, mapSeen, loadingSeen, totalSeen
<1> QED
  BY <1>1, <1>2, <1>4, QueueInitially DEF RefineInv

(* Every behaviour of the queues, seen through what the blocks submitted   *)
(* so far will have made of each entry, is a behaviour of LZCacheIndex, in *)
(* which the operations are atomic: what is proved of the index holds for  *)
(* the callers of the queues.                                              *)
THEOREM QueuesImplementIndex == Spec => IndexSpec
<1> QED
  BY InitSeen, RefineStep, StepSeen, PTL DEF Spec, IndexSpec, Index!Spec

(* What is proved of the atomic index, of the entries seen when submitting. *)
Facts == INSTANCE LZCacheIndex_proofs
           WITH map <- [k \in Keys |-> Submitted(k).cached],
                loadingMap <- [k \in Keys |-> Submitted(k).loading],
                totalMap <- [k \in Keys |-> Submitted(k).total]

(* Its operators, too, are those of this module,                           *)
LEMMA FactsOperators ==
  /\ Facts!Call = Call
  /\ \A s, n : Facts!RangeOf(s, n) = RangeOf(s, n)
  /\ \A a, b : Facts!Overlaps(a, b) <=> Overlaps(a, b)
  /\ \A R, r : Facts!Merged(R, r) = Merged(R, r)
  /\ \A R, r : Facts!Without(R, r) = Without(R, r)
<1>1. Facts!Call = Call
  BY DEF Facts!Call, Call, Facts!Offset, Offset
<1>2. \A s, n : Facts!RangeOf(s, n) = RangeOf(s, n)
  BY DEF Facts!RangeOf, RangeOf
<1>3. \A a, b : (Facts!Overlaps(a, b) <=> Overlaps(a, b))
                /\ (Facts!Touches(a, b) <=> Touches(a, b))
  BY DEF Facts!Overlaps, Overlaps, Facts!Touches, Touches
<1>4. \A S : Facts!Min(S) = Min(S) /\ Facts!Max(S) = Max(S)
  BY DEF Facts!Min, Min, Facts!Max, Max
<1>5. \A R, r : Facts!Merged(R, r) = Merged(R, r)
  BY <1>3, <1>4 DEF Facts!Merged, Merged
<1>6. \A R, r : Facts!Without(R, r) = Without(R, r)
  BY <1>3 DEF Facts!Without, Without
<1> QED
  BY <1>1, <1>2, <1>3, <1>5, <1>6

(* hence its steps are those of the instance Index.                        *)
LEMMA FactsSteps ==
  /\ Index!Init => Facts!Init
  /\ [Index!Next]_(Index!vars) => [Facts!Next]_(Facts!vars)
<1>1. Index!Init => Facts!Init
  BY DEF Index!Init, Facts!Init
<1>2. \A k, s, n : Index!IsRangeLoadingForKey(k, s, n) <=> Facts!IsRangeLoadingForKey(k, s, n)
  BY SameOperators, FactsOperators DEF Index!IsRangeLoadingForKey, Facts!IsRangeLoadingForKey
<1>3. ASSUME NEW k \in Keys, NEW c \in Call,
             Index!MarkRangeLoadingForKey(k, c.start, c.length)
      PROVE  Facts!MarkRangeLoadingForKey(k, c.start, c.length)
  BY <1>2, <1>3, SameOperators, FactsOperators
     DEF Index!MarkRangeLoadingForKey, Facts!MarkRangeLoadingForKey
<1>4. ASSUME NEW k \in Keys, NEW c \in Call,
             Index!UnmarkRangeLoadingForKey(k, c.start, c.length)
      PROVE  Facts!UnmarkRangeLoadingForKey(k, c.start, c.length)
  BY <1>4, SameOperators, FactsOperators
     DEF Index!UnmarkRangeLoadingForKey, Facts!UnmarkRangeLoadingForKey
<1>5. ASSUME NEW k \in Keys, NEW c \in Call,
             Index!AddRangeForKey(k, c.start, c.length)
      PROVE  Facts!AddRangeForKey(k, c.start, c.length)
  BY <1>5, SameOperators, FactsOperators DEF Index!AddRangeForKey, Facts!AddRangeForKey
<1>6. ASSUME NEW k \in Keys, NEW c \in Call,
             Index!RemoveRangeForKey(k, c.start, c.length)
      PROVE  Facts!RemoveRangeForKey(k, c.start, c.length)
  BY <1>6, SameOperators, FactsOperators DEF Index!RemoveRangeForKey, Facts!RemoveRangeForKey
<1>7. ASSUME NEW k \in Keys, NEW n, Index!SetTotalLength(k, n)
      PROVE  Facts!SetTotalLength(k, n)
  BY <1>7 DEF Index!SetTotalLength, Facts!SetTotalLength
<1>8. ASSUME NEW k \in Keys, Index!ClearForKey(k) PROVE Facts!ClearForKey(k)
  BY <1>8 DEF Index!ClearForKey, Facts!ClearForKey
<1>9. ASSUME Index!Next PROVE Facts!Next
  BY <1>3, <1>4, <1>5, <1>6, <1>7, <1>8, <1>9, SameOperators, FactsOperators
     DEF Index!Next, Facts!Next
<1>10. Index!vars = Facts!vars
  BY DEF Index!vars, Facts!vars
<1>11. UNCHANGED Index!vars => UNCHANGED Facts!vars
  BY DEF Index!vars, Facts!vars
<1> QED
  BY <1>1, <1>9, <1>11

(* Callers and serial queues keep the promises of the index to the byte:   *)
(* seen at the moments of submission, whatever the threads submit, they    *)
(* implement the byte-level specification.                                 *)
THEOREM QueuesImplementBytes == Spec => Facts!CachedBytesSpec
<1>1. Facts!Spec => Facts!CachedBytesSpec
  BY Facts!IndexRefinesBytes, LastByteAssumption, UnknownAssumption
<1>2. Spec => Index!Spec
  BY QueuesImplementIndex DEF IndexSpec
<1>3. Index!Spec => Facts!Spec
  BY FactsSteps, PTL DEF Index!Spec, Facts!Spec
<1> QED
  BY <1>1, <1>2, <1>3

----------------------------------------------------------------------------
(* The loops over the array of ranges.                                     *)

(* What holds of 0, and of i when it holds of i - 1, holds up to n.        *)
LEMMA Upwards ==
  ASSUME NEW n \in Nat, NEW G, 0 \in G, \A i \in 1..n : i - 1 \in G => i \in G
  PROVE  0..n \subseteq G
<1> DEFINE Missed == (0..n) \ G
<1> SUFFICES ASSUME Missed # {} PROVE FALSE
  OBVIOUS
<1>1. Missed \subseteq Nat
  OBVIOUS
<1> HIDE DEF Missed
<1>2. Min(Missed) \in Missed /\ \A y \in Missed : Min(Missed) <= y
  BY <1>1, MinProperties
<1>3. PICK i \in Missed : \A y \in Missed : i <= y
  BY <1>2
<1>4. i \in 0..n /\ i \notin G /\ i # 0
  BY DEF Missed
<1>5. i \in 1..n /\ i - 1 \in 0..n /\ ~(i <= i - 1)
  BY <1>4
<1> QED
  BY <1>3, <1>4, <1>5 DEF Missed

(* p puts the m ranges of s in the order of their starts. *)
Orders(p, s, m) ==
  /\ p \in [1..m -> 1..m]
  /\ \A i, j \in 1..m : p[i] = p[j] => i = j
  /\ \A k \in 1..m : \E i \in 1..m : p[i] = k
  /\ \A i, j \in 1..m : i < j => s[p[i]].start <= s[p[j]].start

(* u is a range of z that begins first, skip numbers the others, and w     *)
(* lists these.                                                            *)
First(u, z, m) == \A i \in 1..m : z[u].start <= z[i].start
Skips(skip, u, m) ==
  /\ \A i \in 1..(m - 1) : skip[i] \in (1..m) \ {u}
  /\ \A i, j \in 1..(m - 1) : skip[i] = skip[j] => i = j
  /\ \A t \in (1..m) \ {u} : \E i \in 1..(m - 1) : skip[i] = t
Lists(w, skip, z, m) == \A i \in 1..(m - 1) : w[i] = z[skip[i]]

(* A range that begins before all others, and the others in their order q. *)
LEMMA OrderOfOneMore ==
  ASSUME NEW m \in Nat \ {0}, NEW z, NEW u \in 1..m, NEW skip, NEW w, NEW q,
         First(u, z, m), Skips(skip, u, m), Lists(w, skip, z, m), Orders(q, w, m - 1)
  PROVE  \E p : Orders(p, z, m)
<1> USE DEF First, Skips, Lists
<1> DEFINE p == [i \in 1..m |-> IF i = 1 THEN u ELSE skip[q[i - 1]]]
<1>1. /\ \A i \in 1..(m - 1) : q[i] \in 1..(m - 1)
      /\ \A i, j \in 1..(m - 1) : q[i] = q[j] => i = j
      /\ \A t \in 1..(m - 1) : \E i \in 1..(m - 1) : q[i] = t
      /\ \A i, j \in 1..(m - 1) : i < j => w[q[i]].start <= w[q[j]].start
  BY DEF Orders
<1>2. p[1] = u
  OBVIOUS
<1>3. ASSUME NEW i \in 2..m
      PROVE  /\ i \in 1..m /\ i - 1 \in 1..(m - 1)
             /\ q[i - 1] \in 1..(m - 1)
             /\ p[i] = skip[q[i - 1]] /\ p[i] \in (1..m) \ {u}
  <2>1. i \in 1..m /\ i - 1 \in 1..(m - 1) /\ i # 1
    OBVIOUS
  <2>2. q[i - 1] \in 1..(m - 1)
    BY <1>1, <2>1
  <2>3. p[i] = skip[q[i - 1]]
    BY <2>1
  <2> QED
    BY <2>1, <2>2, <2>3
<1>4. \A i \in 1..m : i = 1 \/ i \in 2..m
  OBVIOUS
<1>5. p \in [1..m -> 1..m]
  <2>1. \A i \in 1..m : p[i] \in 1..m
    BY <1>2, <1>3, <1>4
  <2>2. p = [i \in 1..m |-> p[i]]
    OBVIOUS
  <2> HIDE DEF p
  <2> QED
    BY <2>1, <2>2
<1> HIDE DEF p
<1>6. ASSUME NEW i \in 1..m, NEW j \in 1..m, p[i] = p[j] PROVE i = j
  <2>1. CASE i \in 2..m /\ j \in 2..m
    <3>1. skip[q[i - 1]] = skip[q[j - 1]] /\ q[i - 1] \in 1..(m - 1) /\ q[j - 1] \in 1..(m - 1)
      BY <1>3, <1>6, <2>1
    <3>2. q[i - 1] = q[j - 1]
      BY <3>1
    <3>3. i - 1 = j - 1
      BY <1>1, <1>3, <2>1, <3>2
    <3> QED
      BY <2>1, <3>3
  <2>2. CASE i = 1 /\ j \in 2..m
    BY <1>2, <1>3, <1>6, <2>2
  <2>3. CASE i \in 2..m /\ j = 1
    BY <1>2, <1>3, <1>6, <2>3
  <2> QED
    BY <1>4, <2>1, <2>2, <2>3
<1>7. ASSUME NEW t \in 1..m PROVE \E i \in 1..m : p[i] = t
  <2>1. CASE t = u
    BY <1>2, <2>1
  <2>2. CASE t # u
    <3>1. PICK v \in 1..(m - 1) : skip[v] = t
      BY <2>2
    <3>2. PICK i \in 1..(m - 1) : q[i] = v
      BY <1>1
    <3>3. i + 1 \in 2..m /\ (i + 1) - 1 = i
      OBVIOUS
    <3>4. p[i + 1] = t /\ i + 1 \in 1..m
      BY <1>3, <3>1, <3>2, <3>3
    <3> QED
      BY <3>4
  <2> QED
    BY <2>1, <2>2
<1>8. ASSUME NEW i \in 1..m, NEW j \in 1..m, i < j PROVE z[p[i]].start <= z[p[j]].start
  <2>1. CASE i = 1
    <3>1. p[j] \in 1..m
      BY <1>5
    <3> QED
      BY <1>2, <2>1, <3>1
  <2>2. CASE i \in 2..m
    <3>1. j \in 2..m /\ i - 1 < j - 1
      BY <1>8, <2>2
    <3>2. w[q[i - 1]].start <= w[q[j - 1]].start
      BY <1>1, <1>3, <2>2, <3>1
    <3>3. w[q[i - 1]] = z[p[i]] /\ w[q[j - 1]] = z[p[j]]
      BY <1>3, <2>2, <3>1
    <3> QED
      BY <3>2, <3>3
  <2> QED
    BY <1>4, <2>1, <2>2
<1> QED
  BY <1>5, <1>6, <1>7, <1>8 DEF Orders

(* Every array can be put in order: take a range that begins first, and    *)
(* the others in their order behind it.                                    *)
Begins(z, m) == \A i \in 1..m : z[i].start \in Nat
Unordered(m) == \E z : Begins(z, m) /\ ~ \E p : Orders(p, z, m)

LEMMA OrderExists ==
  ASSUME NEW n \in Nat PROVE ~Unordered(n)
<1> DEFINE Bad == {m \in Nat : Unordered(m)}
<1> SUFFICES ASSUME Bad # {} PROVE FALSE
  OBVIOUS
<1>1. Bad \subseteq Nat
  OBVIOUS
<1>2. \A m \in Nat : m \in Bad <=> Unordered(m)
  OBVIOUS
<1> HIDE DEF Bad
<1>3. Min(Bad) \in Bad /\ \A y \in Bad : Min(Bad) <= y
  BY <1>1, MinProperties
<1>4. PICK m \in Bad : \A y \in Bad : m <= y
  BY <1>3
<1>5. m \in Nat
  BY <1>1
<1>6. PICK z : Begins(z, m) /\ ~ \E p : Orders(p, z, m)
  BY <1>2, <1>5 DEF Unordered
<1>7. m # 0
  <2> SUFFICES ASSUME m = 0 PROVE FALSE
    OBVIOUS
  <2> DEFINE p == [i \in 1..0 |-> i]
  <2>1. Orders(p, z, 0)
    BY DEF Orders
  <2> QED
    BY <1>6, <2>1
<1>8. m - 1 \in Nat /\ ~(m <= m - 1)
  BY <1>5, <1>7
<1>9. ~Unordered(m - 1)
  BY <1>2, <1>4, <1>8
<1>10. PICK u \in 1..m : \A i \in 1..m : z[u].start <= z[i].start
  <2> DEFINE starts == {z[i].start : i \in 1..m}
  <2>1. starts \subseteq Nat
    BY <1>6 DEF Begins
  <2>2. z[1].start \in starts
    BY <1>5, <1>7
  <2>3. \A i \in 1..m : z[i].start \in starts
    OBVIOUS
  <2>4. \A x \in starts : \E i \in 1..m : x = z[i].start
    OBVIOUS
  <2> HIDE DEF starts
  <2>5. Min(starts) \in starts /\ \A y \in starts : Min(starts) <= y
    BY <2>1, <2>2, MinProperties
  <2>6. PICK v \in 1..m : Min(starts) = z[v].start
    BY <2>4, <2>5
  <2> QED
    BY <2>3, <2>5, <2>6
<1> DEFINE skip == [i \in 1..(m - 1) |-> IF i < u THEN i ELSE i + 1]
           w == [i \in 1..(m - 1) |-> z[skip[i]]]
<1>11. \A i \in 1..(m - 1) : skip[i] \in (1..m) \ {u}
  BY <1>5
<1>12. \A i, j \in 1..(m - 1) : skip[i] = skip[j] => i = j
  BY <1>5
<1>13. ASSUME NEW t \in (1..m) \ {u} PROVE \E i \in 1..(m - 1) : skip[i] = t
  <2>1. CASE t < u
    <3>1. t \in 1..(m - 1) /\ skip[t] = t
      BY <1>5, <2>1
    <3> QED
      BY <3>1
  <2>2. CASE t > u
    <3>1. t - 1 \in 1..(m - 1) /\ skip[t - 1] = t
      BY <1>5, <2>2
    <3> QED
      BY <3>1
  <2> QED
    BY <1>5, <2>1, <2>2
<1> HIDE DEF skip
<1>14. \A i \in 1..(m - 1) : w[i] = z[skip[i]]
  OBVIOUS
<1> HIDE DEF w
<1>15. Begins(w, m - 1)
  BY <1>6, <1>11, <1>14 DEF Begins
<1>16. PICK q : Orders(q, w, m - 1)
  BY <1>9, <1>15 DEF Unordered
<1>17. First(u, z, m) /\ Skips(skip, u, m) /\ Lists(w, skip, z, m)
  BY <1>10, <1>11, <1>12, <1>13, <1>14 DEF First, Skips, Lists
<1>18. m \in Nat \ {0}
  BY <1>5, <1>7
<1>19. \E p : Orders(p, z, m)
  BY <1>16, <1>17, <1>18, OrderOfOneMore
<1> QED
  BY <1>6, <1>19

(* The array's ranges are all apart, hence all different. *)
ArrayOK(s) ==
  /\ s \in Seq(CacheRange)
  /\ \A i, j \in DOMAIN s : i # j => ~Touches(s[i], s[j])

LEMMA TouchesItself == \A r \in CacheRange : Touches(r, r)
BY LastByteAssumption DEF CacheRange, Offset, Touches

LEMMA ArrayFacts ==
  ASSUME NEW s, ArrayOK(s)
  PROVE  /\ Len(s) \in Nat /\ DOMAIN s = 1..Len(s)
         /\ \A i \in 1..Len(s) : s[i] \in CacheRange
         /\ \A i, j \in 1..Len(s) : s[i] = s[j] => i = j
         /\ ToSet(s) = {s[i] : i \in 1..Len(s)}
         /\ ToSet(s) \subseteq CacheRange /\ Separated(ToSet(s)) /\ IsInjective(s)
<1>1. s \in Seq(CacheRange)
  BY DEF ArrayOK
<1>2. Len(s) \in Nat /\ DOMAIN s = 1..Len(s)
  BY <1>1, LenProperties
<1>3. \A i \in 1..Len(s) : s[i] \in CacheRange
  BY <1>1, <1>2, ElementOfSeq
<1>4. \A i, j \in 1..Len(s) : s[i] = s[j] => i = j
  BY <1>2, <1>3, TouchesItself DEF ArrayOK
<1>5. ToSet(s) = {s[i] : i \in 1..Len(s)}
  BY <1>2 DEF ToSet
<1>6. ToSet(s) \subseteq CacheRange
  BY <1>3, <1>5
<1>7. Separated(ToSet(s))
  BY <1>2, <1>5 DEF Separated, ArrayOK
<1>8. IsInjective(s)
  BY <1>2, <1>4 DEF IsInjective
<1> QED
  BY <1>2, <1>3, <1>4, <1>5, <1>6, <1>7, <1>8

(* Sorting keeps the ranges, and keeps them apart.                         *)
LEMMA SortedFacts ==
  ASSUME NEW s, ArrayOK(s)
  PROVE  /\ ArrayOK(Sorted(s)) /\ Len(Sorted(s)) = Len(s)
         /\ ToSet(Sorted(s)) = ToSet(s)
         /\ \A i, j \in 1..Len(s) : i < j => Sorted(s)[i].start <= Sorted(s)[j].start
<1> DEFINE n == Len(s)
           InOrder(f) == \A i, j \in DOMAIN s : i < j => s[f[i]].start <= s[f[j]].start
           p == CHOOSE f \in Bijection(DOMAIN s, DOMAIN s) : InOrder(f)
           t == Sorted(s)
<1>1. /\ n \in Nat /\ DOMAIN s = 1..n
      /\ \A i \in 1..n : s[i] \in CacheRange
      /\ ToSet(s) = {s[i] : i \in 1..n}
  BY ArrayFacts
<1>2. t = [i \in 1..n |-> s[p[i]]]
  BY <1>1 DEF Sorted
<1>3. \A f : Orders(f, s, n) <=> f \in Bijection(DOMAIN s, DOMAIN s) /\ InOrder(f)
  BY <1>1 DEF Orders, Bijection, Injection, Surjection, IsInjective
<1>4. \E f : Orders(f, s, n)
  <2>1. Begins(s, n)
    BY <1>1, LastByteAssumption DEF Begins, CacheRange, Offset
  <2> QED
    BY <1>1, <2>1, OrderExists DEF Unordered
<1> HIDE DEF InOrder
<1>5. Orders(p, s, n)
  BY <1>3, <1>4, Zenon
<1> HIDE DEF p, t, n
<1>6. /\ \A i \in 1..n : p[i] \in 1..n
      /\ \A i, j \in 1..n : p[i] = p[j] => i = j
      /\ \A k \in 1..n : \E i \in 1..n : p[i] = k
      /\ \A i, j \in 1..n : i < j => s[p[i]].start <= s[p[j]].start
  BY <1>5 DEF Orders
<1>7. \A i \in 1..n : t[i] = s[p[i]]
  BY <1>2
<1>8. t \in Seq(CacheRange) /\ Len(t) = n /\ DOMAIN t = 1..n
  <2>1. t \in [1..n -> CacheRange]
    BY <1>1, <1>2, <1>6
  <2> QED
    BY <1>1, <2>1, SeqDef, LenProperties
<1>9. ToSet(t) = ToSet(s)
  <2>1. ToSet(t) = {t[i] : i \in 1..n}
    BY <1>8 DEF ToSet
  <2>2. ASSUME NEW i \in 1..n PROVE t[i] \in ToSet(s)
    <3>1. p[i] \in 1..n /\ t[i] = s[p[i]]
      BY <1>6, <1>7
    <3> HIDE <1>6, <1>7
    <3> QED
      BY <1>1, <3>1
  <2>3. ASSUME NEW k \in 1..n PROVE s[k] \in ToSet(t)
    <3>1. PICK i \in 1..n : p[i] = k
      BY <1>6
    <3> QED
      BY <1>7, <2>1, <3>1
  <2> QED
    BY <1>1, <2>1, <2>2, <2>3
<1>10. ASSUME NEW i \in 1..n, NEW j \in 1..n, i # j PROVE ~Touches(t[i], t[j])
  <2>1. p[i] \in 1..n /\ p[j] \in 1..n /\ p[i] # p[j]
    BY <1>6, <1>10
  <2>2. ~Touches(s[p[i]], s[p[j]])
    BY <1>1, <2>1 DEF ArrayOK
  <2> QED
    BY <1>7, <2>2
<1>11. \A i, j \in 1..n : i < j => t[i].start <= t[j].start
  BY <1>6, <1>7
<1>12. ArrayOK(t)
  BY <1>8, <1>10 DEF ArrayOK
<1> QED
  BY <1>8, <1>9, <1>11, <1>12 DEF n, t

(* Appending a range, or an array behind another.                          *)
LEMMA AppendApart ==
  ASSUME NEW s, ArrayOK(s), NEW r \in CacheRange, \A i \in DOMAIN s : ~Touches(s[i], r)
  PROVE  ArrayOK(Append(s, r)) /\ ToSet(Append(s, r)) = ToSet(s) \cup {r}
<1> DEFINE n == Len(s)
           t == Append(s, r)
<1>1. /\ n \in Nat /\ DOMAIN s = 1..n /\ s \in Seq(CacheRange)
      /\ \A i \in 1..n : s[i] \in CacheRange
      /\ ToSet(s) = {s[i] : i \in 1..n}
  BY ArrayFacts DEF ArrayOK
<1>2. /\ t \in Seq(CacheRange) /\ Len(t) = n + 1
      /\ \A i \in 1..n : t[i] = s[i]
      /\ t[n + 1] = r
  BY <1>1, AppendProperties
<1> HIDE DEF t, n
<1>3. DOMAIN t = 1..(n + 1)
  BY <1>1, <1>2, LenProperties
<1>4. \A i \in 1..(n + 1) : i = n + 1 \/ i \in 1..n
  BY <1>1
<1>5. n + 1 \in 1..(n + 1) /\ \A i \in 1..n : i \in 1..(n + 1)
  BY <1>1
<1>6. ToSet(t) = ToSet(s) \cup {r}
  <2>1. ToSet(t) = {t[i] : i \in 1..(n + 1)}
    BY <1>3 DEF ToSet
  <2> QED
    BY <1>1, <1>2, <1>4, <1>5, <2>1
<1>7. \A i \in 1..n : ~Touches(s[i], r) /\ ~Touches(r, s[i])
  BY <1>1, LastByteAssumption DEF Touches, CacheRange, Offset
<1>8. ASSUME NEW i \in 1..(n + 1), NEW j \in 1..(n + 1), i # j PROVE ~Touches(t[i], t[j])
  <2>1. CASE i \in 1..n /\ j \in 1..n
    BY <1>1, <1>2, <1>8, <2>1 DEF ArrayOK
  <2>2. CASE i = n + 1 /\ j \in 1..n
    BY <1>2, <1>7, <2>2
  <2>3. CASE i \in 1..n /\ j = n + 1
    BY <1>2, <1>7, <2>3
  <2> QED
    BY <1>4, <1>8, <2>1, <2>2, <2>3
<1>9. ArrayOK(t)
  BY <1>2, <1>3, <1>8 DEF ArrayOK
<1> QED
  BY <1>6, <1>9 DEF t

LEMMA ConcatApart ==
  ASSUME NEW s, ArrayOK(s), NEW t, ArrayOK(t),
         \A i \in DOMAIN s : \A j \in DOMAIN t : ~Touches(s[i], t[j])
  PROVE  ArrayOK(s \o t) /\ ToSet(s \o t) = ToSet(s) \cup ToSet(t)
<1> DEFINE n == Len(s)
           m == Len(t)
           c == s \o t
<1>1. /\ n \in Nat /\ DOMAIN s = 1..n /\ s \in Seq(CacheRange)
      /\ \A i \in 1..n : s[i] \in CacheRange
      /\ ToSet(s) = {s[i] : i \in 1..n}
  BY ArrayFacts DEF ArrayOK
<1>2. /\ m \in Nat /\ DOMAIN t = 1..m /\ t \in Seq(CacheRange)
      /\ \A i \in 1..m : t[i] \in CacheRange
      /\ ToSet(t) = {t[i] : i \in 1..m}
  BY ArrayFacts DEF ArrayOK
<1>3. /\ c \in Seq(CacheRange) /\ Len(c) = n + m
      /\ \A i \in 1..(n + m) : c[i] = IF i <= n THEN s[i] ELSE t[i - n]
  BY <1>1, <1>2, ConcatProperties
<1> HIDE DEF c, n, m
<1>4. DOMAIN c = 1..(n + m)
  BY <1>1, <1>2, <1>3, LenProperties
<1>5. ASSUME NEW i \in 1..(n + m)
      PROVE  \/ i \in 1..n /\ c[i] = s[i]
             \/ i \notin 1..n /\ i - n \in 1..m /\ c[i] = t[i - n]
  BY <1>1, <1>2, <1>3
<1>6. \A i \in 1..n : i \in 1..(n + m) /\ c[i] = s[i]
  BY <1>1, <1>2, <1>3
<1>7. \A j \in 1..m : n + j \in 1..(n + m) /\ c[n + j] = t[j]
  BY <1>1, <1>2, <1>3
<1>8. ToSet(c) = ToSet(s) \cup ToSet(t)
  <2>1. ToSet(c) = {c[i] : i \in 1..(n + m)}
    BY <1>4 DEF ToSet
  <2>2. ToSet(c) \subseteq ToSet(s) \cup ToSet(t)
    BY <1>1, <1>2, <1>5, <2>1
  <2>3. ToSet(s) \subseteq ToSet(c)
    BY <1>1, <1>6, <2>1
  <2>4. ToSet(t) \subseteq ToSet(c)
    BY <1>2, <1>7, <2>1
  <2> QED
    BY <2>2, <2>3, <2>4
<1>9. \A i \in 1..n : \A j \in 1..m : ~Touches(s[i], t[j]) /\ ~Touches(t[j], s[i])
  BY <1>1, <1>2, LastByteAssumption DEF Touches, CacheRange, Offset
<1>10. ASSUME NEW i \in 1..(n + m), NEW j \in 1..(n + m), i # j PROVE ~Touches(c[i], c[j])
  <2>1. CASE i \in 1..n /\ j \in 1..n
    BY <1>1, <1>6, <1>10, <2>1 DEF ArrayOK
  <2>2. CASE i \notin 1..n /\ j \in 1..n
    BY <1>5, <1>6, <1>9, <2>2
  <2>3. CASE i \in 1..n /\ j \notin 1..n
    BY <1>5, <1>6, <1>9, <2>3
  <2>4. CASE i \notin 1..n /\ j \notin 1..n
    <3>1. i - n \in 1..m /\ j - n \in 1..m /\ c[i] = t[i - n] /\ c[j] = t[j - n]
      BY <1>5, <2>4
    <3>2. i - n # j - n
      BY <1>1, <1>2, <1>10
    <3> QED
      BY <1>2, <3>1, <3>2 DEF ArrayOK
  <2> QED
    BY <2>1, <2>2, <2>3, <2>4
<1>11. ArrayOK(c)
  BY <1>3, <1>4, <1>10 DEF ArrayOK
<1> QED
  BY <1>8, <1>11 DEF c

(* The loop of addRange.  The new range has grown over those it touched at *)
(* the start, and the others are kept.                                     *)
Grown(new, s, i, acc) ==
  /\ acc.newRange \in CacheRange
  /\ acc.newRange.start <= new.start /\ new.end <= acc.newRange.end
  /\ \A j \in 1..i : Touches(new, s[j]) =>
       acc.newRange.start <= s[j].start /\ s[j].end <= acc.newRange.end
  /\ \/ acc.newRange.start = new.start
     \/ \E j \in 1..i : Touches(new, s[j]) /\ acc.newRange.start = s[j].start
  /\ \/ acc.newRange.end = new.end
     \/ \E j \in 1..i : Touches(new, s[j]) /\ acc.newRange.end = s[j].end

Kept(new, s, i, acc) ==
  /\ ArrayOK(acc.kept)
  /\ ToSet(acc.kept) = {r \in {s[j] : j \in 1..i} : ~Touches(new, r)}

(* What touches a range touches any that holds it.                         *)
LEMMA TouchesWider ==
  ASSUME NEW a \in CacheRange, NEW r \in CacheRange, NEW g \in CacheRange,
         g.start <= a.start, a.end <= g.end, Touches(a, r)
  PROVE  Touches(g, r)
<1>1. /\ a.start \in Nat /\ a.end \in Nat /\ r.start \in Nat /\ r.end \in Nat
      /\ g.start \in Nat /\ g.end \in Nat
  BY DEF CacheRange, Offset
<1>2. a.start <= r.end + 1 /\ a.end + 1 >= r.start
  BY DEF Touches
<1> QED
  BY <1>1, <1>2 DEF Touches

(* A range wholly before or behind another is touched, when that one grows *)
(* to the end of a third it touches, only by way of that third.            *)
LEMMA GrownBefore ==
  ASSUME NEW a \in CacheRange, NEW r \in CacheRange, NEW g \in CacheRange,
         NEW t \in CacheRange, r.end + 1 < a.start,
         Touches(g, r), Touches(a, t), g.start = t.start
  PROVE  Touches(t, r)
<1>1. /\ a.start \in Nat /\ r.start \in Nat /\ r.end \in Nat /\ t.start \in Nat
      /\ t.end \in Nat /\ r.start <= r.end
  BY DEF CacheRange, Offset
<1>2. t.start <= r.end + 1 /\ a.start <= t.end + 1
  BY DEF Touches
<1> QED
  BY <1>1, <1>2 DEF Touches

LEMMA GrownBehind ==
  ASSUME NEW a \in CacheRange, NEW r \in CacheRange, NEW g \in CacheRange,
         NEW t \in CacheRange, a.end + 1 < r.start,
         Touches(g, r), Touches(a, t), g.end = t.end
  PROVE  Touches(t, r)
<1>1. /\ a.end \in Nat /\ r.start \in Nat /\ r.end \in Nat /\ t.start \in Nat
      /\ t.end \in Nat /\ r.start <= r.end
  BY DEF CacheRange, Offset
<1>2. t.end + 1 >= r.start /\ a.end + 1 >= t.start
  BY DEF Touches
<1> QED
  BY <1>1, <1>2 DEF Touches

(* Growing lets the new range touch none that it did not touch before: it  *)
(* would reach there only over a range that touches that one.              *)
LEMMA GrownTouches ==
  ASSUME NEW s, ArrayOK(s), NEW new \in CacheRange, NEW i \in 0..Len(s), NEW acc,
         Grown(new, s, i, acc), NEW k \in 1..Len(s), k \notin 1..i
  PROVE  Touches(acc.newRange, s[k]) <=> Touches(new, s[k])
<1> USE LastByteAssumption
<1> DEFINE g == acc.newRange
<1>1. /\ Len(s) \in Nat /\ DOMAIN s = 1..Len(s)
      /\ \A j \in 1..Len(s) : s[j] \in CacheRange
  BY ArrayFacts
<1>2. \A j \in 1..i : j \in 1..Len(s) /\ ~Touches(s[j], s[k])
  BY <1>1 DEF ArrayOK
<1>3. \A r \in CacheRange : r.start \in Nat /\ r.end \in Nat /\ r.start <= r.end
  BY DEF CacheRange, Offset
<1>4. s[k] \in CacheRange /\ g \in CacheRange
  BY <1>1 DEF Grown
<1>a. /\ g.start \in Nat /\ g.end \in Nat /\ new.start \in Nat /\ new.end \in Nat
      /\ s[k].start \in Nat /\ s[k].end \in Nat /\ s[k].start <= s[k].end
      /\ g.start <= new.start /\ new.end <= g.end
  BY <1>3, <1>4 DEF Grown
<1> HIDE DEF g
<1>5. ASSUME Touches(new, s[k]) PROVE Touches(g, s[k])
  BY <1>a, <1>4, <1>5, TouchesWider
<1>6. ASSUME Touches(g, s[k]), ~Touches(new, s[k]) PROVE FALSE
  <2>1. CASE s[k].end + 1 < new.start
    <3>1. g.start # new.start
      BY <1>a, <1>6, <2>1 DEF Touches
    <3>2. PICK j \in 1..i : Touches(new, s[j]) /\ g.start = s[j].start
      BY <3>1 DEF Grown, g
    <3>3. s[j] \in CacheRange /\ ~Touches(s[j], s[k])
      BY <1>1, <1>2
    <3> QED
      BY <1>4, <1>6, <2>1, <3>2, <3>3, GrownBefore
  <2>2. CASE new.end + 1 < s[k].start
    <3>1. g.end # new.end
      BY <1>a, <1>6, <2>2 DEF Touches
    <3>2. PICK j \in 1..i : Touches(new, s[j]) /\ g.end = s[j].end
      BY <3>1 DEF Grown, g
    <3>3. s[j] \in CacheRange /\ ~Touches(s[j], s[k])
      BY <1>1, <1>2
    <3> QED
      BY <1>4, <1>6, <2>2, <3>2, <3>3, GrownBehind
  <2> QED
    BY <1>a, <1>6, <2>1, <2>2 DEF Touches
<1> QED
  BY <1>5, <1>6 DEF g

(* The least and the greatest of two offsets. *)
LEMMA MinOfTwo ==
  ASSUME NEW a \in Nat, NEW b \in Nat
  PROVE  /\ Min({a, b}) \in {a, b} /\ Min({a, b}) <= a /\ Min({a, b}) <= b
<1> QED
  BY MinProperties

LEMMA MaxOfTwo ==
  ASSUME NEW a \in Nat, NEW b \in Nat
  PROVE  /\ Max({a, b}) \in {a, b} /\ Max({a, b}) >= a /\ Max({a, b}) >= b
<1> DEFINE m == IF a >= b THEN a ELSE b
<1>1. m \in {a, b} /\ \A y \in {a, b} : m >= y
  OBVIOUS
<1> HIDE DEF m
<1>2. PICK x \in {a, b} : \A y \in {a, b} : x >= y
  BY <1>1
<1>3. Max({a, b}) \in {a, b} /\ \A y \in {a, b} : Max({a, b}) >= y
  BY <1>2, Zenon DEF Max
<1> QED
  BY <1>3

LEMMA AbsorbGrows ==
  ASSUME NEW s, ArrayOK(s), NEW new \in CacheRange, NEW i \in 1..Len(s), NEW acc,
         Grown(new, s, i - 1, acc), Kept(new, s, i - 1, acc)
  PROVE  Grown(new, s, i, Absorb(acc, s[i])) /\ Kept(new, s, i, Absorb(acc, s[i]))
<1> USE LastByteAssumption
<1> DEFINE g == acc.newRange
           r == s[i]
           d == Absorb(acc, r)
           lo == Min({g.start, r.start})
           hi == Max({g.end, r.end})
<1>1. /\ Len(s) \in Nat /\ DOMAIN s = 1..Len(s)
      /\ \A j \in 1..Len(s) : s[j] \in CacheRange
  BY ArrayFacts
<1>2. g \in CacheRange /\ r \in CacheRange
  BY <1>1 DEF Grown
<1>3. /\ g.start \in Offset /\ g.end \in Offset /\ g.start <= g.end
      /\ r.start \in Offset /\ r.end \in Offset /\ r.start <= r.end
      /\ new.start \in Offset /\ new.end \in Offset /\ new.start <= new.end
  BY <1>2 DEF CacheRange
<1>4. i - 1 \in 0..Len(s) /\ i \notin 1..(i - 1) /\ i \in 1..i
  BY <1>1
<1>5. Touches(g, r) <=> Touches(new, r)
  BY <1>4, GrownTouches
<1>6. /\ \A j \in 1..(i - 1) : j \in 1..i /\ j \in 1..Len(s) /\ j # i
      /\ \A j \in 1..i : j = i \/ j \in 1..(i - 1)
  BY <1>1
<1>7. CASE Touches(new, r)
  <2>1. d = [newRange |-> [start |-> lo, end |-> hi], kept |-> acc.kept]
    BY <1>5, <1>7 DEF Absorb
  <2>2. d.newRange.start = lo /\ d.newRange.end = hi /\ d.kept = acc.kept
        /\ d.newRange = [start |-> lo, end |-> hi]
    BY <2>1
  <2>3. /\ lo \in {g.start, r.start} /\ lo <= g.start /\ lo <= r.start
        /\ hi \in {g.end, r.end} /\ hi >= g.end /\ hi >= r.end
    <3>1. g.start \in Nat /\ r.start \in Nat /\ g.end \in Nat /\ r.end \in Nat
      BY <1>3 DEF Offset
    <3>2. lo \in {g.start, r.start} /\ lo <= g.start /\ lo <= r.start
      BY <3>1, MinOfTwo
    <3>3. hi \in {g.end, r.end} /\ hi >= g.end /\ hi >= r.end
      BY <3>1, MaxOfTwo
    <3> QED
      BY <3>2, <3>3
  <2> HIDE DEF lo, hi
  <2>4. lo \in Offset /\ hi \in Offset /\ lo <= hi
    BY <1>3, <2>3 DEF Offset
  <2> HIDE DEF d
  <2>5. d.newRange \in CacheRange
    BY <2>2, <2>4 DEF CacheRange
  <2>6. lo <= new.start /\ new.end <= hi
    <3>1. g.start <= new.start /\ new.end <= g.end
      BY DEF Grown
    <3>2. /\ lo \in Nat /\ hi \in Nat /\ g.start \in Nat /\ g.end \in Nat
          /\ new.start \in Nat /\ new.end \in Nat /\ lo <= g.start /\ g.end <= hi
      BY <1>3, <2>3, <2>4 DEF Offset
    <3> HIDE DEF g
    <3> QED
      BY <3>1, <3>2
  <2>7. ASSUME NEW j \in 1..i, Touches(new, s[j])
        PROVE  lo <= s[j].start /\ s[j].end <= hi
    <3>1. CASE j = i
      BY <2>3, <3>1
    <3>2. CASE j \in 1..(i - 1)
      <4>1. g.start <= s[j].start /\ s[j].end <= g.end
        BY <2>7, <3>2 DEF Grown
      <4>2. s[j].start \in Nat /\ s[j].end \in Nat
        BY <1>1, <1>6, <3>2 DEF CacheRange, Offset
      <4>3. lo \in Nat /\ hi \in Nat /\ g.start \in Nat /\ g.end \in Nat
        BY <1>3, <2>4 DEF Offset
      <4>4. lo <= g.start /\ g.end <= hi
        BY <2>3, <4>3
      <4> QED
        BY <4>1, <4>2, <4>3, <4>4
    <3> QED
      BY <1>6, <3>1, <3>2
  <2>8. \/ lo = new.start
        \/ \E j \in 1..i : Touches(new, s[j]) /\ lo = s[j].start
    <3>1. CASE lo = r.start
      BY <1>4, <1>7, <3>1
    <3>2. CASE lo = g.start
      BY <1>6, <3>2 DEF Grown
    <3> QED
      BY <2>3, <3>1, <3>2
  <2>9. \/ hi = new.end
        \/ \E j \in 1..i : Touches(new, s[j]) /\ hi = s[j].end
    <3>1. CASE hi = r.end
      BY <1>4, <1>7, <3>1
    <3>2. CASE hi = g.end
      BY <1>6, <3>2 DEF Grown
    <3> QED
      BY <2>3, <3>1, <3>2
  <2>10. Grown(new, s, i, d)
    BY <2>2, <2>5, <2>6, <2>7, <2>8, <2>9 DEF Grown
  <2>11. {q \in {s[j] : j \in 1..i} : ~Touches(new, q)}
           = {q \in {s[j] : j \in 1..(i - 1)} : ~Touches(new, q)}
    BY <1>6, <1>7
  <2>12. Kept(new, s, i, d)
    BY <2>2, <2>11 DEF Kept
  <2> QED
    BY <2>10, <2>12 DEF d
<1>8. CASE ~Touches(new, r)
  <2>1. d = [newRange |-> g, kept |-> Append(acc.kept, r)]
    BY <1>5, <1>8 DEF Absorb
  <2>2. d.newRange = g /\ d.kept = Append(acc.kept, r)
    BY <2>1
  <2> HIDE DEF d
  <2>3. Grown(new, s, i, d)
    BY <1>6, <1>8, <2>2 DEF Grown
  <2>4. ArrayOK(acc.kept)
    BY DEF Kept
  <2>5. ASSUME NEW a \in DOMAIN acc.kept PROVE ~Touches(acc.kept[a], r)
    <3>1. acc.kept[a] \in ToSet(acc.kept)
      BY <2>4, ArrayFacts
    <3>2. PICK j \in 1..(i - 1) : acc.kept[a] = s[j]
      BY <3>1 DEF Kept
    <3> QED
      BY <1>1, <1>6, <3>2 DEF ArrayOK
  <2>6. ArrayOK(Append(acc.kept, r)) /\ ToSet(Append(acc.kept, r)) = ToSet(acc.kept) \cup {r}
    BY <1>2, <2>4, <2>5, AppendApart
  <2>7. {q \in {s[j] : j \in 1..i} : ~Touches(new, q)}
          = {q \in {s[j] : j \in 1..(i - 1)} : ~Touches(new, q)} \cup {r}
    BY <1>4, <1>6, <1>8
  <2>8. Kept(new, s, i, d)
    BY <2>2, <2>6, <2>7 DEF Kept
  <2> QED
    BY <2>3, <2>8 DEF d
<1> QED
  BY <1>7, <1>8

LEMMA AddIsMerged ==
  ASSUME NEW s, ArrayOK(s), NEW new \in CacheRange
  PROVE  ArrayOK(ArrayAdd(s, new)) /\ ToSet(ArrayAdd(s, new)) = Merged(ToSet(s), new)
<1> USE LastByteAssumption
<1> DEFINE n == Len(s)
           e == [newRange |-> new, kept |-> <<>>]
           done == FoldLeft(Absorb, e, s)
<1>1. /\ n \in Nat /\ DOMAIN s = 1..n
      /\ \A j \in 1..n : s[j] \in CacheRange
      /\ ToSet(s) = {s[j] : j \in 1..n} /\ ToSet(s) \subseteq CacheRange
  BY ArrayFacts
<1>2. PICK h : Runs(AddLoop, h, e, s, n) /\ h[n] = done
  BY <1>1, AddRun
<1>3. Grown(new, s, 0, e) /\ Kept(new, s, 0, e)
  <2>1. e.newRange = new /\ e.kept = <<>>
    OBVIOUS
  <2>2. Grown(new, s, 0, e)
    BY <2>1 DEF Grown, CacheRange, Offset
  <2>3. ArrayOK(<<>>) /\ ToSet(<<>>) = {}
    BY DEF ArrayOK, ToSet
  <2>4. {r \in {s[j] : j \in 1..0} : ~Touches(new, r)} = {}
    OBVIOUS
  <2> QED
    BY <2>1, <2>2, <2>3, <2>4 DEF Kept
<1> HIDE DEF e, done, n
<1> DEFINE G == {i \in 0..n : Grown(new, s, i, h[i]) /\ Kept(new, s, i, h[i])}
<1>4. 0 \in G
  BY <1>1, <1>2, <1>3 DEF Runs
<1>5. ASSUME NEW i \in 1..n, i - 1 \in G PROVE i \in G
  <2>1. h[i] = Absorb(h[i - 1], s[i])
    BY <1>2, Turns DEF Runs
  <2>2. Grown(new, s, i - 1, h[i - 1]) /\ Kept(new, s, i - 1, h[i - 1])
    BY <1>5
  <2>3. Grown(new, s, i, h[i]) /\ Kept(new, s, i, h[i])
    BY <2>1, <2>2, AbsorbGrows DEF n
  <2> QED
    BY <1>1, <2>3
<1> HIDE DEF G
<1>6. n \in G
  BY <1>1, <1>4, <1>5, Upwards
<1>7. Grown(new, s, n, done) /\ Kept(new, s, n, done)
  BY <1>2, <1>6 DEF G
<1> DEFINE g == done.newRange
           kept == done.kept
<1>8. /\ g \in CacheRange
      /\ ArrayOK(kept)
      /\ ToSet(kept) = {r \in ToSet(s) : ~Touches(new, r)}
  BY <1>1, <1>7 DEF Grown, Kept
<1>9. g = Hull(ToSet(s), new)
  <2> DEFINE T == Touching(ToSet(s), new)
             hull == Hull(ToSet(s), new)
  <2>1. /\ \E r \in T : hull.start = r.start
        /\ \E r \in T : hull.end = r.end
        /\ \A r \in T : hull.start <= r.start /\ r.end <= hull.end
        /\ hull \in CacheRange
    BY <1>1, HullProperties
  <2>2. /\ \E r \in T : g.start = r.start
        /\ \E r \in T : g.end = r.end
        /\ \A r \in T : g.start <= r.start /\ r.end <= g.end
    <3>1. \A r : r \in T <=> r = new \/ \E j \in 1..n : r = s[j] /\ Touches(new, s[j])
      BY <1>1 DEF Touching
    <3> HIDE DEF T
    <3>2. \E r \in T : g.start = r.start
      BY <1>7, <3>1 DEF Grown
    <3>3. \E r \in T : g.end = r.end
      BY <1>7, <3>1 DEF Grown
    <3>4. \A r \in T : g.start <= r.start /\ r.end <= g.end
      BY <1>7, <3>1 DEF Grown
    <3> QED
      BY <3>2, <3>3, <3>4
  <2>3. T \subseteq CacheRange
    BY <1>1 DEF Touching
  <2> HIDE DEF T, hull, g
  <2>4. hull.start = g.start /\ hull.end = g.end
    BY <1>8, <2>1, <2>2, <2>3 DEF CacheRange, Offset
  <2>5. hull = [start |-> hull.start, end |-> hull.end] /\ g = [start |-> g.start, end |-> g.end]
    BY <1>8, <2>1 DEF CacheRange
  <2> QED
    BY <2>4, <2>5 DEF hull, g
<1>10. ASSUME NEW a \in DOMAIN kept PROVE ~Touches(kept[a], g)
  <2>1. kept[a] \in ToSet(kept)
    BY <1>8, ArrayFacts
  <2>2. kept[a] \in ToSet(s) /\ ~Touches(new, kept[a])
    BY <1>8, <2>1
  <2>3. kept[a] \in Merged(ToSet(s), new) /\ g \in Merged(ToSet(s), new)
    BY <1>9, <2>2, TouchesItself, MergedIsHull DEF Touching
  <2>4. Separated(Merged(ToSet(s), new))
    BY <1>1, MergedSeparated, ArrayFacts
  <2>5. Touches(new, g)
    BY <1>7, <1>8 DEF Grown, Touches, CacheRange, Offset
  <2>6. kept[a] # g
    BY <2>2, <2>5
  <2> QED
    BY <2>3, <2>4, <2>6 DEF Separated
<1> DEFINE t == Append(kept, g)
<1>11. ArrayOK(t) /\ ToSet(t) = ToSet(kept) \cup {g}
  BY <1>8, <1>10, AppendApart
<1>12. ToSet(s) \ Touching(ToSet(s), new) = {r \in ToSet(s) : ~Touches(new, r)}
  BY TouchesItself DEF Touching
<1>13. ToSet(t) = Merged(ToSet(s), new)
  BY <1>8, <1>9, <1>11, <1>12, MergedIsHull
<1>14. ArrayAdd(s, new) = Sorted(t)
  BY DEF ArrayAdd, done, e
<1> HIDE DEF t
<1> QED
  BY <1>11, <1>13, <1>14, SortedFacts

(* The loop of removeRange.  The pieces a cut leaves of a range.           *)
Piece(w, r, cut) ==
  \/ w = r /\ ~Overlaps(r, cut)
  \/ Overlaps(r, cut) /\ r.start < cut.start /\ w = [start |-> r.start, end |-> cut.start - 1]
  \/ Overlaps(r, cut) /\ r.end > cut.end /\ w = [start |-> cut.end + 1, end |-> r.end]

LEMMA WithoutPieces ==
  ASSUME NEW R, NEW cut
  PROVE  Without(R, cut) = {w \in Without(R, cut) : \E r \in R : Piece(w, r, cut)}
         /\ \A r \in R : \A w : Piece(w, r, cut) => w \in Without(R, cut)
<1>1. \A w \in Without(R, cut) : \E r \in R : Piece(w, r, cut)
  BY DEF Without, Piece
<1>2. ASSUME NEW r \in R, NEW w, Piece(w, r, cut) PROVE w \in Without(R, cut)
  BY <1>2 DEF Without, Piece
<1> QED
  BY <1>1, <1>2

(* A piece is a part of its range. *)
LEMMA PieceWithin ==
  ASSUME NEW cut \in CacheRange, NEW r \in CacheRange, NEW w, Piece(w, r, cut)
  PROVE  w \in CacheRange /\ r.start <= w.start /\ w.end <= r.end
<1> USE LastByteAssumption
<1>1. /\ r.start \in Offset /\ r.end \in Offset /\ r.start <= r.end
      /\ cut.start \in Offset /\ cut.end \in Offset /\ cut.start <= cut.end
  BY DEF CacheRange
<1>2. CASE w = r
  BY <1>1, <1>2 DEF Offset
<1>3. CASE Overlaps(r, cut) /\ r.start < cut.start /\ w = [start |-> r.start, end |-> cut.start - 1]
  <2>1. cut.start - 1 \in Offset /\ r.start <= cut.start - 1 /\ cut.start - 1 <= r.end
    BY <1>1, <1>3 DEF Overlaps, Offset
  <2>2. w.start = r.start /\ w.end = cut.start - 1
    BY <1>3
  <2>3. w \in CacheRange
    BY <1>1, <1>3, <2>1 DEF CacheRange
  <2> QED
    BY <1>1, <2>1, <2>2, <2>3 DEF Offset
<1>4. CASE Overlaps(r, cut) /\ r.end > cut.end /\ w = [start |-> cut.end + 1, end |-> r.end]
  <2>1. cut.end + 1 \in Offset /\ cut.end + 1 <= r.end /\ r.start <= cut.end + 1
    BY <1>1, <1>4 DEF Overlaps, Offset
  <2>2. w.start = cut.end + 1 /\ w.end = r.end
    BY <1>4
  <2>3. w \in CacheRange
    BY <1>1, <1>4, <2>1 DEF CacheRange
  <2> QED
    BY <1>1, <2>1, <2>2, <2>3 DEF Offset
<1> QED
  BY <1>2, <1>3, <1>4 DEF Piece

(* Parts of ranges that are apart are apart. *)
LEMMA PartsApart ==
  ASSUME NEW a \in CacheRange, NEW b \in CacheRange, ~Touches(a, b),
         NEW v \in CacheRange, a.start <= v.start, v.end <= a.end,
         NEW w \in CacheRange, b.start <= w.start, w.end <= b.end
  PROVE  ~Touches(v, w)
<1>1. \A r \in CacheRange : r.start \in Nat /\ r.end \in Nat /\ r.start <= r.end
  BY LastByteAssumption DEF CacheRange, Offset
<1> QED
  BY <1>1 DEF Touches

(* What one turn appends are the pieces of its range: none, one, or two    *)
(* apart.                                                                  *)
Drops(acc, d, r, cut) ==
  d.kept = acc.kept /\ d.toAdd = acc.toAdd /\ \A w : ~Piece(w, r, cut)

Keeps(acc, d, r, cut, q) ==
  /\ d.kept = Append(acc.kept, q) /\ d.toAdd = acc.toAdd
  /\ \A w : Piece(w, r, cut) <=> w = q

Splits(acc, d, r, cut, q, v) ==
  /\ d.kept = Append(acc.kept, q) /\ d.toAdd = Append(acc.toAdd, v) /\ ~Touches(q, v)
  /\ \A w : Piece(w, r, cut) <=> w = q \/ w = v

LEMMA EditTurn ==
  ASSUME NEW cut \in CacheRange, NEW r \in CacheRange, NEW acc, NEW d, d = Edit(cut, acc, r)
  PROVE  \/ Drops(acc, d, r, cut)
         \/ \E q : Keeps(acc, d, r, cut, q)
         \/ \E q, v : Splits(acc, d, r, cut, q, v)
<1> USE LastByteAssumption
<1> DEFINE before == [start |-> r.start, end |-> cut.start - 1]
           after == [start |-> cut.end + 1, end |-> r.end]
<1>1. /\ r.start \in Nat /\ r.end \in Nat /\ r.start <= r.end
      /\ cut.start \in Nat /\ cut.end \in Nat /\ cut.start <= cut.end
  BY DEF CacheRange, Offset
<1>2. before.start = r.start /\ before.end = cut.start - 1
      /\ after.start = cut.end + 1 /\ after.end = r.end
  OBVIOUS
<1>3. \A w : Piece(w, r, cut) <=> \/ w = r /\ ~Overlaps(r, cut)
                                  \/ Overlaps(r, cut) /\ r.start < cut.start /\ w = before
                                  \/ Overlaps(r, cut) /\ r.end > cut.end /\ w = after
  BY DEF Piece
<1> DEFINE A == cut.start <= r.start /\ cut.end >= r.end
           B == cut.start <= r.start /\ cut.end < r.end /\ cut.end >= r.start
           C == cut.start > r.start /\ cut.start <= r.end /\ cut.end >= r.end
           E == cut.start > r.start /\ cut.end < r.end
           stays(q) == [kept |-> Append(acc.kept, q), toAdd |-> acc.toAdd]
<1>4. /\ A => d = acc
      /\ B => d = stays(after)
      /\ C => d = stays(before)
      /\ E => d = [kept |-> Append(acc.kept, before), toAdd |-> Append(acc.toAdd, after)]
      /\ ~A /\ ~B /\ ~C /\ ~E => d = stays(r)
  <2>1. d = CASE A -> acc [] B -> stays(after) [] C -> stays(before)
              [] E -> [kept |-> Append(acc.kept, before), toAdd |-> Append(acc.toAdd, after)]
              [] OTHER -> stays(r)
    BY DEF Edit
  <2>2. ~(A /\ B) /\ ~(A /\ C) /\ ~(A /\ E) /\ ~(B /\ C) /\ ~(B /\ E) /\ ~(C /\ E)
    BY <1>1
  <2> HIDE DEF A, B, C, E, stays, before, after
  <2> QED
    BY <2>1, <2>2
<1>5. \A q : stays(q).kept = Append(acc.kept, q) /\ stays(q).toAdd = acc.toAdd
  OBVIOUS
<1> HIDE DEF stays, before, after
<1>6. CASE A
  BY <1>1, <1>3, <1>4, <1>6 DEF Drops, Overlaps
<1>7. CASE B
  <2>1. \A w : Piece(w, r, cut) <=> w = after
    BY <1>1, <1>3, <1>7 DEF Overlaps
  <2>2. Keeps(acc, d, r, cut, after)
    BY <1>4, <1>5, <1>7, <2>1 DEF Keeps
  <2> QED
    BY <2>2
<1>8. CASE C
  <2>1. \A w : Piece(w, r, cut) <=> w = before
    BY <1>1, <1>3, <1>8 DEF Overlaps
  <2>2. Keeps(acc, d, r, cut, before)
    BY <1>4, <1>5, <1>8, <2>1 DEF Keeps
  <2> QED
    BY <2>2
<1>9. CASE E
  <2>1. \A w : Piece(w, r, cut) <=> w = before \/ w = after
    BY <1>1, <1>3, <1>9 DEF Overlaps
  <2>2. ~Touches(before, after)
    BY <1>1, <1>2 DEF Touches
  <2>3. d.kept = Append(acc.kept, before) /\ d.toAdd = Append(acc.toAdd, after)
    BY <1>4, <1>9
  <2>4. Splits(acc, d, r, cut, before, after)
    BY <2>1, <2>2, <2>3 DEF Splits
  <2> QED
    BY <2>4
<1>10. CASE ~A /\ ~B /\ ~C /\ ~E
  <2>1. ~Overlaps(r, cut)
    BY <1>1, <1>10 DEF Overlaps
  <2>2. \A w : Piece(w, r, cut) <=> w = r
    BY <1>3, <2>1
  <2>3. Keeps(acc, d, r, cut, r)
    BY <1>4, <1>5, <1>10, <2>2 DEF Keeps
  <2> QED
    BY <2>3
<1> QED
  BY <1>6, <1>7, <1>8, <1>9, <1>10

(* The two arrays hold the pieces of the ranges so far, all apart. *)
Cut(cut, s, i, acc) ==
  /\ ArrayOK(acc.kept) /\ ArrayOK(acc.toAdd)
  /\ \A a \in DOMAIN acc.kept : \A b \in DOMAIN acc.toAdd : ~Touches(acc.kept[a], acc.toAdd[b])
  /\ \A w : w \in ToSet(acc.kept) \cup ToSet(acc.toAdd) <=> \E j \in 1..i : Piece(w, s[j], cut)

LEMMA EditCuts ==
  ASSUME NEW s, ArrayOK(s), NEW cut \in CacheRange, NEW i \in 1..Len(s), NEW acc,
         Cut(cut, s, i - 1, acc)
  PROVE  Cut(cut, s, i, Edit(cut, acc, s[i]))
<1> USE LastByteAssumption
<1> DEFINE r == s[i]
           d == Edit(cut, acc, r)
           K == acc.kept
           T == acc.toAdd
<1>1. /\ Len(s) \in Nat /\ DOMAIN s = 1..Len(s)
      /\ \A j \in 1..Len(s) : s[j] \in CacheRange
  BY ArrayFacts
<1>2. /\ \A j \in 1..(i - 1) : j \in 1..i /\ j \in 1..Len(s) /\ j # i
      /\ \A j \in 1..i : j = i \/ j \in 1..(i - 1)
      /\ i \in 1..i
  BY <1>1
<1>3. ArrayOK(K) /\ ArrayOK(T)
  BY DEF Cut
<1>4. \A w : w \in ToSet(K) \cup ToSet(T) <=> \E j \in 1..(i - 1) : Piece(w, s[j], cut)
  BY DEF Cut
<1>5. ASSUME NEW w \in ToSet(K) \cup ToSet(T), NEW p, Piece(p, r, cut)
      PROVE  ~Touches(w, p)
  <2>1. PICK j \in 1..(i - 1) : Piece(w, s[j], cut)
    BY <1>4
  <2>2. ~Touches(s[j], r) /\ s[j] \in CacheRange /\ r \in CacheRange
    BY <1>1, <1>2 DEF ArrayOK
  <2>3. w \in CacheRange /\ s[j].start <= w.start /\ w.end <= s[j].end
    BY <2>1, <2>2, PieceWithin
  <2>4. p \in CacheRange /\ r.start <= p.start /\ p.end <= r.end
    BY <1>5, <2>2, PieceWithin
  <2> QED
    BY <2>2, <2>3, <2>4, PartsApart
<1>6. /\ \A a \in DOMAIN K : K[a] \in ToSet(K)
      /\ \A a \in DOMAIN T : T[a] \in ToSet(T)
  BY <1>3, ArrayFacts
<1>7. \A p : Piece(p, r, cut) => p \in CacheRange
  BY <1>1, PieceWithin
<1>8. \A w : (\E j \in 1..i : Piece(w, s[j], cut))
               <=> Piece(w, r, cut) \/ w \in ToSet(K) \cup ToSet(T)
  BY <1>2, <1>4
<1>9. \A a \in DOMAIN K : \A b \in DOMAIN T : ~Touches(K[a], T[b])
  BY DEF Cut
<1>10. \/ Drops(acc, d, r, cut)
       \/ \E q : Keeps(acc, d, r, cut, q)
       \/ \E q, v : Splits(acc, d, r, cut, q, v)
  BY <1>1, EditTurn
<1>11. \A a, b \in CacheRange : Touches(a, b) => Touches(b, a)
  BY DEF Touches, CacheRange, Offset
<1> HIDE DEF d
<1>12. ASSUME Drops(acc, d, r, cut) PROVE Cut(cut, s, i, d)
  BY <1>3, <1>8, <1>9, <1>12 DEF Drops, Cut
<1>13. ASSUME NEW q, Keeps(acc, d, r, cut, q) PROVE Cut(cut, s, i, d)
  <2>1. Piece(q, r, cut) /\ d.kept = Append(K, q) /\ d.toAdd = T
    BY <1>13 DEF Keeps
  <2>2. q \in CacheRange /\ \A w \in ToSet(K) \cup ToSet(T) : ~Touches(w, q)
    BY <1>5, <1>7, <2>1
  <2>3. ArrayOK(d.kept) /\ ToSet(d.kept) = ToSet(K) \cup {q}
    BY <1>3, <1>6, <2>1, <2>2, AppendApart
  <2>4. ASSUME NEW a \in DOMAIN d.kept, NEW b \in DOMAIN d.toAdd
        PROVE  ~Touches(d.kept[a], d.toAdd[b])
    <3>1. d.kept[a] \in ToSet(K) \cup {q} /\ d.toAdd[b] \in ToSet(T) /\ d.toAdd[b] \in CacheRange
      BY <1>3, <2>1, <2>3, ArrayFacts
    <3>2. CASE d.kept[a] = q
      BY <1>11, <2>2, <3>1, <3>2
    <3>3. CASE d.kept[a] \in ToSet(K)
      <4>1. PICK c \in DOMAIN K : d.kept[a] = K[c]
        BY <3>3 DEF ToSet
      <4> QED
        BY <1>9, <2>1, <4>1
    <3> QED
      BY <3>1, <3>2, <3>3
  <2>5. \A w : w \in ToSet(d.kept) \cup ToSet(d.toAdd) <=> \E j \in 1..i : Piece(w, s[j], cut)
    BY <1>8, <1>13, <2>1, <2>3 DEF Keeps
  <2> QED
    BY <1>3, <2>1, <2>3, <2>4, <2>5 DEF Cut
<1>14. ASSUME NEW q, NEW v, Splits(acc, d, r, cut, q, v) PROVE Cut(cut, s, i, d)
  <2>1. /\ Piece(q, r, cut) /\ Piece(v, r, cut) /\ ~Touches(q, v)
        /\ d.kept = Append(K, q) /\ d.toAdd = Append(T, v)
    BY <1>14 DEF Splits
  <2>2. /\ q \in CacheRange /\ \A w \in ToSet(K) \cup ToSet(T) : ~Touches(w, q)
        /\ v \in CacheRange /\ \A w \in ToSet(K) \cup ToSet(T) : ~Touches(w, v)
    BY <1>5, <1>7, <2>1
  <2>3. ArrayOK(d.kept) /\ ToSet(d.kept) = ToSet(K) \cup {q}
    BY <1>3, <1>6, <2>1, <2>2, AppendApart
  <2>4. ArrayOK(d.toAdd) /\ ToSet(d.toAdd) = ToSet(T) \cup {v}
    BY <1>3, <1>6, <2>1, <2>2, AppendApart
  <2>5. ASSUME NEW a \in DOMAIN d.kept, NEW b \in DOMAIN d.toAdd
        PROVE  ~Touches(d.kept[a], d.toAdd[b])
    <3>1. /\ d.kept[a] \in ToSet(K) \cup {q} /\ d.kept[a] \in CacheRange
          /\ d.toAdd[b] \in ToSet(T) \cup {v} /\ d.toAdd[b] \in CacheRange
      BY <2>3, <2>4, ArrayFacts
    <3>2. CASE d.kept[a] = q /\ d.toAdd[b] = v
      BY <2>1, <3>2
    <3>3. CASE d.kept[a] = q /\ d.toAdd[b] \in ToSet(T)
      BY <1>11, <2>2, <3>1, <3>3
    <3>4. CASE d.kept[a] \in ToSet(K) /\ d.toAdd[b] = v
      BY <2>2, <3>4
    <3>5. CASE d.kept[a] \in ToSet(K) /\ d.toAdd[b] \in ToSet(T)
      <4>1. PICK c \in DOMAIN K : d.kept[a] = K[c]
        BY <3>5 DEF ToSet
      <4>2. PICK e \in DOMAIN T : d.toAdd[b] = T[e]
        BY <3>5 DEF ToSet
      <4> QED
        BY <1>9, <4>1, <4>2
    <3> QED
      BY <3>1, <3>2, <3>3, <3>4, <3>5
  <2>6. \A w : w \in ToSet(d.kept) \cup ToSet(d.toAdd) <=> \E j \in 1..i : Piece(w, s[j], cut)
    BY <1>8, <1>14, <2>3, <2>4 DEF Splits
  <2> QED
    BY <2>3, <2>4, <2>5, <2>6 DEF Cut
<1> QED
  BY <1>10, <1>12, <1>13, <1>14 DEF d

LEMMA RemoveIsWithout ==
  ASSUME NEW s, ArrayOK(s), NEW cut \in CacheRange
  PROVE  ArrayOK(ArrayRemove(s, cut)) /\ ToSet(ArrayRemove(s, cut)) = Without(ToSet(s), cut)
<1> DEFINE n == Len(s)
           l == RemoveLoop(cut)
           e == [kept |-> <<>>, toAdd |-> <<>>]
           done == EditAll(cut, e, s)
<1>1. /\ n \in Nat /\ DOMAIN s = 1..n
      /\ ToSet(s) = {s[j] : j \in 1..n}
  BY ArrayFacts
<1>2. PICK h : Runs(l, h, e, s, n) /\ h[n] = done
  BY <1>1, RemoveRun
<1>3. Cut(cut, s, 0, e)
  <2>1. e.kept = <<>> /\ e.toAdd = <<>> /\ DOMAIN <<>> = {} /\ 1..0 = {}
    OBVIOUS
  <2>2. ArrayOK(<<>>) /\ ToSet(<<>>) = {}
    BY DEF ArrayOK, ToSet
  <2> HIDE DEF e
  <2> QED
    BY <2>1, <2>2 DEF Cut
<1>4. \A a, x : Turn(l, a, x) = Edit(cut, a, x)
  BY Turns
<1>5. ArrayRemove(s, cut) = done.kept \o done.toAdd
  BY DEF ArrayRemove, EditAll
<1> HIDE DEF e, done, n, l
<1> DEFINE G == {i \in 0..n : Cut(cut, s, i, h[i])}
<1>6. 0 \in G
  BY <1>1, <1>2, <1>3 DEF Runs
<1>7. ASSUME NEW i \in 1..n, i - 1 \in G PROVE i \in G
  <2>1. h[i] = Edit(cut, h[i - 1], s[i])
    BY <1>2, <1>4 DEF Runs
  <2>2. Cut(cut, s, i - 1, h[i - 1])
    BY <1>7
  <2>3. Cut(cut, s, i, h[i])
    BY <2>1, <2>2, EditCuts DEF n
  <2> QED
    BY <1>1, <2>3
<1> HIDE DEF G
<1>8. n \in G
  BY <1>1, <1>6, <1>7, Upwards
<1>9. Cut(cut, s, n, done)
  BY <1>2, <1>8 DEF G
<1> DEFINE c == done.kept \o done.toAdd
<1>10. ArrayOK(c) /\ ToSet(c) = ToSet(done.kept) \cup ToSet(done.toAdd)
  BY <1>9, ConcatApart DEF Cut
<1> HIDE DEF c
<1>11. \A w : w \in ToSet(c) <=> \E r \in ToSet(s) : Piece(w, r, cut)
  BY <1>1, <1>9, <1>10 DEF Cut
<1>12. \A w : w \in Without(ToSet(s), cut) <=> \E r \in ToSet(s) : Piece(w, r, cut)
  BY WithoutPieces
<1>13. ToSet(c) = Without(ToSet(s), cut)
  BY <1>11, <1>12
<1> QED
  BY <1>5, <1>10, <1>13 DEF c

----------------------------------------------------------------------------
(* The loops of the readers.                                               *)

(* The ranges so far, and p in front of the first byte they leave out: all *)
(* before p is cached, and p is behind them or, once found, in no range.   *)
Passed(t, i, acc) ==
  /\ acc.p \in 0 .. LastByte + 1
  /\ \A x \in 0 .. acc.p - 1 : \E j \in DOMAIN t : x \in t[j].start .. t[j].end
  /\ ~acc.found => \A j \in 1..i : t[j].end < acc.p
  /\ acc.found => \A j \in DOMAIN t : acc.p \notin t[j].start .. t[j].end

LEMMA PassPasses ==
  ASSUME NEW t, ArrayOK(t), NEW i \in 1..Len(t), NEW acc, acc.found \in BOOLEAN,
         \A j, k \in 1..Len(t) : j < k => t[j].start <= t[k].start,
         Passed(t, i - 1, acc)
  PROVE  Pass(acc, t[i]).found \in BOOLEAN /\ Passed(t, i, Pass(acc, t[i]))
<1> USE LastByteAssumption
<1> DEFINE r == t[i]
           d == Pass(acc, r)
           next == Max({acc.p, r.end + 1})
<1>1. /\ Len(t) \in Nat /\ DOMAIN t = 1..Len(t)
      /\ \A j \in 1..Len(t) : t[j] \in CacheRange
  BY ArrayFacts
<1>2. \A j \in 1..Len(t) : t[j].start \in Nat /\ t[j].end \in 0 .. LastByte /\ t[j].start <= t[j].end
  BY <1>1 DEF CacheRange, Offset
<1>3. r.start \in Nat /\ r.end \in 0 .. LastByte /\ r.start <= r.end
  BY <1>2
<1>4. /\ \A j \in 1..(i - 1) : j \in 1..Len(t)
      /\ \A j \in 1..i : j = i \/ j \in 1..(i - 1)
      /\ \A j \in 1..Len(t) : j \in 1..(i - 1) \/ j = i \/ i < j
  BY <1>1
<1>5. acc.p \in Nat /\ acc.p <= LastByte + 1
  BY DEF Passed
<1>6. CASE acc.found \/ acc.p < r.start
  <2>1. d.p = acc.p /\ d.found = TRUE
    BY <1>6 DEF Pass
  <2>2. ASSUME NEW j \in DOMAIN t PROVE acc.p \notin t[j].start .. t[j].end
    <3>1. CASE acc.found
      BY <3>1 DEF Passed
    <3>2. CASE ~acc.found
      <4>1. acc.p < r.start
        BY <1>6, <3>2
      <4>2. CASE j \in 1..(i - 1)
        <5>1. t[j].end < acc.p
          BY <3>2, <4>2 DEF Passed
        <5> QED
          BY <1>1, <1>2, <1>5, <5>1
      <4>3. CASE j = i
        BY <1>3, <1>5, <4>1, <4>3
      <4>4. CASE i < j
        <5>1. r.start <= t[j].start
          BY <1>1, <4>4
        <5> QED
          BY <1>1, <1>2, <1>3, <1>5, <4>1, <5>1
      <4> QED
        BY <1>1, <1>4, <4>2, <4>3, <4>4
    <3> QED
      BY <3>1, <3>2
  <2> HIDE DEF d
  <2>3. Passed(t, i, d)
    BY <2>1, <2>2 DEF Passed
  <2> QED
    BY <2>1, <2>3 DEF d
<1>7. CASE ~acc.found /\ ~(acc.p < r.start)
  <2>1. d.p = next /\ d.found = FALSE
    BY <1>7 DEF Pass
  <2>2. next \in {acc.p, r.end + 1} /\ next >= acc.p /\ next >= r.end + 1
    <3>1. r.end + 1 \in Nat
      BY <1>3
    <3> QED
      BY <1>5, <3>1, MaxOfTwo
  <2> HIDE DEF d, next
  <2>3. next \in 0 .. LastByte + 1
    BY <1>3, <1>5, <2>2
  <2>4. ASSUME NEW x \in 0 .. next - 1
        PROVE  \E j \in DOMAIN t : x \in t[j].start .. t[j].end
    <3>1. CASE x < acc.p
      <4>1. x \in 0 .. acc.p - 1
        BY <1>5, <2>3, <3>1
      <4> QED
        BY <4>1 DEF Passed
    <3>2. CASE ~(x < acc.p)
      <4>1. x \in r.start .. r.end
        BY <1>3, <1>5, <1>7, <2>2, <2>3, <3>2
      <4> QED
        BY <1>1, <4>1
    <3> QED
      BY <3>1, <3>2
  <2>5. ASSUME NEW j \in 1..i PROVE t[j].end < next
    <3>1. CASE j = i
      BY <1>3, <2>2, <2>3, <3>1
    <3>2. CASE j \in 1..(i - 1)
      <4>1. t[j].end < acc.p
        BY <1>7, <3>2 DEF Passed
      <4>2. t[j].end \in 0 .. LastByte
        BY <1>2, <1>4, <3>2
      <4> QED
        BY <1>5, <2>2, <2>3, <4>1, <4>2
    <3> QED
      BY <1>4, <3>1, <3>2
  <2>6. Passed(t, i, d)
    BY <2>1, <2>3, <2>4, <2>5 DEF Passed
  <2> QED
    BY <2>1, <2>6 DEF d
<1> QED
  BY <1>6, <1>7

LEMMA FirstGapIsNextMissing ==
  ASSUME NEW s, ArrayOK(s)
  PROVE  FirstGap(s) = NextMissing(ToSet(s))
<1> USE LastByteAssumption
<1> DEFINE t == Sorted(s)
           n == Len(s)
           e == [p |-> 0, found |-> FALSE]
           done == FoldLeft(Pass, e, t)
<1>1. /\ ArrayOK(t) /\ Len(t) = n /\ ToSet(t) = ToSet(s)
      /\ \A i, j \in 1..n : i < j => t[i].start <= t[j].start
  BY SortedFacts
<1> HIDE DEF t
<1>2. /\ n \in Nat /\ DOMAIN t = 1..n /\ ToSet(t) = {t[i] : i \in 1..n}
      /\ \A j \in 1..n : t[j] \in CacheRange
  BY <1>1, ArrayFacts
<1>3. PICK h : Runs(GapLoop, h, e, t, n) /\ h[n] = done
  BY <1>2, GapRun
<1>4. e.found = FALSE /\ Passed(t, 0, e)
  <2>1. e.p = 0 /\ e.found = FALSE
    OBVIOUS
  <2> HIDE DEF e
  <2>2. 0 .. e.p - 1 = {} /\ 1..0 = {} /\ 0 \in 0 .. LastByte + 1
    BY <2>1
  <2> QED
    BY <2>1, <2>2 DEF Passed
<1>5. FirstGap(s) = done.p
  BY DEF FirstGap, t
<1> HIDE DEF e, done, n
<1> DEFINE G == {i \in 0..n : h[i].found \in BOOLEAN /\ Passed(t, i, h[i])}
<1>6. 0 \in G
  <2>1. h[0] = e /\ 0 \in 0..n
    BY <1>2, <1>3 DEF Runs
  <2>2. h[0].found \in BOOLEAN /\ Passed(t, 0, h[0])
    BY <1>4, <2>1
  <2> QED
    BY <2>1, <2>2
<1>7. ASSUME NEW i \in 1..n, i - 1 \in G PROVE i \in G
  <2>1. h[i] = Pass(h[i - 1], t[i])
    BY <1>3, Turns DEF Runs
  <2>2. h[i - 1].found \in BOOLEAN /\ Passed(t, i - 1, h[i - 1])
    BY <1>7
  <2>3. h[i].found \in BOOLEAN /\ Passed(t, i, h[i])
    BY <1>1, <2>1, <2>2, PassPasses
  <2> QED
    BY <1>2, <2>3
<1> HIDE DEF G
<1>8. n \in G
  BY <1>2, <1>6, <1>7, Upwards
<1>9. done.found \in BOOLEAN /\ Passed(t, n, done)
  BY <1>3, <1>8 DEF G
<1> DEFINE p == done.p
           Missing == (0 .. LastByte + 1) \ Bytes(ToSet(s))
<1>10. \A x : x \in Bytes(ToSet(s)) <=> \E j \in 1..n : x \in t[j].start .. t[j].end
  <2>1. \A x : x \in Bytes(ToSet(s)) <=> \E r \in ToSet(s) : x \in r.start .. r.end
    BY InBytes
  <2> QED
    BY <1>1, <1>2, <2>1
<1>11. p \in 0 .. LastByte + 1 /\ \A x \in 0 .. p - 1 : x \in Bytes(ToSet(s))
  BY <1>2, <1>9, <1>10 DEF Passed
<1>12. p \notin Bytes(ToSet(s))
  <2>1. CASE done.found
    BY <1>2, <1>9, <1>10, <2>1 DEF Passed
  <2>2. CASE ~done.found
    <3>1. \A j \in 1..n : t[j].end < p
      BY <1>9, <2>2 DEF Passed
    <3>2. \A j \in 1..n : t[j].end \in Nat /\ t[j].start \in Nat
      BY <1>2 DEF CacheRange, Offset
    <3>3. \A j \in 1..n : p \notin t[j].start .. t[j].end
      BY <1>11, <3>1, <3>2
    <3> QED
      BY <1>10, <3>3
  <2> QED
    BY <2>1, <2>2
<1>13. p \in Missing /\ \A y \in Missing : p <= y
  <2>1. ASSUME NEW y \in Missing PROVE p <= y
    <3>1. y \in 0 .. LastByte + 1 /\ y \notin 0 .. p - 1
      BY <1>11
    <3> QED
      BY <1>11, <3>1
  <2> QED
    BY <1>11, <1>12, <2>1
<1>14. Min(Missing) \in Missing /\ \A y \in Missing : Min(Missing) <= y
  <2>1. Missing \subseteq Nat
    OBVIOUS
  <2> HIDE DEF Missing
  <2> QED
    BY <1>13, <2>1, MinProperties
<1>15. Min(Missing) = p
  <2>1. Min(Missing) <= p /\ p <= Min(Missing)
    BY <1>13, <1>14
  <2>2. Min(Missing) \in Nat /\ p \in Nat
    BY <1>11, <1>14
  <2> HIDE DEF Missing, p
  <2> QED
    BY <2>1, <2>2
<1> QED
  BY <1>5, <1>15 DEF NextMissing

(* The loop of cachedTotalLength has counted the bytes of the ranges so    *)
(* far.                                                                    *)
LEMMA ArrayLengthIsCachedLength ==
  ASSUME NEW s, ArrayOK(s)
  PROVE  ArrayLength(s) = CachedLength(ToSet(s))
<1> USE LastByteAssumption
<1> DEFINE n == Len(s)
           Upto(i) == {s[j] : j \in 1..i}
           done == FoldLeft(Count, 0, s)
<1>1. /\ n \in Nat /\ DOMAIN s = 1..n
      /\ \A i \in 1..n : s[i] \in CacheRange
      /\ \A i, j \in 1..n : s[i] = s[j] => i = j
      /\ ToSet(s) = Upto(n)
      /\ ToSet(s) \subseteq CacheRange /\ Separated(ToSet(s))
  BY ArrayFacts
<1>2. PICK h : Runs(LengthLoop, h, 0, s, n) /\ h[n] = done
  BY <1>1, LengthRun
<1>3. ArrayLength(s) = done
  BY DEF ArrayLength
<1> HIDE DEF done, n
<1> DEFINE G == {i \in 0..n : h[i] = Cardinality(Bytes(Upto(i)))}
<1>4. 0 \in G
  <2>1. Upto(0) = {}
    OBVIOUS
  <2>2. Bytes({}) = {}
    BY DEF Bytes
  <2>3. Cardinality(Bytes(Upto(0))) = 0
    BY <2>1, <2>2, FS_EmptySet
  <2>4. h[0] = 0 /\ 0 \in 0..n
    BY <1>1, <1>2 DEF Runs
  <2> QED
    BY <2>3, <2>4
<1>5. ASSUME NEW i \in 1..n, i - 1 \in G PROVE i \in G
  <2>1. h[i] = h[i - 1] + (s[i].end - s[i].start + 1)
    BY <1>2, Turns DEF Runs, Count
  <2>2. /\ Upto(i) \subseteq CacheRange /\ s[i] \in Upto(i)
        /\ Upto(i) \subseteq ToSet(s) /\ Upto(i) \ {s[i]} = Upto(i - 1)
    <3>1. /\ \A j \in 1..i : j \in 1..n
          /\ \A j \in 1..i : j = i \/ j \in 1..(i - 1)
          /\ \A j \in 1..(i - 1) : j \in 1..i /\ j # i
          /\ i \in 1..i
      BY <1>1
    <3> QED
      BY <1>1, <3>1
  <2>3. Separated(Upto(i))
    BY <1>1, <2>2 DEF Separated
  <2> HIDE DEF Upto
  <2>4. Cardinality(Bytes(Upto(i))) = s[i].end - s[i].start + 1 + Cardinality(Bytes(Upto(i - 1)))
    BY <2>2, <2>3, BytesOfOneMore
  <2>5. h[i - 1] = Cardinality(Bytes(Upto(i - 1)))
    BY <1>5
  <2>6. Cardinality(Bytes(Upto(i - 1))) \in Nat
    BY <2>2, RangesFinite
  <2>7. s[i].start \in Nat /\ s[i].end \in Nat
    BY <1>1 DEF CacheRange, Offset
  <2>8. h[i] = Cardinality(Bytes(Upto(i)))
    BY <2>1, <2>4, <2>5, <2>6, <2>7
  <2> QED
    BY <1>1, <2>8
<1> HIDE DEF G
<1>6. n \in G
  BY <1>1, <1>4, <1>5, Upwards
<1>7. done = Cardinality(Bytes(ToSet(s)))
  BY <1>1, <1>2, <1>6 DEF G
<1> QED
  BY <1>1, <1>3, <1>7, CachedLengthCounts

----------------------------------------------------------------------------
(* The array in all its lives.  The inductive invariant says that its      *)
(* ranges are apart, whatever their order; all else is the work of single  *)
(* loops.                                                                  *)
ArrayInv == ArrayOK(ranges)

LEMMA ArrayInitially == ArrayInit => ArrayInv
BY DEF ArrayInit, ArrayInv, ArrayOK

LEMMA ArrayStep == ArrayInv /\ [ArrayNext]_ranges => ArrayInv'
<1> SUFFICES ASSUME ArrayInv, [ArrayNext]_ranges PROVE ArrayInv'
  OBVIOUS
<1>1. CASE Clear
  BY <1>1 DEF Clear, ArrayInv, ArrayOK
<1>2. ASSUME NEW c \in Call, AddRange(c) PROVE ArrayInv'
  BY <1>2, RangeOfType, AddIsMerged DEF AddRange, ArrayInv
<1>3. ASSUME NEW c \in Call, RemoveRange(c) PROVE ArrayInv'
  BY <1>3, RangeOfType, RemoveIsWithout DEF RemoveRange, ArrayInv
<1>4. CASE UNCHANGED ranges
  BY <1>4 DEF ArrayInv
<1> QED
  BY <1>1, <1>2, <1>3, <1>4 DEF ArrayNext

(* The array never holds a range twice, and on every array that calls can  *)
(* leave the readers' loops answer what the set of its ranges says.        *)
THEOREM ReadersAgreeAlways == ArraySpec => []ReadersAgree
<1>1. ArrayInv => ReadersAgree
  BY ArrayFacts, FirstGapIsNextMissing, ArrayLengthIsCachedLength DEF ArrayInv, ReadersAgree
<1> QED
  BY <1>1, ArrayInitially, ArrayStep, PTL DEF ArraySpec

(* The two modules' operators are the same. *)
LEMMA SameSetOperators ==
  /\ SetIndex!Call = Call
  /\ \A s, n : SetIndex!RangeOf(s, n) = RangeOf(s, n)
  /\ \A a, b : SetIndex!Overlaps(a, b) <=> Overlaps(a, b)
  /\ \A R, r : SetIndex!Merged(R, r) = Merged(R, r)
  /\ \A R, r : SetIndex!Without(R, r) = Without(R, r)
<1>1. SetIndex!Call = Call
  BY DEF SetIndex!Call, Call, SetIndex!Offset, Offset
<1>2. \A s, n : SetIndex!RangeOf(s, n) = RangeOf(s, n)
  BY DEF SetIndex!RangeOf, RangeOf
<1>3. \A a, b : (SetIndex!Overlaps(a, b) <=> Overlaps(a, b))
                /\ (SetIndex!Touches(a, b) <=> Touches(a, b))
  BY DEF SetIndex!Overlaps, Overlaps, SetIndex!Touches, Touches
<1>4. \A S : SetIndex!Min(S) = Min(S) /\ SetIndex!Max(S) = Max(S)
  BY DEF SetIndex!Min, Min, SetIndex!Max, Max
<1>5. \A R, r : SetIndex!Merged(R, r) = Merged(R, r)
  BY <1>3, <1>4 DEF SetIndex!Merged, Merged
<1>6. \A R, r : SetIndex!Without(R, r) = Without(R, r)
  BY <1>3 DEF SetIndex!Without, Without
<1> QED
  BY <1>1, <1>2, <1>3, <1>5, <1>6

(* Each loop over the array is one operation of the index. *)
LEMMA ArrayStepSeen == ArrayInv /\ [ArrayNext]_ranges => [SetIndex!Next]_(SetIndex!vars)
<1> SUFFICES ASSUME ArrayInv, [ArrayNext]_ranges PROVE [SetIndex!Next]_(SetIndex!vars)
  OBVIOUS
<1>1. \A S, T : [[k \in {Song} |-> S] EXCEPT ![Song] = T] = [k \in {Song} |-> T]
  OBVIOUS
<1>2. CASE Clear
  <2>1. ToSet(ranges') = {}
    BY <1>2 DEF Clear, ToSet
  <2>2. SetIndex!ClearForKey(Song)
    BY <1>1, <2>1 DEF SetIndex!ClearForKey
  <2> QED
    BY <2>2 DEF SetIndex!Next
<1>3. ASSUME NEW c \in Call, AddRange(c) PROVE SetIndex!Next
  <2>1. ToSet(ranges') = Merged(ToSet(ranges), RangeOf(c.start, c.length)) /\ c.length > 0
    BY <1>3, RangeOfType, AddIsMerged DEF AddRange, ArrayInv
  <2>2. SetIndex!AddRangeForKey(Song, c.start, c.length)
    BY <1>1, <2>1, SameSetOperators DEF SetIndex!AddRangeForKey
  <2> QED
    BY <2>2, SameSetOperators DEF SetIndex!Next
<1>4. ASSUME NEW c \in Call, RemoveRange(c) PROVE SetIndex!Next
  <2>1. ToSet(ranges') = Without(ToSet(ranges), RangeOf(c.start, c.length)) /\ c.length > 0
    BY <1>4, RangeOfType, RemoveIsWithout DEF RemoveRange, ArrayInv
  <2>2. SetIndex!RemoveRangeForKey(Song, c.start, c.length)
    BY <1>1, <2>1, SameSetOperators DEF SetIndex!RemoveRangeForKey
  <2> QED
    BY <2>2, SameSetOperators DEF SetIndex!Next
<1>5. CASE UNCHANGED ranges
  BY <1>5 DEF SetIndex!vars
<1> QED
  BY <1>2, <1>3, <1>4, <1>5 DEF ArrayNext

LEMMA ArrayInitSeen == ArrayInit => SetIndex!Init
BY DEF ArrayInit, SetIndex!Init, ToSet

(* The loops over the array implement the operations on sets of ranges.    *)
THEOREM ArraysImplementIndex == ArraySpec => SetIndexSpec
BY ArrayInitially, ArrayStep, ArrayInitSeen, ArrayStepSeen, PTL
   DEF ArraySpec, SetIndexSpec, SetIndex!Spec

(* What is proved of the atomic index, of the set of the array's ranges.   *)
SetFacts == INSTANCE LZCacheIndex_proofs
              WITH Keys <- {Song}, Unknown <- NoLength,
                   map <- [k \in {Song} |-> ToSet(ranges)],
                   loadingMap <- [k \in {Song} |-> {}],
                   totalMap <- [k \in {Song} |-> NoLength]

(* Its operators, too, are those of this module,                           *)
LEMMA SetFactsOperators ==
  /\ SetFacts!Call = Call
  /\ \A s, n : SetFacts!RangeOf(s, n) = RangeOf(s, n)
  /\ \A a, b : SetFacts!Overlaps(a, b) <=> Overlaps(a, b)
  /\ \A R, r : SetFacts!Merged(R, r) = Merged(R, r)
  /\ \A R, r : SetFacts!Without(R, r) = Without(R, r)
<1>1. SetFacts!Call = Call
  BY DEF SetFacts!Call, Call, SetFacts!Offset, Offset
<1>2. \A s, n : SetFacts!RangeOf(s, n) = RangeOf(s, n)
  BY DEF SetFacts!RangeOf, RangeOf
<1>3. \A a, b : (SetFacts!Overlaps(a, b) <=> Overlaps(a, b))
                /\ (SetFacts!Touches(a, b) <=> Touches(a, b))
  BY DEF SetFacts!Overlaps, Overlaps, SetFacts!Touches, Touches
<1>4. \A S : SetFacts!Min(S) = Min(S) /\ SetFacts!Max(S) = Max(S)
  BY DEF SetFacts!Min, Min, SetFacts!Max, Max
<1>5. \A R, r : SetFacts!Merged(R, r) = Merged(R, r)
  BY <1>3, <1>4 DEF SetFacts!Merged, Merged
<1>6. \A R, r : SetFacts!Without(R, r) = Without(R, r)
  BY <1>3 DEF SetFacts!Without, Without
<1> QED
  BY <1>1, <1>2, <1>3, <1>5, <1>6

(* hence its steps are those of the instance SetIndex.                     *)
LEMMA SetFactsSteps ==
  /\ SetIndex!Init => SetFacts!Init
  /\ [SetIndex!Next]_(SetIndex!vars) => [SetFacts!Next]_(SetFacts!vars)
<1>1. SetIndex!Init => SetFacts!Init
  BY DEF SetIndex!Init, SetFacts!Init
<1>2. \A k, s, n : SetIndex!IsRangeLoadingForKey(k, s, n) <=> SetFacts!IsRangeLoadingForKey(k, s, n)
  BY SameSetOperators, SetFactsOperators DEF SetIndex!IsRangeLoadingForKey, SetFacts!IsRangeLoadingForKey
<1>3. ASSUME NEW k \in {Song}, NEW c \in Call,
             SetIndex!MarkRangeLoadingForKey(k, c.start, c.length)
      PROVE  SetFacts!MarkRangeLoadingForKey(k, c.start, c.length)
  BY <1>2, <1>3, SameSetOperators, SetFactsOperators
     DEF SetIndex!MarkRangeLoadingForKey, SetFacts!MarkRangeLoadingForKey
<1>4. ASSUME NEW k \in {Song}, NEW c \in Call,
             SetIndex!UnmarkRangeLoadingForKey(k, c.start, c.length)
      PROVE  SetFacts!UnmarkRangeLoadingForKey(k, c.start, c.length)
  BY <1>4, SameSetOperators, SetFactsOperators
     DEF SetIndex!UnmarkRangeLoadingForKey, SetFacts!UnmarkRangeLoadingForKey
<1>5. ASSUME NEW k \in {Song}, NEW c \in Call,
             SetIndex!AddRangeForKey(k, c.start, c.length)
      PROVE  SetFacts!AddRangeForKey(k, c.start, c.length)
  BY <1>5, SameSetOperators, SetFactsOperators DEF SetIndex!AddRangeForKey, SetFacts!AddRangeForKey
<1>6. ASSUME NEW k \in {Song}, NEW c \in Call,
             SetIndex!RemoveRangeForKey(k, c.start, c.length)
      PROVE  SetFacts!RemoveRangeForKey(k, c.start, c.length)
  BY <1>6, SameSetOperators, SetFactsOperators DEF SetIndex!RemoveRangeForKey, SetFacts!RemoveRangeForKey
<1>7. ASSUME NEW k \in {Song}, NEW n, SetIndex!SetTotalLength(k, n)
      PROVE  SetFacts!SetTotalLength(k, n)
  BY <1>7 DEF SetIndex!SetTotalLength, SetFacts!SetTotalLength
<1>8. ASSUME NEW k \in {Song}, SetIndex!ClearForKey(k) PROVE SetFacts!ClearForKey(k)
  BY <1>8 DEF SetIndex!ClearForKey, SetFacts!ClearForKey
<1>9. ASSUME SetIndex!Next PROVE SetFacts!Next
  BY <1>3, <1>4, <1>5, <1>6, <1>7, <1>8, <1>9, SameSetOperators, SetFactsOperators
     DEF SetIndex!Next, SetFacts!Next
<1>10. SetIndex!vars = SetFacts!vars
  BY DEF SetIndex!vars, SetFacts!vars
<1>11. UNCHANGED SetIndex!vars => UNCHANGED SetFacts!vars
  BY DEF SetIndex!vars, SetFacts!vars
<1> QED
  BY <1>1, <1>9, <1>11

(* The loops over the array do to the bytes what LZCacheIndex.h promises:  *)
(* an add adds the bytes of its range and no others, a removal removes     *)
(* them, in whatever order the ranges lie in the array.                    *)
THEOREM ArraysImplementBytes == ArraySpec => SetFacts!CachedBytesSpec
<1>1. SetFacts!Spec => SetFacts!CachedBytesSpec
  BY SetFacts!IndexRefinesBytes, LastByteAssumption, NoLengthAssumption
<1>2. ArraySpec => SetIndex!Spec
  BY ArraysImplementIndex DEF SetIndexSpec
<1>3. SetIndex!Spec => SetFacts!Spec
  BY SetFactsSteps, PTL DEF SetIndex!Spec, SetFacts!Spec
<1> QED
  BY <1>1, <1>2, <1>3
=============================================================================
