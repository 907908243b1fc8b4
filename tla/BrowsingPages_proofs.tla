------------------------ MODULE BrowsingPages_proofs ------------------------
(***************************************************************************)
(* What the pages show, for any size of page, playlist, thread of comments *)
(* and set of keywords: the rows of a playlist are its songs in order, the *)
(* comments are the server's in order, and no search is for a word typed   *)
(* over.  The invariant of each page is proved for its own steps; a step   *)
(* of one page leaves the others alone.                                    *)
(***************************************************************************)
EXTENDS BrowsingPages, TLAPS

----------------------------------------------------------------------------
(* The page of a playlist. *)

(* At most one slice is on its way, and it is the next one. *)
OneSlice ==
  /\ slices = (IF listLoading THEN <<List!NextSlice>> ELSE <<>>)
  /\ listLoading => currentIndex < allTrackIds

(* Before the playlist's detail there is nothing. *)
NothingYet == detailPending => allTrackIds = 0 /\ listed = <<>> /\ currentIndex = 0

ListInv == List!TypeOK /\ OneSlice /\ NothingYet /\ withheld \subseteq 1..currentIndex /\ List!SongsInOrder

(* The run of songs from a to b, element by element. *)
LEMMA RunElements ==
  ASSUME NEW a \in Nat \ {0}, NEW b \in Nat, a <= b + 1
  PROVE  /\ List!Run(a, b) \in Seq(a..b)
         /\ Len(List!Run(a, b)) = b + 1 - a
         /\ \A i \in 1..(b + 1 - a) : List!Run(a, b)[i] = a + i - 1
         /\ \A x \in a..b : x + 1 - a \in 1..(b + 1 - a)
BY DEF List!Run

(* The next slice lies between the index and the end of the playlist. *)
LEMMA NextSliceBounds ==
  ASSUME List!SongListAssumption, List!TypeOK, currentIndex < allTrackIds
  PROVE  /\ List!NextSlice \in [from : 1..allTrackIds, to : 1..allTrackIds]
         /\ List!NextSlice.from = currentIndex + 1
         /\ List!NextSlice.to \in List!NextSlice.from..allTrackIds
BY DEF List!SongListAssumption, List!TypeOK, List!NextSlice, List!AtMost

(* When a set is the range of a function, and what lies in it.             *)
LEMMA RangeIs ==
  ASSUME NEW f, NEW S, \A x \in DOMAIN f : f[x] \in S, \A y \in S : \E x \in DOMAIN f : f[x] = y
  PROVE  List!Range(f) = S
BY DEF List!Range

LEMMA RangeHas ==
  ASSUME NEW f, NEW x \in DOMAIN f
  PROVE  f[x] \in List!Range(f)
BY DEF List!Range

(* Songs in order, followed by a run of later songs, are songs in order. *)
Rising(s) == \A i, j \in DOMAIN s : i < j => s[i] < s[j]
Below(s, a) == \A i \in DOMAIN s : s[i] < a
Extends(t, s, a, b) == t = s \o List!Run(a, b)

LEMMA RunAppended ==
  ASSUME NEW s \in Seq(Nat), NEW a \in Nat \ {0}, NEW b \in Nat, a <= b + 1,
         NEW t, Extends(t, s, a, b), Rising(s), Below(s, a)
  PROVE  Rising(t) /\ List!Range(t) = List!Range(s) \cup (a..b)
PROOF
  <1> USE DEF Rising, Below, Extends
  <1>a. s \in Seq(Nat) /\ List!Run(a, b) \in Seq(Nat) /\ Len(s) \in Nat
    BY DEF List!Run
  <1>b. /\ t \in Seq(Nat)
        /\ Len(t) = Len(s) + Len(List!Run(a, b))
        /\ \A i \in 1..Len(s) : t[i] = s[i]
        /\ \A i \in 1..Len(List!Run(a, b)) : t[Len(s) + i] = List!Run(a, b)[i]
    BY <1>a
  <1>1. /\ Len(t) = Len(s) + (b + 1 - a)
        /\ \A i \in 1..Len(s) : t[i] = s[i]
        /\ \A i \in 1..(b + 1 - a) : t[Len(s) + i] = a + i - 1
        /\ DOMAIN t = 1..(Len(s) + (b + 1 - a))
        /\ DOMAIN s = 1..Len(s) /\ Len(s) \in Nat
    <2>1. Len(List!Run(a, b)) = b + 1 - a /\ \A i \in 1..(b + 1 - a) : List!Run(a, b)[i] = a + i - 1
      BY RunElements
    <2>2. DOMAIN t = 1..Len(t) /\ DOMAIN s = 1..Len(s) BY <1>a, <1>b
    <2> QED BY <1>a, <1>b, <2>1, <2>2
  <1>2. \A k \in DOMAIN t : k > Len(s) => k - Len(s) \in 1..(b + 1 - a) /\ t[k] = a + (k - Len(s)) - 1
    <2> TAKE k \in DOMAIN t
    <2> HAVE k > Len(s)
    <2>1. k - Len(s) \in 1..(b + 1 - a) /\ Len(s) + (k - Len(s)) = k BY <1>1
    <2> QED BY <1>1, <2>1
  <1>3. \A k \in DOMAIN t : k <= Len(s) => k \in DOMAIN s /\ t[k] = s[k] BY <1>1
  <1>4. \A i, j \in DOMAIN t : i < j => t[i] < t[j]
    <2> TAKE i, j \in DOMAIN t
    <2> HAVE i < j
    <2> i \in Nat /\ j \in Nat /\ Len(s) \in Nat BY <1>1
    <2>1. CASE j <= Len(s) BY <1>3, <2>1
    <2>2. CASE i <= Len(s) /\ j > Len(s)
      <3>1. i \in DOMAIN s /\ t[i] = s[i] /\ s[i] \in Nat BY <1>3, <2>2
      <3>2. t[j] \in Nat /\ t[j] >= a BY <1>2, <2>2
      <3>3. s[i] < a BY <3>1
      <3> QED BY <3>1, <3>2, <3>3
    <2>3. CASE i > Len(s)
      <3>1. j > Len(s) BY <2>3
      <3>2. t[i] = a + (i - Len(s)) - 1 BY <1>2, <2>3
      <3>3. t[j] = a + (j - Len(s)) - 1 BY <1>2, <3>1
      <3> QED BY <3>2, <3>3
    <2> QED BY <2>1, <2>2, <2>3
  <1>5. \A k \in DOMAIN t : t[k] \in List!Range(s) \cup (a..b)
    <2> TAKE k \in DOMAIN t
    <2>1. CASE k <= Len(s)
      <3>1. k \in DOMAIN s /\ t[k] = s[k] BY <1>3, <2>1
      <3> QED BY <3>1, RangeHas
    <2>2. CASE k > Len(s)
      <3>1. k \in Nat BY <1>1
      <3>2. k - Len(s) \in 1..(b + 1 - a) /\ t[k] = a + (k - Len(s)) - 1
        BY <1>2, <2>2
      <3>3. \A d \in 1..(b + 1 - a) : a + d - 1 \in a..b OBVIOUS
      <3>4. t[k] \in a..b BY <3>2, <3>3
      <3> QED BY <3>4
    <2> QED BY <1>1, <2>1, <2>2
  <1>6. \A x \in a..b : \E k \in DOMAIN t : t[k] = x
    <2> TAKE x \in a..b
    <2>1. x + 1 - a \in 1..(b + 1 - a) BY RunElements
    <2>2. Len(s) + (x + 1 - a) \in DOMAIN t BY <1>1, <2>1
    <2>3. t[Len(s) + (x + 1 - a)] = a + (x + 1 - a) - 1 BY <1>1, <2>1
    <2>4. a + (x + 1 - a) - 1 = x OBVIOUS
    <2> QED BY <2>2, <2>3, <2>4
  <1>7. \A x \in List!Range(s) : \E k \in DOMAIN t : t[k] = x
    <2> TAKE x \in List!Range(s)
    <2>1. PICK k \in DOMAIN s : s[k] = x BY DEF List!Range
    <2>2. k \in DOMAIN t /\ t[k] = s[k] BY <1>1
    <2> QED BY <2>1, <2>2
  <1>8. List!Range(t) = List!Range(s) \cup (a..b)
    <2>1. ASSUME NEW y \in List!Range(s) \cup (a..b) PROVE y \in List!Range(t)
      <3>1. PICK k \in DOMAIN t : t[k] = y BY <1>6, <1>7
      <3> QED BY <3>1, RangeHas
    <2>2. ASSUME NEW y \in List!Range(t) PROVE y \in List!Range(s) \cup (a..b)
      <3>1. PICK k \in DOMAIN t : t[k] = y BY DEF List!Range
      <3> QED BY <1>5, <3>1
    <2> QED BY <2>1, <2>2
  <1> QED BY <1>4, <1>8

(* The first state is good. *)
LEMMA ListInit == List!SongListAssumption /\ List!Init => ListInv
PROOF
  <1> SUFFICES ASSUME List!SongListAssumption, List!Init PROVE ListInv OBVIOUS
  <1>1. listed \in Seq(1..allTrackIds) BY DEF List!Init
  <1>2. slices \in Seq([from : 1..allTrackIds, to : 1..allTrackIds]) BY DEF List!Init
  <1>a. allTrackIds = 0 /\ currentIndex = 0 /\ withheld = {} /\ MaxTracks \in Nat
    BY DEF List!Init, List!SongListAssumption
  <1>b. detailPending \in BOOLEAN /\ listLoading \in BOOLEAN BY DEF List!Init
  <1>3. List!TypeOK BY <1>1, <1>2, <1>a, <1>b DEF List!TypeOK
  <1>4. DOMAIN listed = {} /\ 1..currentIndex = {} /\ withheld = {} BY DEF List!Init
  <1>c. List!Range(listed) = {} BY <1>4, RangeIs
  <1>5. List!SongsInOrder BY <1>4, <1>c DEF List!SongsInOrder
  <1>6. OneSlice /\ NothingYet BY DEF List!Init, OneSlice, NothingYet
  <1> QED BY <1>3, <1>4, <1>5, <1>6 DEF ListInv

(* The playlist's first songs are a run by themselves. *)
LEMMA HandleResponseInv ==
  ASSUME List!SongListAssumption, ListInv, List!HandleResponse
  PROVE  ListInv'
PROOF
  <1>a. PICK n \in 0..MaxTracks : \E k \in 0..n :
          listed' = List!Run(1, k) /\ allTrackIds' = n /\ currentIndex' = k
    BY DEF List!HandleResponse
  <1>b. PICK k \in 0..n :
          listed' = List!Run(1, k) /\ allTrackIds' = n /\ currentIndex' = k
    BY <1>a
  <1>2. listLoading = FALSE /\ slices = <<>> /\ withheld = {}
    BY DEF List!HandleResponse, ListInv, List!TypeOK, OneSlice, NothingYet
  <1>3. listed' \in Seq(1..n) BY <1>b DEF List!Run
  <1>4. DOMAIN listed' = 1..k /\ \A i \in 1..k : listed'[i] = i BY <1>b DEF List!Run
  <1>c. slices' \in Seq([from : 1..n, to : 1..n]) BY <1>2 DEF List!HandleResponse
  <1>5. List!TypeOK'
    BY <1>b, <1>2, <1>3, <1>c DEF List!HandleResponse, List!SongListAssumption, List!TypeOK
  <1>d. List!Range(listed') = 1..k BY <1>4, RangeIs
  <1>e. withheld' = {} BY <1>2 DEF List!HandleResponse
  <1>6. List!SongsInOrder'
    BY <1>b, <1>4, <1>d, <1>e DEF List!SongsInOrder
  <1> QED BY <1>2, <1>5, <1>6 DEF List!HandleResponse, ListInv, OneSlice, NothingYet

(* A slice is asked for only when none is on its way. *)
LEMMA LoadMoreInv ==
  ASSUME List!SongListAssumption, ListInv, List!LoadMoreSongs
  PROVE  ListInv'
PROOF
  <1>1. slices = <<>> BY DEF List!LoadMoreSongs, ListInv, OneSlice
  <1>2. slices' = <<List!NextSlice>> BY <1>1 DEF List!LoadMoreSongs
  <1>3. List!NextSlice \in [from : 1..allTrackIds, to : 1..allTrackIds]
    BY NextSliceBounds DEF ListInv, List!LoadMoreSongs
  <1>4. List!TypeOK' BY <1>2, <1>3 DEF List!LoadMoreSongs, ListInv, List!TypeOK
  <1>5. OneSlice' BY <1>2 DEF List!LoadMoreSongs, OneSlice, List!NextSlice
  <1> QED BY <1>4, <1>5 DEF List!LoadMoreSongs, ListInv, NothingYet, List!SongsInOrder

(* The answer is that of the one slice asked for, which begins where the   *)
(* rows end.                                                               *)
LEMMA SongsArrivedInv ==
  ASSUME List!SongListAssumption, ListInv, NEW i \in DOMAIN slices, List!SongsArrived(i)
  PROVE  ListInv'
PROOF
  <1> DEFINE from == currentIndex + 1
             to == List!NextSlice.to
  <1>1. listLoading /\ slices = <<List!NextSlice>> /\ i = 1 /\ currentIndex < allTrackIds
    BY DEF ListInv, OneSlice, List!TypeOK
  <1>2. List!NextSlice.from = from /\ to \in from..allTrackIds /\ from \in Nat \ {0} /\ to \in Nat
    BY <1>1, NextSliceBounds DEF ListInv, List!TypeOK, List!SongListAssumption
  <1>3. slices[i] = List!NextSlice BY <1>1
  <1> HIDE DEF to
  <1>4. PICK a \in from..to : \E b \in (a - 1)..to :
          /\ listed' = listed \o List!Run(a, b)
          /\ currentIndex' = currentIndex + (to + 1 - from)
          /\ withheld' = withheld \cup ((from..to) \ (a..b))
    BY <1>2, <1>3 DEF List!SongsArrived, to
  <1>4b. PICK b \in (a - 1)..to :
          /\ listed' = listed \o List!Run(a, b)
          /\ currentIndex' = currentIndex + (to + 1 - from)
          /\ withheld' = withheld \cup ((from..to) \ (a..b))
    BY <1>4
  <1>5. slices' = <<>> /\ listLoading' = FALSE /\ UNCHANGED <<detailPending, allTrackIds>>
    BY <1>1 DEF List!SongsArrived, List!Without
  <1>6. a \in Nat \ {0} /\ b \in Nat /\ a <= b + 1 /\ currentIndex \in Nat
    BY <1>2 DEF ListInv, List!TypeOK
  <1>7. currentIndex' = to BY <1>2, <1>4b, <1>6
  <1>8. listed \in Seq(1..allTrackIds) /\ allTrackIds \in Nat
    BY DEF ListInv, List!TypeOK, List!SongListAssumption
  <1>9. \A j \in DOMAIN listed : listed[j] \in 1..currentIndex
    BY RangeHas DEF ListInv, List!SongsInOrder
  <1>10. \A j \in DOMAIN listed : listed[j] < a
    BY <1>6, <1>9
  <1>11. /\ \A j, k \in DOMAIN listed' : j < k => listed'[j] < listed'[k]
         /\ List!Range(listed') = List!Range(listed) \cup (a..b)
    <2>1. Rising(listed) /\ Below(listed, a)
      BY <1>10 DEF ListInv, List!SongsInOrder, Rising, Below
    <2>2. listed' = listed \o List!Run(a, b) BY <1>4b
    <2>3. listed \in Seq(Nat) BY <1>8
    <2> DEFINE t == listed'
    <2>4. Extends(t, listed, a, b) BY <2>2 DEF Extends
    <2> HIDE DEF t
    <2>5. Rising(t) /\ List!Range(t) = List!Range(listed) \cup (a..b)
      BY <1>6, <2>1, <2>3, <2>4, RunAppended
    <2> QED BY <2>5 DEF t, Rising
  <1>12. listed' \in Seq(1..allTrackIds)
    <2>1. b <= allTrackIds BY <1>2, <1>8
    <2>2. \A j \in 1..(b + 1 - a) : a + j - 1 \in 1..allTrackIds BY <1>6, <1>8, <2>1
    <2>3. List!Run(a, b) \in Seq(1..allTrackIds) BY <1>6, <2>2 DEF List!Run
    <2> QED BY <1>4b, <1>8, <2>3
  <1>13. withheld \subseteq 1..currentIndex BY DEF ListInv
  <1>14. List!Range(listed') = (1..to) \ withheld'
    <2>1. List!Range(listed) = (1..currentIndex) \ withheld
      BY DEF ListInv, List!SongsInOrder
    <2>2. 1..to = (1..currentIndex) \cup (from..to) BY <1>2, <1>6
    <2>3. (1..currentIndex) \cap (from..to) = {} BY <1>6
    <2>4. a..b \subseteq from..to BY <1>2, <1>6
    <2> QED BY <1>4b, <1>11, <1>13, <2>1, <2>2, <2>3, <2>4
  <1>15. withheld' \subseteq 1..to BY <1>2, <1>4b, <1>6, <1>13
  <1>17. slices' \in Seq([from : 1..allTrackIds, to : 1..allTrackIds]) BY <1>5
  <1>18. to \in 0..allTrackIds /\ withheld' \subseteq 1..allTrackIds BY <1>2, <1>6, <1>8, <1>15
  <1>16. List!TypeOK'
    BY <1>17, <1>18, <1>2, <1>5, <1>7, <1>8, <1>12, <1>15 DEF ListInv, List!TypeOK
  <1> QED
    BY <1>1, <1>5, <1>7, <1>11, <1>14, <1>15, <1>16
    DEF ListInv, OneSlice, NothingYet, List!SongsInOrder

(* Every step preserves the invariant. *)
LEMMA ListNext ==
  ASSUME List!SongListAssumption, ListInv, [List!Next]_(List!vars)
  PROVE  ListInv'
PROOF
  <1>1. CASE List!HandleResponse BY <1>1, HandleResponseInv
  <1>2. CASE List!LoadMoreSongs BY <1>2, LoadMoreInv
  <1>3. ASSUME NEW i \in DOMAIN slices, List!SongsArrived(i) PROVE ListInv'
    BY <1>3, SongsArrivedInv
  <1>4. CASE UNCHANGED List!vars
    BY <1>4 DEF List!vars, ListInv, List!TypeOK, OneSlice, List!NextSlice, NothingYet, List!SongsInOrder
  <1> QED BY <1>1, <1>2, <1>3, <1>4 DEF List!Next

----------------------------------------------------------------------------
(* The page of comments. *)

(* At most one page is on its way, and it is the one at the offset. *)
OneRequest == requests = IF commentsLoading THEN <<offset>> ELSE <<>>

CommentInv == Comment!TypeOK /\ OneRequest /\ Comment!CommentsInOrder

(* One sequence behind another. *)
LEMMA Appended ==
  ASSUME NEW s \in Seq(Nat), NEW u \in Seq(Nat)
  PROVE  /\ s \o u \in Seq(Nat)
         /\ Len(s \o u) = Len(s) + Len(u)
         /\ \A i \in 1..Len(s) : (s \o u)[i] = s[i]
         /\ \A i \in 1..Len(u) : (s \o u)[Len(s) + i] = u[i]
OBVIOUS

(* A page of n comments behind others, element by element. *)
LEMMA PageAppended ==
  ASSUME NEW s \in Seq(Nat), NEW o \in Nat, NEW n \in Nat
  PROVE  /\ s \o Comment!Page(o, n) \in Seq(Nat)
         /\ Len(s \o Comment!Page(o, n)) = Len(s) + n
         /\ \A i \in 1..Len(s) : (s \o Comment!Page(o, n))[i] = s[i]
         /\ \A i \in 1..n : (s \o Comment!Page(o, n))[Len(s) + i] = o + i
PROOF
  <1>1. Comment!Page(o, n) \in Seq(Nat) /\ Len(Comment!Page(o, n)) = n /\ \A i \in 1..n : Comment!Page(o, n)[i] = o + i
    BY DEF Comment!Page
  <1> DEFINE u == Comment!Page(o, n)
  <1>2. u \in Seq(Nat) BY <1>1
  <1>3. Len(u) = n /\ \A i \in 1..n : u[i] = o + i BY <1>1
  <1> HIDE DEF u
  <1>4. /\ s \o u \in Seq(Nat)
        /\ Len(s \o u) = Len(s) + n
        /\ \A i \in 1..Len(s) : (s \o u)[i] = s[i]
        /\ \A i \in 1..n : (s \o u)[Len(s) + i] = o + i
    BY <1>2, <1>3, Appended
  <1> QED BY <1>4 DEF u

(* hot comments, then those up to offset o. *)
Ordered(s, hot, o) ==
  /\ s \in Seq(Nat) /\ Len(s) = hot + o
  /\ \A i \in 1..hot : s[i] = Comment!Hot
  /\ \A i \in 1..o : s[hot + i] = i

(* A page at the offset goes on in order. *)
LEMMA OrderedPage ==
  ASSUME NEW hot \in Nat, NEW o \in Nat, NEW n \in Nat, NEW s, Ordered(s, hot, o)
  PROVE  Ordered(s \o Comment!Page(o, n), hot, o + n)
PROOF
  <1>1. s \in Seq(Nat) /\ Len(s) = hot + o BY DEF Ordered
  <1> DEFINE t == s \o Comment!Page(o, n)
  <1>2. /\ t \in Seq(Nat)
        /\ Len(t) = hot + o + n
        /\ \A i \in 1..(hot + o) : t[i] = s[i]
        /\ \A i \in 1..n : t[hot + o + i] = o + i
    <2> HIDE DEF t
    <2>1. /\ t \in Seq(Nat)
          /\ Len(t) = Len(s) + n
          /\ \A i \in 1..Len(s) : t[i] = s[i]
          /\ \A i \in 1..n : t[Len(s) + i] = o + i
      BY <1>1, PageAppended DEF t
    <2> QED BY <1>1, <2>1
  <1> HIDE DEF t
  <1>3. ASSUME NEW i \in 1..hot PROVE t[i] = Comment!Hot
    <2>1. i \in 1..(hot + o) OBVIOUS
    <2> QED BY <1>2, <2>1 DEF Ordered
  <1>4. ASSUME NEW i \in 1..(o + n) PROVE t[hot + i] = i
    <2>1. CASE i <= o
      <3>1. hot + i \in 1..(hot + o) /\ i \in 1..o BY <2>1
      <3> QED BY <1>2, <3>1 DEF Ordered
    <2>2. CASE i > o
      <3>1. i - o \in 1..n /\ hot + o + (i - o) = hot + i /\ o + (i - o) = i BY <2>2
      <3>2. t[hot + o + (i - o)] = o + (i - o) BY <1>2, <3>1
      <3> QED BY <3>1, <3>2
    <2> QED BY <2>1, <2>2
  <1>5. hot + o + n = hot + (o + n) OBVIOUS
  <1>6. Ordered(t, hot, o + n) BY <1>2, <1>3, <1>4, <1>5 DEF Ordered
  <1> QED BY <1>6 DEF t

(* Ordered comments are numbers up to the offset. *)
LEMMA OrderedBounded ==
  ASSUME NEW hot \in Nat, NEW o \in Nat, NEW m \in Nat, o <= m, NEW s, Ordered(s, hot, o)
  PROVE  s \in Seq(0..m)
PROOF
  <1>1. s \in Seq(Nat) /\ Len(s) = hot + o BY DEF Ordered
  <1>2. ASSUME NEW i \in 1..Len(s) PROVE s[i] \in 0..m
    <2>1. CASE i <= hot
      <3>1. i \in 1..hot BY <1>1, <2>1
      <3> QED BY <3>1 DEF Ordered, Comment!Hot
    <2>2. CASE i > hot
      <3>1. i - hot \in 1..o /\ hot + (i - hot) = i BY <1>1, <2>2
      <3>2. s[hot + (i - hot)] = i - hot BY <3>1 DEF Ordered
      <3> QED BY <3>1, <3>2
    <2> QED BY <1>1, <2>1, <2>2
  <1>3. s = [i \in 1..Len(s) |-> s[i]] /\ Len(s) \in Nat BY <1>1
  <1> QED BY <1>2, <1>3

(* The first state is good. *)
LEMMA CommentInit == Comment!CommentsAssumption /\ Comment!Init => CommentInv
PROOF
  <1> SUFFICES ASSUME Comment!CommentsAssumption, Comment!Init PROVE CommentInv OBVIOUS
  <1>1. Comments \in Nat /\ HotComments \in Nat BY DEF Comment!CommentsAssumption
  <1>2. commentsArray \in Seq(0..Comments) /\ Len(commentsArray) = 0 BY DEF Comment!Init
  <1>3. requests \in Seq(0..Comments) BY <1>1 DEF Comment!Init
  <1>4. offset = 0 /\ moreComments \in BOOLEAN /\ commentsLoading \in BOOLEAN BY DEF Comment!Init
  <1>5. Comment!TypeOK BY <1>1, <1>2, <1>3, <1>4 DEF Comment!TypeOK
  <1>6. Comment!CommentsInOrder BY <1>1, <1>2, <1>4 DEF Comment!CommentsInOrder
  <1> QED BY <1>5, <1>6 DEF Comment!Init, CommentInv, OneRequest

(* A page is asked for only when none is on its way. *)
LEMMA LoadCommentsInv ==
  ASSUME Comment!CommentsAssumption, CommentInv, Comment!LoadComments
  PROVE  CommentInv'
PROOF
  <1>1. requests' = <<offset>> /\ commentsLoading' = TRUE
    BY DEF Comment!LoadComments, CommentInv, OneRequest
  <1>2. Comment!TypeOK' BY <1>1 DEF Comment!LoadComments, CommentInv, Comment!TypeOK
  <1> QED BY <1>1, <1>2 DEF Comment!LoadComments, CommentInv, OneRequest, Comment!CommentsInOrder

(* The answer goes behind the comments that are there or, at offset 0,     *)
(* behind the hot ones it brings.                                          *)
LEMMA CommentsArrivedInv ==
  ASSUME Comment!CommentsAssumption, CommentInv, NEW k \in DOMAIN requests, Comment!CommentsArrived(k)
  PROVE  CommentInv'
PROOF
  <1>1. commentsLoading /\ requests = <<offset>> /\ k = 1 /\ requests[k] = offset
    BY DEF CommentInv, OneRequest
  <1>2. PICK r \in Comment!Answers(offset) \cup {Comment!Failed} :
          /\ commentsArray' = Comment!Shown(offset, r)
          /\ offset' = offset + r.comments
          /\ moreComments' = r.more
    BY <1>1 DEF Comment!CommentsArrived
  <1>3. requests' = <<>> /\ commentsLoading' = FALSE
    BY <1>1 DEF Comment!CommentsArrived, Comment!Without
  <1>4. /\ offset \in 0..Comments /\ Comments \in Nat /\ HotComments \in Nat
        /\ commentsArray \in Seq(0..Comments)
    BY DEF Comment!CommentsAssumption, CommentInv, Comment!TypeOK
  <1> DEFINE n == r.comments
             hot == Len(commentsArray) - offset
  <1>5. /\ r.hot \in 0..HotComments /\ n \in Nat /\ r.more \in BOOLEAN
        /\ offset + n <= Comments
    <2>1. CASE r = Comment!Failed BY <1>4, <2>1 DEF Comment!Failed
    <2>2. CASE r \in Comment!Answers(offset)
      <3>1. n \in {j \in 0..Limit : offset + j <= Comments} BY <2>2 DEF Comment!Answers
      <3>2. r.hot \in (IF offset = 0 THEN 0..HotComments ELSE {0}) /\ r.more \in BOOLEAN
        BY <2>2 DEF Comment!Answers
      <3> QED BY <1>4, <3>1, <3>2 DEF Comment!CommentsAssumption
    <2> QED BY <2>1, <2>2
  <1>6. \E h \in 0..HotComments : Ordered(commentsArray', h, offset')
    <2>1. CASE offset = 0
      <3> DEFINE hots == [i \in 1..r.hot |-> Comment!Hot]
      <3>1. Ordered(hots, r.hot, 0) BY <1>5 DEF Ordered, Comment!Hot
      <3>2. commentsArray' = hots \o Comment!Page(0, n) BY <1>2, <2>1 DEF Comment!Shown
      <3> HIDE DEF hots
      <3>3. Ordered(commentsArray', r.hot, 0 + n) BY <1>5, <3>1, <3>2, OrderedPage
      <3> QED BY <1>2, <1>5, <2>1, <3>3
    <2>2. CASE offset # 0
      <3>1. hot \in 0..HotComments BY DEF CommentInv, Comment!CommentsInOrder
      <3>2. commentsArray \in Seq(Nat) /\ Len(commentsArray) = hot + offset BY <1>4
      <3>3. /\ \A i \in 1..hot : commentsArray[i] = Comment!Hot
            /\ \A i \in 1..offset : commentsArray[hot + i] = i
        BY DEF CommentInv, Comment!CommentsInOrder
      <3>4. Ordered(commentsArray, hot, offset) BY <3>2, <3>3 DEF Ordered
      <3>5. commentsArray' = commentsArray \o Comment!Page(offset, n) BY <1>2, <2>2 DEF Comment!Shown
      <3> HIDE DEF hot
      <3>6. Ordered(commentsArray \o Comment!Page(offset, n), hot, offset + n)
        <4>1. hot \in Nat /\ offset \in Nat /\ n \in Nat BY <1>4, <1>5, <3>1
        <4> HIDE DEF n
        <4> QED BY <3>4, <4>1, OrderedPage
      <3>7. Ordered(commentsArray', hot, offset + n) BY <3>5, <3>6
      <3> QED BY <1>2, <3>1, <3>7
    <2> QED BY <2>1, <2>2
  <1>7. PICK h \in 0..HotComments : Ordered(commentsArray', h, offset') BY <1>6
  <1>8. offset' \in 0..Comments BY <1>2, <1>4, <1>5
  <1>9. Len(commentsArray') - offset' = h
    <2>1. Len(commentsArray') = h + offset' BY <1>7 DEF Ordered
    <2>2. h \in Nat /\ offset' \in Nat BY <1>4, <1>8
    <2>3. \A x, y \in Nat : (x + y) - y = x OBVIOUS
    <2> QED BY <2>1, <2>2, <2>3
  <1>10. Comment!CommentsInOrder' BY <1>7, <1>9 DEF Comment!CommentsInOrder, Ordered
  <1>11. commentsArray' \in Seq(0..Comments) BY <1>4, <1>7, <1>8, OrderedBounded
  <1>12. requests' \in Seq(0..Comments) BY <1>3
  <1>13. moreComments' \in BOOLEAN BY <1>2, <1>5
  <1>14. Comment!TypeOK' BY <1>3, <1>8, <1>11, <1>12, <1>13 DEF Comment!TypeOK
  <1> QED BY <1>3, <1>10, <1>14 DEF CommentInv, OneRequest

(* Every step preserves the invariant. *)
LEMMA CommentNext ==
  ASSUME Comment!CommentsAssumption, CommentInv, [Comment!Next]_(Comment!vars)
  PROVE  CommentInv'
PROOF
  <1>1. CASE Comment!LoadComments BY <1>1, LoadCommentsInv
  <1>2. ASSUME NEW k \in DOMAIN requests, Comment!CommentsArrived(k) PROVE CommentInv'
    BY <1>2, CommentsArrivedInv
  <1>3. CASE UNCHANGED Comment!vars
    BY <1>3 DEF Comment!vars, CommentInv, Comment!TypeOK, OneRequest, Comment!CommentsInOrder
  <1> QED BY <1>1, <1>2, <1>3 DEF Comment!Next

----------------------------------------------------------------------------
(* The page of the search. *)

(* The only timer that runs is that of the text last typed. *)
SearchInv ==
  /\ searches \in Seq(Keywords)
  /\ typed \in Keywords \cup {NoKeyword}
  /\ searchTimers \subseteq {typed}

(* An answer takes a search out of the list of those under way. *)
LEMMA SearchTakenOut ==
  ASSUME NEW S, NEW s \in Seq(S), NEW i \in DOMAIN s
  PROVE  Search!Without(s, i) \in Seq(S) /\ Len(Search!Without(s, i)) = Len(s) - 1
<1>1. i \in 1..Len(s) /\ Len(s) \in Nat
  OBVIOUS
<1> DEFINE a == SubSeq(s, 1, i - 1)
           b == SubSeq(s, i + 1, Len(s))
<1>2. a \in Seq(S) /\ Len(a) = i - 1 /\ b \in Seq(S) /\ Len(b) = Len(s) - i
  BY <1>1
<1> HIDE DEF a, b
<1>3. a \o b \in Seq(S) /\ Len(a \o b) = Len(s) - 1
  BY <1>1, <1>2
<1> QED
  BY <1>3 DEF Search!Without, a, b

(* Every step of the search page keeps that, and sends only what is typed. *)
LEMMA SearchNext ==
  ASSUME SearchInv, [Search!Next]_(Search!vars)
  PROVE  /\ SearchInv'
         /\ Len(searches') > Len(searches) => searches' = Append(searches, typed)
<1> USE DEF SearchInv
<1>1. CASE UNCHANGED Search!searchVars
  BY <1>1 DEF Search!searchVars
<1>2. CASE Search!LoadMoreData \/ Search!Inserted
  BY <1>1, <1>2 DEF Search!LoadMoreData, Search!Inserted
<1>3. ASSUME NEW i \in DOMAIN fetches, Search!PageArrived(i)
      PROVE  UNCHANGED Search!searchVars
  BY <1>3 DEF Search!PageArrived, Search!FetchFailed, Search!FetchedNothingNew,
              Search!FetchedMore
<1>4. ASSUME NEW keyword \in Keywords \cup {NoKeyword}, Search!TextDidChange(keyword)
      PROVE  /\ SearchInv'
             /\ Len(searches') > Len(searches) => searches' = Append(searches, typed)
  BY <1>4 DEF Search!TextDidChange
<1>5. ASSUME NEW keyword \in Keywords \cup {NoKeyword}, Search!PerformSearch(keyword)
      PROVE  /\ SearchInv'
             /\ Len(searches') > Len(searches) => searches' = Append(searches, typed)
  <2>1. keyword = typed
    BY <1>5 DEF Search!PerformSearch
  <2>2. \/ searches' = searches
        \/ keyword \in Keywords /\ searches' = Append(searches, keyword)
    BY <1>5 DEF Search!PerformSearch
  <2>3. typed' = typed /\ searchTimers' \subseteq {typed'}
    BY <1>5 DEF Search!PerformSearch
  <2> QED
    BY <2>1, <2>2, <2>3
<1>6. ASSUME NEW i \in DOMAIN searches, Search!SearchAnswered(i)
      PROVE  /\ SearchInv'
             /\ Len(searches') > Len(searches) => searches' = Append(searches, typed)
  <2>1. searches' \in Seq(Keywords) /\ Len(searches') = Len(searches) - 1
    BY <1>6, SearchTakenOut DEF Search!SearchAnswered
  <2>2. UNCHANGED <<typed, searchTimers>> /\ Len(searches) \in Nat
    BY <1>6 DEF Search!SearchAnswered
  <2> QED
    BY <2>1, <2>2
<1>7. CASE Search!KeyboardWillHide \/ Search!ViewDidDisappear
  BY <1>7 DEF Search!KeyboardWillHide, Search!ViewDidDisappear
<1>8. CASE UNCHANGED Search!vars
  BY <1>1, <1>8 DEF Search!vars
<1> QED
  BY <1>1, <1>2, <1>3, <1>4, <1>5, <1>6, <1>7, <1>8 DEF Search!Next

(* The page of the search loads while one fetch is under way, or one batch *)
(* of cells is being inserted.                                             *)
OneFetch ==
  \/ ~songsLoading /\ fetches = <<>> /\ ~inserting
  \/ songsLoading /\ Len(fetches) = 1 /\ ~inserting
  \/ songsLoading /\ fetches = <<>> /\ inserting

FetchInv ==
  /\ songsLoading \in BOOLEAN /\ inserting \in BOOLEAN
  /\ index \in Nat /\ fetches \in Seq(Nat)
  /\ OneFetch

(* Every step of the search page keeps that: a load begins only when there *)
(* is none, and ends or goes over into the insertion when it is answered.  *)
LEMMA FetchNext ==
  ASSUME FetchInv, Search!SearchAssumption, [Search!Next]_(Search!vars)
  PROVE  FetchInv'
<1> USE DEF FetchInv
<1>a. /\ index \in Nat /\ LimitStep \in Nat /\ fetches \in Seq(Nat)
      /\ songsLoading \in BOOLEAN /\ inserting \in BOOLEAN
  BY DEF Search!SearchAssumption
<1>b. ASSUME NEW l, l = Append(<<>>, index) PROVE l \in Seq(Nat) /\ Len(l) = 1
  BY <1>a, <1>b
<1>1. CASE UNCHANGED Search!pageVars
  BY <1>1 DEF Search!pageVars, OneFetch
<1>2. CASE Search!LoadMoreData
  <2>1. fetches = <<>> /\ ~inserting
    BY <1>2 DEF Search!LoadMoreData, OneFetch
  <2>2. fetches' = Append(<<>>, index) /\ songsLoading' = TRUE
        /\ UNCHANGED <<index, inserting>>
    BY <1>2, <2>1 DEF Search!LoadMoreData
  <2> QED
    BY <1>a, <1>b, <2>1, <2>2 DEF OneFetch
<1>3. CASE Search!Inserted
  <2>1. fetches = <<>> /\ inserting /\ songsLoading
    BY <1>3 DEF Search!Inserted, OneFetch
  <2>2. /\ inserting' = FALSE /\ UNCHANGED index
        /\ \/ songsLoading' = FALSE /\ fetches' = <<>>
           \/ songsLoading' = TRUE /\ fetches' = Append(<<>>, index)
    BY <1>3, <2>1 DEF Search!Inserted
  <2>3. CASE songsLoading' = FALSE /\ fetches' = <<>>
    <3>1. songsLoading' \in BOOLEAN /\ inserting' \in BOOLEAN
      BY <2>2, <2>3, ZenonT(60)
    <3>2. index' \in Nat /\ fetches' \in Seq(Nat)
      BY <1>a, <2>2, <2>3
    <3> QED
      BY <2>2, <2>3, <3>1, <3>2 DEF OneFetch
  <2>4. CASE songsLoading' = TRUE /\ fetches' = Append(<<>>, index)
    BY <1>a, <1>b, <2>2, <2>4 DEF OneFetch
  <2> QED
    BY <2>2, <2>3, <2>4
<1>4. ASSUME NEW i \in DOMAIN fetches, Search!PageArrived(i)
      PROVE  FetchInv'
  <2>1. songsLoading /\ Len(fetches) = 1 /\ ~inserting
    BY <1>4 DEF OneFetch
  <2>2. fetches' = Search!Without(fetches, i)
    BY <1>4 DEF Search!PageArrived, Search!FetchFailed, Search!FetchedNothingNew,
                Search!FetchedMore
  <2>3. fetches' \in Seq(Nat) /\ Len(fetches') = 0
    BY <1>a, <2>1, <2>2, SearchTakenOut
  <2>4. fetches' = <<>>
    BY <2>3
  <2>5. /\ index' \in {index, index + LimitStep}
        /\ \/ songsLoading' = FALSE /\ inserting' = inserting
           \/ songsLoading' = songsLoading /\ inserting' = TRUE
    BY <1>4 DEF Search!PageArrived, Search!FetchFailed, Search!FetchedNothingNew,
                Search!FetchedMore
  <2>6. songsLoading' \in BOOLEAN /\ inserting' \in BOOLEAN
    BY <1>a, <2>5, ZenonT(60)
  <2>7. index' \in Nat
    BY <1>a, <2>5
  <2>8. OneFetch'
    BY <2>1, <2>4, <2>5 DEF OneFetch
  <2> QED
    BY <2>3, <2>6, <2>7, <2>8
<1>5. ASSUME NEW keyword \in Keywords \cup {NoKeyword},
             Search!TextDidChange(keyword) \/ Search!PerformSearch(keyword)
      PROVE  UNCHANGED Search!pageVars
  BY <1>5 DEF Search!TextDidChange, Search!PerformSearch
<1>6. ASSUME NEW i \in DOMAIN searches, Search!SearchAnswered(i)
      PROVE  UNCHANGED Search!pageVars
  BY <1>6 DEF Search!SearchAnswered
<1>7. Search!KeyboardWillHide \/ Search!ViewDidDisappear => UNCHANGED Search!pageVars
  BY DEF Search!KeyboardWillHide, Search!ViewDidDisappear
<1>8. UNCHANGED Search!vars => UNCHANGED Search!pageVars
  BY DEF Search!vars
<1> HIDE DEF FetchInv
<1> QED
  BY <1>1, <1>2, <1>3, <1>4, <1>5, <1>6, <1>7, <1>8 DEF Search!Next

----------------------------------------------------------------------------
(* The three invariants hold together: only the page shown takes steps. *)
PagesInv == ListInv /\ CommentInv /\ SearchInv

(* A page that is not shown stays as it is. *)
LEMMA PagesStep ==
  ASSUME PagesInv, [Next]_vars
  PROVE  /\ [List!Next]_(List!vars)
         /\ [Comment!Next]_(Comment!vars)
         /\ [Search!Next]_(Search!vars)
BY DEF Next, Scrolls, vars, listVars, commentVars, searchVars,
       List!vars, Comment!vars, Search!vars, Search!pageVars, Search!searchVars

(* The invariant of the pages, by induction. *)
LEMMA PagesInvariance == Spec => []PagesInv
<1>1. Init => PagesInv
  <2>1. Search!Init => SearchInv
    BY DEF Search!Init, SearchInv
  <2> QED
    BY <2>1, ListInit, CommentInit, BrowsingAssumption DEF Init, PagesInv
<1>2. PagesInv /\ [Next]_vars => PagesInv'
  BY PagesStep, ListNext, CommentNext, SearchNext, BrowsingAssumption DEF PagesInv
<1> QED
  BY <1>1, <1>2, PTL DEF Spec

(* The rows of a playlist's page are its songs, each once and in order,    *)
(* but for those whose own answer came without them: at most one slice is  *)
(* on its way, and it begins where the index stands.                       *)
THEOREM RowsStayInOrder == Spec => []SongsInOrder
<1>1. PagesInv => SongsInOrder
  BY DEF PagesInv, ListInv, SongsInOrder
<1> QED
  BY <1>1, PagesInvariance, PTL

(* After the hot ones the page shows the server's comments up to the       *)
(* offset, each once and in order, whatever pages are short, empty or fail *)
(* to come: the one page on its way was asked for at the present offset.   *)
THEOREM CommentsStayInOrder == Spec => []CommentsInOrder
<1>1. PagesInv => CommentsInOrder
  BY DEF PagesInv, CommentInv, CommentsInOrder
<1> QED
  BY <1>1, PagesInvariance, PTL

(* No step sends a search for anything but the text last typed: a change   *)
(* of the text always takes the timer of the text before with it, and      *)
(* leaving the page, which empties the bar, starts none.                   *)
THEOREM OnlyTypedTextIsSearched == Spec => SearchesTypedText
<1>1. PagesInv /\ [Next]_vars =>
        [Len(searches') > Len(searches) => searches' = Append(searches, typed)]_(Search!vars)
  BY PagesStep, SearchNext DEF PagesInv
<1> QED
  BY <1>1, PagesInvariance, PTL DEF Spec, SearchesTypedText, Search!SearchesTypedText

(* While a page's flag says that it loads, exactly one request of the page *)
(* (or the insertion of its cells) is on its way, and otherwise none: no   *)
(* scroll asks for the same rows twice, and a flag that is set always has  *)
(* somebody to take it back.                                               *)
OneLoadAtATime ==
  /\ Len(slices) = IF listLoading THEN 1 ELSE 0
  /\ Len(requests) = IF commentsLoading THEN 1 ELSE 0
  /\ Len(fetches) + (IF inserting THEN 1 ELSE 0) = IF songsLoading THEN 1 ELSE 0

(* For any size of slice and page: the flags of the three pages tell the   *)
(* number of loads on their way.                                           *)
THEOREM LoadsOneAtATime == Spec => []OneLoadAtATime
<1>1. Init => FetchInv
  <2> SUFFICES ASSUME Init PROVE FetchInv
    OBVIOUS
  <2>1. songsLoading = TRUE /\ fetches = <<FirstLimit>> /\ ~inserting /\ index = FirstLimit
        /\ inserting \in BOOLEAN /\ FirstLimit \in Nat
    BY BrowsingAssumption DEF Init, Search!Init, Search!SearchAssumption
  <2> QED
    BY <2>1 DEF FetchInv, OneFetch
<1>2. PagesInv /\ FetchInv /\ [Next]_vars => FetchInv'
  BY PagesStep, FetchNext, BrowsingAssumption
<1>3. PagesInv /\ FetchInv => OneLoadAtATime
  <2> SUFFICES ASSUME PagesInv, FetchInv PROVE OneLoadAtATime
    OBVIOUS
  <2>1. Len(slices) = IF listLoading THEN 1 ELSE 0
    BY DEF PagesInv, ListInv, OneSlice
  <2>2. Len(requests) = IF commentsLoading THEN 1 ELSE 0
    BY DEF PagesInv, CommentInv, OneRequest
  <2>3. Len(fetches) + (IF inserting THEN 1 ELSE 0) = IF songsLoading THEN 1 ELSE 0
    <3>1. OneFetch
      BY DEF FetchInv
    <3>2. CASE ~songsLoading /\ fetches = <<>> /\ ~inserting
      BY <3>2
    <3>3. CASE songsLoading /\ Len(fetches) = 1 /\ ~inserting
      BY <3>3
    <3>4. CASE songsLoading /\ fetches = <<>> /\ inserting
      BY <3>4
    <3> QED
      BY <3>1, <3>2, <3>3, <3>4 DEF OneFetch
  <2> QED
    BY <2>1, <2>2, <2>3 DEF OneLoadAtATime
<1> QED
  BY <1>1, <1>2, <1>3, PagesInvariance, PTL DEF Spec
=============================================================================
