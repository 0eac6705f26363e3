---------------------------- MODULE ReadsProofs ----------------------------
(***************************************************************************)
(* Four results, for every value of the constants.                         *)
(*                                                                         *)
(* A walk over the listed users skips and repeats none (NoneSkipped of     *)
(* Listing). The argument is about ranks: the rank of a user is the number *)
(* of rows that sort no later. It is the place of the user in every answer *)
(* to the query, it never falls, because rows are only added, and the      *)
(* offset of the walk is never beyond the rank of a user it has not        *)
(* received yet.                                                           *)
(*                                                                         *)
(* The wait between two attempts of a delivery doubles up to the cap and   *)
(* never overflows (BackoffIsCappedDoubling of Algorithms), by induction   *)
(* on the rounds of the loop.                                              *)
(*                                                                         *)
(* maxCluster reports the densest window (ClusterIsDensest). The argument  *)
(* is about counts: the i-th of the sorted times is no later than v if and *)
(* only if i of the times are, so what an interval holds is a run of the   *)
(* sorted times, and the loop keeps the longest run that fits the window.  *)
(*                                                                         *)
(* Detect ignores the order of the entries (OrderIsIrrelevant): the counts *)
(* are those of any rearrangement, and they determine the sorted times,    *)
(* the order of the callers and the flags.                                 *)
(***************************************************************************)
EXTENDS Listing, Algorithms, Recursion, FunctionTheorems, FiniteSetTheorems, SequenceTheorems, TLAPS

Below(R, u) == {v \in R : InOrderOf(v, u)}

Rank(R, u) == Cardinality(Below(R, u))

\* The rows that the walk has passed.
Offset == start - 1

\* The client has received the user.
Received(u) == \E n \in 1..Len(got) : got[n] = u.id

\* The ids of the first n users of an answer.
FirstIds(s, n) == [i \in 1..n |-> s[i].id]

ListingTypeOK ==
  /\ clock \in 0..MaxTime
  /\ open \subseteq User /\ rows \subseteq User /\ IsFiniteSet(rows) /\ base \subseteq rows
  /\ walk \in {"idle", "count", "page", "done", "stopped"}
  /\ start \in Nat \ {0} /\ got \in Seq(Ids)

\* Nothing has been received before the walk, nobody of base is behind it while
\* it goes on, and everybody of base has been received after it.
NobodyBehind ==
  /\ walk = "idle" => start = 1 /\ got = <<>>
  /\ walk \in {"count", "page"} => \A u \in base : Received(u) \/ Offset < Rank(rows, u)
  /\ walk = "done" => \A u \in base : Received(u)

\* As long as nothing is committed, what was received is the beginning of the
\* one answer there is, and the total is right.
Undisturbed ==
  rows = base =>
    /\ walk = "page" => total = Cardinality(rows)
    /\ walk \in {"count", "page"} =>
         \A s \in Orders(rows) : Offset <= Cardinality(rows) /\ got = FirstIds(s, Offset)
    /\ walk \in {"done", "stopped"} =>
         \E s \in Orders(rows) : got = FirstIds(s, Cardinality(rows))

ListingInv == ListingTypeOK /\ NobodyBehind /\ Undisturbed
-----------------------------------------------------------------------------
(* The order of the query, and the answers to it. *)

\* ORDER BY created_at, id is a linear order of users: two users it does not
\* tell apart are the same.
LEMMA LinearOrder ==
  ASSUME NEW u \in User, NEW v \in User
  PROVE  /\ InOrderOf(u, u)
         /\ InOrderOf(u, v) /\ InOrderOf(v, u) => u = v
  <1>1. u.id \in Ids /\ u.at \in 0..MaxTime /\ v.id \in Ids /\ v.at \in 0..MaxTime
    BY DEF User
  <1>2. u.id \in Int /\ u.at \in Int /\ v.id \in Int /\ v.at \in Int
    <2>1. Ids \subseteq Nat /\ MaxTime \in Nat
      BY ListingAssumption
    <2>2. u.id \in Nat /\ v.id \in Nat
      BY <1>1, <2>1
    <2>3. u.at \in Nat /\ v.at \in Nat
      BY <1>1, <2>1
    <2> QED
      BY <2>2, <2>3
  <1>3. u.id = v.id /\ u.at = v.at => u = v
    BY DEF User
  <1> QED
    BY <1>2, <1>3 DEF InOrderOf

\* An answer is a sequence that holds every row exactly once.
LEMMA AnswerIsBijection ==
  ASSUME NEW R \in SUBSET User, IsFiniteSet(R), NEW s \in Orders(R)
  PROVE  /\ Cardinality(R) \in Nat
         /\ s \in [1..Cardinality(R) -> R] /\ s \in Seq(User) /\ Len(s) = Cardinality(R)
         /\ \A i, j \in 1..Cardinality(R) : s[i] = s[j] => i = j
         /\ \A u \in R : \E i \in 1..Cardinality(R) : s[i] = u
  <1> DEFINE N == Cardinality(R)
  <1>1. N \in Nat
    BY FS_CardinalityType
  <1>2. /\ s \in [1..N -> R]
        /\ \A i, j \in 1..N : i < j => s[i] # s[j]
    BY DEF Orders
  <1>3. \A i, j \in 1..N : s[i] = s[j] => i = j
    BY <1>1, <1>2
  <1>4. s \in Injection(1..N, R)
    BY <1>2, <1>3, Fun_IsInj
  <1>5. IsFiniteSet(1..N) /\ Cardinality(1..N) = N
    BY <1>1, FS_Interval
  <1>6. s \in Surjection(1..N, R)
    BY <1>4, <1>5, FS_Injection
  <1>7. \A u \in R : \E i \in 1..N : s[i] = u
    BY <1>6 DEF Surjection
  <1>8. s \in Seq(User) /\ Len(s) = N
    BY <1>1, <1>2
  <1> QED
    BY <1>1, <1>2, <1>3, <1>7, <1>8

\* The place of a row in an answer is its rank.
LEMMA PlaceIsRank ==
  ASSUME NEW R \in SUBSET User, IsFiniteSet(R), NEW s \in Orders(R),
         NEW i \in 1..Cardinality(R)
  PROVE  Rank(R, s[i]) = i
  <1> DEFINE N == Cardinality(R)
             f == [j \in 1..i |-> s[j]]
             B == Below(R, s[i])
  <1>1. /\ N \in Nat
        /\ s \in [1..N -> R]
        /\ \A j, k \in 1..N : s[j] = s[k] => j = k
        /\ \A u \in R : \E j \in 1..N : s[j] = u
    BY AnswerIsBijection
  <1>2. \A j, k \in 1..N : j < k => s[j] # s[k] /\ InOrderOf(s[j], s[k])
    BY DEF Orders
  <1>3. \A j \in 1..i : j \in 1..N /\ s[j] \in R /\ s[j] \in User
    BY <1>1
  <1>4. ASSUME NEW j \in 1..i PROVE s[j] \in B
    <2>1. j \in 1..N /\ s[j] \in R /\ s[j] \in User
      BY <1>3
    <2>2. InOrderOf(s[j], s[i])
      <3>1. CASE j < i
        BY <3>1, <2>1, <1>2
      <3>2. CASE j = i
        BY <3>2, <2>1, LinearOrder
      <3> QED
        BY <3>1, <3>2, <1>1
    <2> QED
      BY <2>1, <2>2 DEF Below
  <1>5. ASSUME NEW u \in B PROVE \E j \in 1..i : s[j] = u
    <2>1. u \in R /\ InOrderOf(u, s[i])
      BY DEF Below
    <2>2. PICK k \in 1..N : s[k] = u
      BY <2>1, <1>1
    <2>3. ~(i < k)
      <3> SUFFICES ASSUME i < k PROVE FALSE
        OBVIOUS
      <3>1. s[i] # s[k] /\ InOrderOf(s[i], s[k])
        BY <2>2, <1>2
      <3>2. s[i] \in User /\ s[k] \in User
        BY <1>1, <2>2
      <3> QED
        BY <3>1, <3>2, <2>1, <2>2, LinearOrder
    <2> QED
      BY <2>2, <2>3, <1>1
  <1>6. f \in [1..i -> B]
    BY <1>4
  <1>7. \A j, k \in 1..i : f[j] = f[k] => j = k
    BY <1>1, <1>3
  <1>8. \A u \in B : \E j \in 1..i : f[j] = u
    BY <1>5
  <1>9. f \in Bijection(1..i, B)
    <2>1. f \in Injection(1..i, B)
      BY <1>6, <1>7, Fun_IsInj
    <2>2. f \in Surjection(1..i, B)
      BY <1>6, <1>8, Fun_IsSurj
    <2> QED
      BY <2>1, <2>2 DEF Bijection
  <1>10. IsFiniteSet(1..i) /\ Cardinality(1..i) = i
    BY <1>1, FS_Interval
  <1>11. Cardinality(B) = Cardinality(1..i)
    <2>1. ExistsBijection(1..i, B)
      BY <1>9 DEF ExistsBijection
    <2> QED
      BY <2>1, <1>10, FS_Bijection
  <1> QED
    BY <1>10, <1>11 DEF Rank

\* There is at most one answer.
LEMMA OneAnswer ==
  ASSUME NEW R \in SUBSET User, IsFiniteSet(R), NEW s \in Orders(R), NEW t \in Orders(R)
  PROVE  s = t
  <1> DEFINE N == Cardinality(R)
  <1>1. /\ N \in Nat /\ s \in [1..N -> R]
        /\ \A u \in R : \E j \in 1..N : s[j] = u
    BY AnswerIsBijection
  <1>2. t \in [1..N -> R]
    BY AnswerIsBijection
  <1>3. ASSUME NEW i \in 1..N PROVE s[i] = t[i]
    <2>1. t[i] \in R
      BY <1>2
    <2>2. PICK j \in 1..N : s[j] = t[i]
      BY <2>1, <1>1
    <2>3. Rank(R, s[j]) = j
      BY PlaceIsRank
    <2>4. Rank(R, t[i]) = i
      BY PlaceIsRank
    <2> QED
      BY <2>2, <2>3, <2>4
  <1> QED
    BY <1>1, <1>2, <1>3

\* Rows that are added leave the ranks or raise them.
LEMMA RankGrows ==
  ASSUME NEW R, IsFiniteSet(R), NEW x, NEW u
  PROVE  /\ Rank(R, u) \in Nat /\ Rank(R \cup {x}, u) \in Nat
         /\ Rank(R, u) <= Rank(R \cup {x}, u)
         /\ u \in R /\ InOrderOf(u, u) => 0 < Rank(R, u)
  <1>1. IsFiniteSet(R \cup {x})
    BY FS_AddElement
  <1>2. Below(R \cup {x}, u) \in SUBSET (R \cup {x}) /\ Below(R, u) \in SUBSET R
    BY DEF Below
  <1>3. IsFiniteSet(Below(R \cup {x}, u)) /\ IsFiniteSet(Below(R, u))
    BY <1>1, <1>2, FS_Subset
  <1>4. Below(R, u) \in SUBSET Below(R \cup {x}, u)
    BY DEF Below
  <1>5. Cardinality(Below(R, u)) <= Cardinality(Below(R \cup {x}, u))
    BY <1>3, <1>4, FS_Subset
  <1>6. Cardinality(Below(R, u)) \in Nat /\ Cardinality(Below(R \cup {x}, u)) \in Nat
    BY <1>3, FS_CardinalityType
  <1>7. Below(R, u) # {} => Cardinality(Below(R, u)) # 0
    BY <1>3, FS_EmptySet
  <1>8. u \in R /\ InOrderOf(u, u) => u \in Below(R, u)
    BY DEF Below
  <1> QED
    BY <1>5, <1>6, <1>7, <1>8 DEF Rank
-----------------------------------------------------------------------------
(* The invariant. *)

LEMMA WalkInit == ListingInit => ListingInv
  <1> SUFFICES ASSUME ListingInit PROVE ListingInv
    OBVIOUS
  <1> USE DEF ListingInit
  <1>1. ListingTypeOK
    <2>1. IsFiniteSet(rows)
      BY FS_EmptySet
    <2>2. got \in Seq(Ids)
      OBVIOUS
    <2> QED
      BY <2>1, <2>2, ListingAssumption DEF ListingTypeOK
  <1>2. NobodyBehind /\ Undisturbed
    BY DEF NobodyBehind, Undisturbed
  <1> QED
    BY <1>1, <1>2 DEF ListingInv

\* A step that leaves the rows and the walk alone keeps the invariant.
LEMMA ElsewhereKeeps ==
  ASSUME ListingInv, UNCHANGED <<rows, walk, start, total, got, base>>,
         clock' \in 0..MaxTime, open' \subseteq User
  PROVE  ListingInv'
  <1>1. ListingTypeOK'
    BY DEF ListingInv, ListingTypeOK
  <1>2. NobodyBehind'
    BY DEF ListingInv, NobodyBehind, Received, Offset
  <1>3. Undisturbed'
    BY DEF ListingInv, Undisturbed, Offset
  <1> QED
    BY <1>1, <1>2, <1>3 DEF ListingInv

\* A user is committed: ranks only grow, and if the rows are still those of the
\* beginning then nothing has changed.
LEMMA CommitKeeps ==
  ASSUME ListingInv, CommitCreate
  PROVE  ListingInv'
  <1>1. PICK x \in open : rows' = rows \cup {x} /\ open' = open \ {x}
    BY DEF CommitCreate
  <1>2. UNCHANGED <<clock, walk, start, total, got, base>>
    BY DEF CommitCreate
  <1>3. /\ rows \subseteq User /\ IsFiniteSet(rows) /\ open \subseteq User /\ base \subseteq rows
        /\ start \in Nat \ {0}
    BY DEF ListingInv, ListingTypeOK
  <1>4. IsFiniteSet(rows')
    BY <1>1, <1>3, FS_AddElement
  <1>5. ListingTypeOK'
    BY <1>1, <1>2, <1>3, <1>4 DEF ListingInv, ListingTypeOK
  <1>6. ASSUME NEW u, Offset < Rank(rows, u) PROVE Offset' < Rank(rows', u)
    <2>1. /\ Rank(rows, u) \in Nat /\ Rank(rows \cup {x}, u) \in Nat
          /\ Rank(rows, u) <= Rank(rows \cup {x}, u)
      BY <1>3, RankGrows
    <2>2. Offset' = Offset /\ Offset \in Int
      BY <1>2, <1>3 DEF Offset
    <2> QED
      BY <2>1, <2>2, <1>1, <1>6
  <1>7. NobodyBehind'
    <2>1. \A u : Received(u)' <=> Received(u)
      BY <1>2 DEF Received
    <2>2. walk' = "idle" => start' = 1 /\ got' = <<>>
      BY <1>2 DEF ListingInv, NobodyBehind
    <2>3. walk' \in {"count", "page"} =>
            \A u \in base' : Received(u)' \/ Offset' < Rank(rows', u)
      BY <1>2, <1>6, <2>1 DEF ListingInv, NobodyBehind
    <2>4. walk' = "done" => \A u \in base' : Received(u)'
      BY <1>2, <2>1 DEF ListingInv, NobodyBehind
    <2> QED
      BY <2>2, <2>3, <2>4 DEF NobodyBehind
  <1>8. Undisturbed'
    <2>1. rows' = base' => rows' = rows
      BY <1>1, <1>2, <1>3
    <2> QED
      BY <2>1, <1>2 DEF ListingInv, Undisturbed, Offset
  <1> QED
    BY <1>5, <1>7, <1>8 DEF ListingInv

\* The walk begins: nothing is received, and every rank is positive.
LEMMA BeginKeeps ==
  ASSUME ListingInv, BeginWalk
  PROVE  ListingInv'
  <1>1. /\ walk = "idle" /\ walk' = "count" /\ base' = rows
        /\ UNCHANGED <<clock, open, rows, start, total, got>>
    BY DEF BeginWalk
  <1>2. /\ rows \subseteq User /\ IsFiniteSet(rows)
        /\ start = 1 /\ got = <<>>
    BY <1>1 DEF ListingInv, ListingTypeOK, NobodyBehind
  <1>3. ListingTypeOK'
    BY <1>1 DEF ListingInv, ListingTypeOK
  <1>4. NobodyBehind'
    <2>1. ASSUME NEW u \in rows PROVE 0 < Rank(rows, u)
      <3>1. InOrderOf(u, u)
        BY <1>2, LinearOrder
      <3> QED
        BY <3>1, <1>2, RankGrows
    <2>2. Offset' = 0
      BY <1>1, <1>2 DEF Offset
    <2> QED
      BY <1>1, <2>1, <2>2 DEF NobodyBehind
  <1>5. Undisturbed'
    <2>1. Cardinality(rows) \in Nat
      BY <1>2, FS_CardinalityType
    <2>2. Offset' = 0
      BY <1>1, <1>2 DEF Offset
    <2>3. \A s : FirstIds(s, 0) = <<>>
      BY DEF FirstIds
    <2> QED
      BY <1>1, <1>2, <2>1, <2>2, <2>3 DEF Undisturbed
  <1> QED
    BY <1>3, <1>4, <1>5 DEF ListingInv

LEMMA CountKeeps ==
  ASSUME ListingInv, CountUsers
  PROVE  ListingInv'
  <1>1. /\ walk = "count" /\ walk' = "page" /\ total' = Cardinality(rows)
        /\ UNCHANGED <<clock, open, rows, start, got, base>>
    BY DEF CountUsers
  <1>2. ListingTypeOK'
    BY <1>1 DEF ListingInv, ListingTypeOK
  <1>3. NobodyBehind'
    BY <1>1 DEF ListingInv, NobodyBehind, Received, Offset
  <1>4. Undisturbed'
    BY <1>1 DEF ListingInv, Undisturbed, Offset
  <1> QED
    BY <1>2, <1>3, <1>4 DEF ListingInv
-----------------------------------------------------------------------------
(* A page. *)

\* The rows of an answer after the o-th, up to the l-th.
LEMMA Slice ==
  ASSUME NEW s \in Seq(User), NEW o \in Nat, NEW l \in Nat, l <= Len(s)
  PROVE  LET page == SubSeq(s, o + 1, l)
         IN /\ page \in Seq(User)
            /\ Len(page) = IF o < l THEN l - o ELSE 0
            /\ page = <<>> <=> l <= o
            /\ \A n \in 1..Len(page) : page[n] = s[o + n]
  <1> DEFINE page == SubSeq(s, o + 1, l)
  <1>1. \A i \in (o + 1)..l : s[i] \in User
    <2>1. \A i \in (o + 1)..l : i \in 1..Len(s)
      OBVIOUS
    <2> QED
      BY <2>1
  <1>2. /\ page \in Seq(User)
        /\ Len(page) = IF o + 1 <= l THEN l - (o + 1) + 1 ELSE 0
        /\ \A i \in 1..(l - (o + 1) + 1) : page[i] = s[(o + 1) + i - 1]
    <2>1. o + 1 \in Int /\ l \in Int
      OBVIOUS
    <2> QED
      BY <1>1, <2>1, SubSeqProperties
  <1> HIDE DEF page
  <1>3. Len(page) = IF o < l THEN l - o ELSE 0
    BY <1>2
  <1>4. ASSUME NEW n \in 1..Len(page) PROVE page[n] = s[o + n]
    <2>1. n \in 1..(l - (o + 1) + 1) /\ (o + 1) + n - 1 = o + n
      BY <1>3
    <2> QED
      BY <2>1, <1>2
  <1>5. page = <<>> <=> Len(page) = 0
    BY <1>2, EmptySeq
  <1>6. page = <<>> <=> l <= o
    BY <1>3, <1>5
  <1> QED
    BY <1>2, <1>3, <1>4, <1>6 DEF page

\* The ids of a page after those received before.
LEMMA Appended ==
  ASSUME NEW g \in Seq(Ids), NEW page \in Seq(User)
  PROVE  LET h == g \o [n \in 1..Len(page) |-> page[n].id]
         IN /\ h \in Seq(Ids) /\ Len(h) = Len(g) + Len(page)
            /\ \A n \in 1..Len(g) : h[n] = g[n]
            /\ \A n \in 1..Len(page) : h[Len(g) + n] = page[n].id
  <1> DEFINE ids == [n \in 1..Len(page) |-> page[n].id]
             h == g \o ids
  <1>1. Len(g) \in Nat /\ Len(page) \in Nat
    OBVIOUS
  <1>2. \A n \in 1..Len(page) : page[n].id \in Ids
    <2>1. \A n \in 1..Len(page) : page[n] \in User
      OBVIOUS
    <2> QED
      BY <2>1 DEF User
  <1>3. ids \in Seq(Ids) /\ Len(ids) = Len(page)
    BY <1>1, <1>2
  <1>4. \A n \in 1..Len(page) : ids[n] = page[n].id
    OBVIOUS
  <1> HIDE DEF ids
  <1>5. /\ h \in Seq(Ids)
        /\ Len(h) = Len(g) + Len(ids)
        /\ \A i \in 1..(Len(g) + Len(ids)) :
             h[i] = IF i <= Len(g) THEN g[i] ELSE ids[i - Len(g)]
    BY <1>3, ConcatProperties
  <1> HIDE DEF h
  <1>6. \A n \in 1..Len(g) : h[n] = g[n]
    BY <1>1, <1>3, <1>5
  <1>7. ASSUME NEW n \in 1..Len(page) PROVE h[Len(g) + n] = page[n].id
    <2>1. /\ Len(g) + n \in 1..(Len(g) + Len(ids)) /\ ~(Len(g) + n <= Len(g))
          /\ (Len(g) + n) - Len(g) = n
      BY <1>1, <1>3
    <2>2. h[Len(g) + n] = ids[n]
      BY <2>1, <1>5
    <2> QED
      BY <2>2, <1>4
  <1> QED
    BY <1>3, <1>5, <1>6, <1>7 DEF h, ids

\* However the client names the next page, its offset is where the walk is.
LEMMA OffsetGiven ==
  ASSUME start \in Nat \ {0}, NEW n \in Given
  PROVE  StartIndex(n) - 1 = Offset
  <1>1. CASE start = 1
    <2>1. n \in {i \in Int : i <= 1} \cup {Missing}
      BY <1>1, ListingAssumption DEF Given
    <2>2. StartIndex(n) = 1
      BY <2>1 DEF StartIndex
    <2> QED
      BY <1>1, <2>2 DEF Offset
  <1>2. CASE start # 1
    <2>1. n = start /\ n \in Nat /\ n > 1
      BY <1>2 DEF Given
    <2>2. n # Missing
      BY <2>1, ListingAssumption
    <2> QED
      BY <2>1, <2>2 DEF StartIndex, Offset
  <1> QED
    BY <1>1, <1>2

LEMMA LimitType ==
  ASSUME NEW c \in Counts
  PROVE  Limit(c) \in Nat
  <1>1. MaxPageSize \in Nat /\ c \in Int \cup {Missing}
    BY ListingAssumption
  <1> QED
    BY <1>1 DEF Limit, Least

\* A page receives the rows of an answer from the offset to L. The walk ends only
\* if L is the end of the answer, or where the total says that it is.
LEMMA PageReceives ==
  ASSUME ListingInv, Page
  PROVE  \E s \in Orders(rows), L \in Nat :
           /\ L <= Cardinality(rows)
           /\ start' = start + (IF Offset < L THEN L - Offset ELSE 0)
           /\ got' \in Seq(Ids)
           /\ Len(got') = Len(got) + (IF Offset < L THEN L - Offset ELSE 0)
           /\ \A n \in 1..Len(got) : got'[n] = got[n]
           /\ \A n \in 1..(L - Offset) : got'[Len(got) + n] = s[Offset + n].id
           /\ \/ L <= Offset /\ L = Cardinality(rows) /\ walk' = "done"
              \/ walk' = "count"
              \/ start' > total /\ walk' = "stopped"
  <1> DEFINE N == Cardinality(rows)
             page(s, c, o) == SubSeq(s, o + 1, Least(o + Limit(c), Len(s)))
             last(s, c, o) == page(s, c, o) = <<>> /\ Limit(c) > 0
  <1>1. /\ rows \in SUBSET User /\ IsFiniteSet(rows) /\ start \in Nat \ {0} /\ got \in Seq(Ids)
    BY DEF ListingInv, ListingTypeOK
  <1>2. PICK s \in Orders(rows), c \in Counts, given \in Given :
          LET o == StartIndex(given) - 1 IN
            /\ got' = got \o [i \in 1..Len(page(s, c, o)) |-> page(s, c, o)[i].id]
            /\ start' = start + Len(page(s, c, o))
            /\ \/ last(s, c, o) /\ walk' = "done"
               \/ ~last(s, c, o) /\ walk' = "count"
               \/ ~last(s, c, o) /\ start' > total /\ walk' = "stopped"
    BY DEF Page
  <1> DEFINE L == Least(Offset + Limit(c), N)
  <1>3. N \in Nat /\ s \in Seq(User) /\ Len(s) = N
    BY <1>1, AnswerIsBijection
  <1>4. Offset \in Nat
    BY <1>1 DEF Offset
  <1>5. L \in Nat /\ L <= N /\ (L <= Offset /\ Limit(c) > 0 => L = N)
    <2>1. Limit(c) \in Nat
      BY LimitType
    <2> QED
      BY <1>3, <1>4, <2>1 DEF Least
  <1> DEFINE p == SubSeq(s, Offset + 1, L)
  <1>6. page(s, c, StartIndex(given) - 1) = p
    <2>1. StartIndex(given) - 1 = Offset
      BY <1>1, OffsetGiven
    <2> QED
      BY <2>1, <1>3
  <1> HIDE DEF L, page
  <1>7. /\ p \in Seq(User)
        /\ Len(p) = IF Offset < L THEN L - Offset ELSE 0
        /\ p = <<>> <=> L <= Offset
        /\ \A n \in 1..Len(p) : p[n] = s[Offset + n]
    BY <1>3, <1>4, <1>5, Slice
  <1> HIDE DEF p
  <1>8. /\ got' = got \o [n \in 1..Len(p) |-> p[n].id]
        /\ start' = start + Len(p)
        /\ \/ p = <<>> /\ Limit(c) > 0 /\ walk' = "done"
           \/ walk' = "count"
           \/ start' > total /\ walk' = "stopped"
    BY <1>2, <1>6
  <1>9. /\ got' \in Seq(Ids) /\ Len(got') = Len(got) + Len(p)
        /\ \A n \in 1..Len(got) : got'[n] = got[n]
        /\ \A n \in 1..Len(p) : got'[Len(got) + n] = p[n].id
    <2>1. LET h == got \o [n \in 1..Len(p) |-> p[n].id]
          IN /\ h \in Seq(Ids) /\ Len(h) = Len(got) + Len(p)
             /\ \A n \in 1..Len(got) : h[n] = got[n]
             /\ \A n \in 1..Len(p) : h[Len(got) + n] = p[n].id
      BY <1>1, <1>7, Appended
    <2> QED
      BY <2>1, <1>8, Zenon
  <1>10. \A n \in 1..(L - Offset) : got'[Len(got) + n] = s[Offset + n].id
    <2>1. \A n \in 1..(L - Offset) : n \in 1..Len(p)
      BY <1>4, <1>5, <1>7
    <2> QED
      BY <2>1, <1>7, <1>9
  <1>11. \/ L <= Offset /\ L = N /\ walk' = "done"
         \/ walk' = "count"
         \/ start' > total /\ walk' = "stopped"
    BY <1>5, <1>7, <1>8
  <1>12. /\ start' = start + (IF Offset < L THEN L - Offset ELSE 0)
         /\ Len(got') = Len(got) + (IF Offset < L THEN L - Offset ELSE 0)
    BY <1>7, <1>8, <1>9
  <1> HIDE DEF N
  <1> QED
    BY <1>5, <1>9, <1>10, <1>11, <1>12 DEF N

\* A page keeps the invariant.
LEMMA PageKeeps ==
  ASSUME ListingInv, Page
  PROVE  ListingInv'
  <1> DEFINE N == Cardinality(rows)
             More(L) == IF Offset < L THEN L - Offset ELSE 0
  <1>1. walk = "page" /\ UNCHANGED <<clock, open, rows, total, base>>
    BY DEF Page
  <1>2. /\ rows \in SUBSET User /\ IsFiniteSet(rows) /\ base \subseteq rows
        /\ start \in Nat \ {0} /\ got \in Seq(Ids) /\ Offset \in Nat
    BY DEF ListingInv, ListingTypeOK, Offset
  <1>3. PICK s \in Orders(rows), L \in Nat :
          /\ L <= N
          /\ start' = start + More(L)
          /\ got' \in Seq(Ids)
          /\ Len(got') = Len(got) + More(L)
          /\ \A n \in 1..Len(got) : got'[n] = got[n]
          /\ \A n \in 1..(L - Offset) : got'[Len(got) + n] = s[Offset + n].id
          /\ \/ L <= Offset /\ L = N /\ walk' = "done"
             \/ walk' = "count"
             \/ start' > total /\ walk' = "stopped"
    BY PageReceives
  <1>4. N \in Nat /\ Len(got) \in Nat
    BY <1>2, FS_CardinalityType
  <1>5. Offset' = IF Offset < L THEN L ELSE Offset
    BY <1>2, <1>3 DEF Offset
  <1>6. ListingTypeOK'
    <2>1. start' \in Nat \ {0}
      BY <1>2, <1>3
    <2>2. walk' \in {"idle", "count", "page", "done", "stopped"}
      BY <1>3
    <2> QED
      BY <1>1, <1>3, <2>1, <2>2 DEF ListingInv, ListingTypeOK
  <1>7. ASSUME NEW u \in base PROVE Received(u)' \/ (L < Rank(rows, u) /\ Offset < Rank(rows, u))
    <2>1. CASE Received(u)
      <3>1. PICK n \in 1..Len(got) : got[n] = u.id
        BY <2>1 DEF Received
      <3>2. n \in 1..Len(got') /\ got'[n] = u.id
        BY <3>1, <1>2, <1>3, <1>4
      <3> QED
        BY <3>2 DEF Received
    <2>2. CASE Offset < Rank(rows, u)
      <3>1. PICK i \in 1..N : s[i] = u
        BY <1>2, AnswerIsBijection
      <3>2. Rank(rows, u) = i
        <4>1. Rank(rows, s[i]) = i
          BY <1>2, PlaceIsRank
        <4> QED
          BY <4>1, <3>1
      <3>3. CASE i <= L
        <4>1. /\ i - Offset \in 1..(L - Offset) /\ Offset + (i - Offset) = i
              /\ Len(got) + (i - Offset) \in 1..Len(got')
          BY <3>1, <3>2, <3>3, <2>2, <1>2, <1>3, <1>4
        <4>2. got'[Len(got) + (i - Offset)] = u.id
          BY <4>1, <3>1, <1>3
        <4> QED
          BY <4>1, <4>2 DEF Received
      <3>4. CASE L < i
        BY <3>2, <3>4, <2>2
      <3> QED
        BY <3>3, <3>4, <1>4
    <2> QED
      BY <2>1, <2>2, <1>1 DEF ListingInv, NobodyBehind
  <1>8. NobodyBehind'
    <2>1. CASE L <= Offset /\ L = N /\ walk' = "done"
      <3>1. ASSUME NEW u \in base PROVE Received(u)'
        <4>1. PICK i \in 1..N : s[i] = u
          BY <1>2, AnswerIsBijection
        <4>2. Rank(rows, s[i]) = i
          BY <1>2, PlaceIsRank
        <4>3. ~(L < Rank(rows, u))
          BY <4>1, <4>2, <2>1, <1>3, <1>4
        <4> QED
          BY <4>3, <1>7
      <3> QED
        BY <2>1, <3>1, <1>1 DEF NobodyBehind
    <2>2. CASE walk' = "count"
      BY <2>2, <1>1, <1>5, <1>7 DEF NobodyBehind
    <2>3. CASE walk' = "stopped"
      BY <2>3 DEF NobodyBehind
    <2> QED
      BY <2>1, <2>2, <2>3, <1>3
  <1>9. Undisturbed'
    <2> SUFFICES ASSUME rows = base PROVE Undisturbed'
      BY <1>1 DEF Undisturbed
    <2>1. Offset <= N /\ got = FirstIds(s, Offset) /\ total = N
      BY <1>1 DEF ListingInv, Undisturbed
    <2>2. Len(got) = Offset
      BY <2>1, <1>2 DEF FirstIds
    <2> DEFINE E == IF Offset < L THEN L ELSE Offset
    <2>3. E \in Nat /\ Len(got') = E
      BY <2>2, <1>2, <1>3
    <2>4. ASSUME NEW n \in 1..E PROVE got'[n] = s[n].id
      <3>1. CASE n <= Offset
        <4>1. n \in 1..Len(got) /\ n \in 1..Offset
          BY <3>1, <2>2, <1>2, <1>3
        <4>2. got[n] = s[n].id
          BY <4>1, <2>1 DEF FirstIds
        <4> QED
          BY <4>1, <4>2, <1>3
      <3>2. CASE Offset < n
        <4>1. /\ n - Offset \in 1..(L - Offset)
              /\ Len(got) + (n - Offset) = n /\ Offset + (n - Offset) = n
          BY <3>2, <2>2, <1>2, <1>3
        <4> QED
          BY <4>1, <1>3
      <3> QED
        BY <3>1, <3>2, <1>2, <1>3
    <2>5. got' = FirstIds(s, E)
      <3>1. got' = [n \in 1..E |-> got'[n]]
        BY <2>3, <1>3
      <3> HIDE DEF E
      <3> QED
        BY <3>1, <2>4, Zenon DEF FirstIds
    <2>6. Offset' = E /\ Offset' <= N
      BY <2>1, <1>2, <1>3, <1>4, <1>5
    <2>7. \A t \in Orders(rows) : t = s
      BY <1>2, OneAnswer
    <2>8. L <= Offset /\ L = N => E = N
      BY <2>1, <1>2, <1>3, <1>4
    <2>9. start' > total => E = N
      BY <2>1, <1>2, <1>3, <1>4 DEF Offset
    <2> HIDE DEF E
    <2>10. CASE walk' = "count"
      BY <2>10, <2>5, <2>6, <2>7, <1>1 DEF Undisturbed
    <2>11. CASE walk' \in {"done", "stopped"} /\ E = N
      <3>1. s \in Orders(rows') /\ got' = FirstIds(s, Cardinality(rows'))
        BY <2>11, <2>5, <1>1
      <3> QED
        BY <2>11, <3>1 DEF Undisturbed
    <2> QED
      BY <2>8, <2>9, <2>10, <2>11, <1>3
  <1> QED
    BY <1>6, <1>8, <1>9 DEF ListingInv
-----------------------------------------------------------------------------
LEMMA WalkStep ==
  ASSUME ListingInv, [ListingNext]_listing
  PROVE  ListingInv'
  <1>1. /\ clock \in 0..MaxTime /\ open \subseteq User /\ MaxTime \in Nat
    BY ListingAssumption DEF ListingInv, ListingTypeOK
  <1>2. CASE Tick
    <2>1. clock' \in 0..MaxTime
      BY <1>1, <1>2 DEF Tick
    <2>2. open' \subseteq User /\ UNCHANGED <<rows, walk, start, total, got, base>>
      BY <1>1, <1>2 DEF Tick
    <2> QED
      BY <2>1, <2>2, ElsewhereKeeps
  <1>3. CASE BeginCreate
    <2>1. PICK i \in Ids \ Used : open' = open \cup {[id |-> i, at |-> clock]}
      BY <1>3 DEF BeginCreate
    <2>2. [id |-> i, at |-> clock] \in User
      BY <1>1 DEF User
    <2>3. open' \subseteq User
      BY <2>1, <2>2, <1>1
    <2>4. clock' \in 0..MaxTime /\ UNCHANGED <<rows, walk, start, total, got, base>>
      BY <1>1, <1>3 DEF BeginCreate
    <2> QED
      BY <2>3, <2>4, ElsewhereKeeps
  <1>4. CASE AbortCreate
    <2>1. open' \subseteq User
      BY <1>1, <1>4 DEF AbortCreate
    <2>2. clock' \in 0..MaxTime /\ UNCHANGED <<rows, walk, start, total, got, base>>
      BY <1>1, <1>4 DEF AbortCreate
    <2> QED
      BY <2>1, <2>2, ElsewhereKeeps
  <1>5. CASE UNCHANGED listing
    <2>1. /\ clock' \in 0..MaxTime /\ open' \subseteq User
          /\ UNCHANGED <<rows, walk, start, total, got, base>>
      BY <1>1, <1>5 DEF listing
    <2> QED
      BY <2>1, ElsewhereKeeps
  <1> QED
    BY <1>2, <1>3, <1>4, <1>5, CommitKeeps, BeginKeeps, CountKeeps, PageKeeps DEF ListingNext

\* A walk that goes on to an empty page has every user there was when it began,
\* whatever is committed meanwhile, and one that nothing disturbs has the whole
\* table once and in order: list and ListUsers, for every set of ids, page size
\* and pattern of commits.
THEOREM WalkSkipsNone == ListingSpec => []NoneSkipped
  <1>1. ListingInv => NoneSkipped
    <2> SUFFICES ASSUME ListingInv PROVE NoneSkipped
      OBVIOUS
    <2>1. walk = "done" => \A u \in base : \E n \in 1..Len(got) : got[n] = u.id
      BY DEF ListingInv, NobodyBehind, Received
    <2>2. ASSUME walk \in {"done", "stopped"}, rows = base
          PROVE  \E s \in Orders(rows) : got = [n \in 1..Len(s) |-> s[n].id]
      <3>1. PICK s \in Orders(rows) : got = FirstIds(s, Cardinality(rows))
        BY <2>2 DEF ListingInv, Undisturbed
      <3>2. Len(s) = Cardinality(rows)
        BY AnswerIsBijection DEF ListingInv, ListingTypeOK
      <3> QED
        BY <3>1, <3>2 DEF FirstIds
    <2> QED
      BY <2>1, <2>2 DEF NoneSkipped
  <1> QED
    BY <1>1, WalkInit, WalkStep, PTL DEF ListingSpec
-----------------------------------------------------------------------------
(* The calls of Algorithms. *)

CallOrNone == input = [fn |-> "none"] \/ input \in Calls

LEMMA NoCallYet == AlgorithmsInit => CallOrNone
  BY DEF AlgorithmsInit, CallOrNone

LEMMA OneCall == CallOrNone /\ [Call]_input => CallOrNone'
  BY DEF Call, CallOrNone
-----------------------------------------------------------------------------
(* Backoff. *)

\* Pow2 is what its definition says.
LEMMA Powers ==
  /\ Pow2[0] = 1 /\ \A n \in Nat : Pow2[n + 1] = 2 * Pow2[n]
  /\ \A n \in Nat : Pow2[n] \in Nat \ {0}
  <1> DEFINE S == Nat \ {0}
             F == [i \in Nat |-> [x \in S |-> 2 * x]]
  <1>1. \A i \in Nat \ {0} : F[i] \in [S -> S]
    OBVIOUS
  <1>2. 1 \in S
    OBVIOUS
  <1>3. PICK f : IsRecursion(f, S, 1, F)
    <2> HIDE DEF S, F
    <2> QED
      BY <1>1, <1>2, RecursionOnNat, Zenon DEF S
  <1>4. f \in [Nat -> S] /\ f[0] = 1 /\ \A i \in Nat \ {0} : f[i] = 2 * f[i - 1]
    <2>1. f \in [Nat -> S] /\ f[0] = 1
      BY <1>3 DEF IsRecursion
    <2>2. ASSUME NEW i \in Nat \ {0} PROVE f[i] = 2 * f[i - 1]
      <3>1. i - 1 \in Nat
        OBVIOUS
      <3>2. f[i - 1] \in S
        BY <2>1, <3>1
      <3>3. f[i] = F[i][f[i - 1]]
        BY <1>3 DEF IsRecursion
      <3>4. F[i] = [x \in S |-> 2 * x]
        OBVIOUS
      <3> QED
        BY <3>2, <3>3, <3>4
    <2> QED
      BY <2>1, <2>2
  <1>5. f = [n \in Nat |-> IF n = 0 THEN 1 ELSE 2 * f[n - 1]]
    BY <1>4
  <1>6. Pow2 = [n \in Nat |-> IF n = 0 THEN 1 ELSE 2 * Pow2[n - 1]]
    BY <1>5 DEF Pow2
  <1>7. Pow2[0] = 1
    BY <1>6
  <1>8. ASSUME NEW n \in Nat PROVE Pow2[n + 1] = 2 * Pow2[n]
    <2>1. n + 1 \in Nat /\ n + 1 # 0 /\ (n + 1) - 1 = n
      OBVIOUS
    <2> QED
      BY <1>6, <2>1
  <1> DEFINE T == {n \in Nat : Pow2[n] \in S}
  <1>9. 0 \in T
    BY <1>7
  <1>10. \A n \in Nat : n \in T => n + 1 \in T
    BY <1>8
  <1> HIDE DEF T
  <1>11. \A n \in Nat : n \in T
    BY <1>9, <1>10, InductionOnNat
  <1> QED
    BY <1>7, <1>8, <1>11 DEF T

\* A number that fits is left alone.
LEMMA WrapKeeps ==
  /\ Pow2[Width - 1] \in Nat \ {0}
  /\ \A x \in Int : Wrap(x) \in Int
  /\ \A x \in Nat : x < Pow2[Width - 1] => Wrap(x) = x
  <1> DEFINE h == Pow2[Width - 1]
  <1>1. Width - 1 \in Nat /\ (Width - 1) + 1 = Width
    BY AlgorithmsAssumption
  <1>2. h \in Nat \ {0} /\ Pow2[Width] = 2 * h
    BY <1>1, Powers
  <1> HIDE DEF h
  <1>3. \A x \in Int : ((x + h) % (2 * h)) - h \in Int
    BY <1>2
  <1>4. ASSUME NEW x \in Nat, x < h PROVE ((x + h) % (2 * h)) - h = x
    BY <1>2, <1>4
  <1> QED
    BY <1>2, <1>3, <1>4 DEF Wrap, h

\* The rounds of the loop, one after the other.
Doubles(wait, b, c, n) ==
  /\ wait[0] = b
  /\ \A i \in 1..n : wait[i] = IF wait[i - 1] < c THEN Wrap(2 * wait[i - 1]) ELSE wait[i - 1]

LEMMA DoublingsDef ==
  ASSUME NEW b \in Int, NEW c \in Int, NEW n \in Nat
  PROVE  Doubles(Doublings(b, c, n), b, c, n)
  <1> DEFINE F == [i \in 1..n |-> [x \in Int |-> IF x < c THEN Wrap(2 * x) ELSE x]]
             Body(f) == [i \in 0..n |-> IF i = 0 THEN b
                                        ELSE IF f[i - 1] < c THEN Wrap(2 * f[i - 1]) ELSE f[i - 1]]
  <1>1. \A x \in Int : (IF x < c THEN Wrap(2 * x) ELSE x) \in Int
    BY WrapKeeps
  <1>2. \A i \in 1..n : F[i] \in [Int -> Int]
    BY <1>1
  <1>3. PICK f : IsRecursionUpTo(f, n, Int, b, F)
    <2> HIDE DEF F
    <2> QED
      BY <1>2, RecursionUpTo, Zenon
  <1>4. ASSUME NEW i \in 0..n, i # 0
        PROVE  F[i][f[i - 1]] = IF f[i - 1] < c THEN Wrap(2 * f[i - 1]) ELSE f[i - 1]
    <2>1. i \in 1..n /\ i - 1 \in 0..n
      BY <1>4
    <2>2. f[i - 1] \in Int
      BY <2>1, <1>3 DEF IsRecursionUpTo
    <2> QED
      BY <2>1, <2>2
  <1> HIDE DEF F
  <1>5. f = Body(f)
    BY <1>3, <1>4 DEF IsRecursionUpTo
  <1>6. Doublings(b, c, n) = Body(Doublings(b, c, n))
    BY <1>5 DEF Doublings
  <1> DEFINE wait == Doublings(b, c, n)
  <1> HIDE DEF wait
  <1>7. wait = Body(wait)
    BY <1>6 DEF wait
  <1>8. Doubles(wait, b, c, n)
    BY <1>7 DEF Doubles
  <1> QED
    BY <1>8 DEF wait

\* After i rounds the wait is the i-th double, or both are at the cap or beyond
\* it. A wait that is doubled again is below the cap, so it fits.
LEMMA RoundsDouble ==
  ASSUME NEW b \in Nat, 1 <= b, b < Pow2[Width - 1],
         NEW c \in Nat \ {0}, 2 * c <= Pow2[Width - 1], NEW n \in Nat
  PROVE  \A i \in 0..n :
           LET w == Doublings(b, c, n)[i]
           IN  /\ w \in Nat /\ 1 <= w /\ w < Pow2[Width - 1]
               /\ w = b * Pow2[i] \/ (c <= w /\ c <= b * Pow2[i])
  <1> DEFINE h == Pow2[Width - 1]
             wait == Doublings(b, c, n)
             Good(i) == /\ wait[i] \in Nat /\ 1 <= wait[i] /\ wait[i] < h
                        /\ wait[i] = b * Pow2[i] \/ (c <= wait[i] /\ c <= b * Pow2[i])
             T == {i \in 0..n : Good(i)}
  <1>1. /\ wait[0] = b
        /\ \A i \in 1..n :
             wait[i] = IF wait[i - 1] < c THEN Wrap(2 * wait[i - 1]) ELSE wait[i - 1]
    <2>1. b \in Int /\ c \in Int
      OBVIOUS
    <2>2. Doubles(wait, b, c, n)
      BY <2>1, DoublingsDef
    <2> HIDE DEF wait
    <2> QED
      BY <2>2 DEF Doubles
  <1>2. h \in Nat \ {0}
    BY WrapKeeps
  <1> HIDE DEF wait
  <1>3. 0 \in T
    <2>1. wait[0] = b
      BY <1>1
    <2>2. b * Pow2[0] = b
      BY Powers
    <2> QED
      BY <2>1, <2>2
  <1>4. ASSUME NEW i \in 0..(n - 1), i \in T PROVE i + 1 \in T
    <2>1. i \in Nat /\ i + 1 \in 0..n /\ i + 1 \in 1..n /\ (i + 1) - 1 = i
      OBVIOUS
    <2>2. wait[i + 1] = IF wait[i] < c THEN Wrap(2 * wait[i]) ELSE wait[i]
      BY <1>1, <2>1
    <2>3. Pow2[i] \in Nat /\ Pow2[i + 1] = 2 * Pow2[i]
      BY <2>1, Powers
    <2> DEFINE d == b * Pow2[i]
    <2>4. d \in Nat /\ b * Pow2[i + 1] = 2 * d
      BY <2>3
    <2>5. /\ wait[i] \in Nat /\ 1 <= wait[i] /\ wait[i] < h
          /\ wait[i] = d \/ (c <= wait[i] /\ c <= d)
      BY <1>4
    <2> HIDE DEF d, h
    <2>6. CASE wait[i] < c
      <3>1. 2 * wait[i] \in Nat /\ 2 * wait[i] < h
        BY <2>5, <2>6, <1>2 DEF h
      <3>2. wait[i + 1] = 2 * wait[i]
        BY <3>1, <2>2, <2>6, WrapKeeps DEF h
      <3> QED
        BY <3>1, <3>2, <2>1, <2>4, <2>5, <2>6
    <2>7. CASE ~(wait[i] < c)
      BY <2>1, <2>2, <2>4, <2>5, <2>7
    <2> QED
      BY <2>6, <2>7
  <1> HIDE DEF T
  <1>5. \A i \in 0..n : i \in T
    BY <1>3, <1>4, InductionUpTo
  <1> QED
    BY <1>5 DEF T, wait

\* The jitter fits as well.
LEMMA JitterFits ==
  ASSUME NEW w \in Nat, 1 <= w, NEW h \in Nat, 2 * w <= h, NEW j \in 0..(w \div 5)
  PROVE  w + j \in Nat /\ w + j < h /\ w <= w + j /\ 5 * (w + j) <= 6 * w
  <1>1. 5 * (w \div 5) <= w /\ w \div 5 \in Nat
    OBVIOUS
  <1>2. j \in Nat /\ 5 * j <= w
    BY <1>1
  <1> QED
    BY <1>2

LEMMA BackoffIs ==
  ASSUME NEW b \in Bases, NEW c \in Caps, NEW n \in Nat \ {0}
  PROVE  LET exact == Smaller(b * Pow2[n - 1], c)
         IN  /\ backoff(b, c, n) # {}
             /\ \A d \in backoff(b, c, n) : exact <= d /\ 5 * d <= 6 * exact
  <1> DEFINE h == Pow2[Width - 1]
             last == Doublings(b, c, n - 1)[n - 1]
             wait == Wait(b, c, n)
             exact == Smaller(b * Pow2[n - 1], c)
  <1>1. /\ b \in 1..(h - 1) /\ c \in Nat \ {0} /\ 2 * c <= h
    BY AlgorithmsAssumption
  <1>2. h \in Nat \ {0}
    BY WrapKeeps
  <1>3. b \in Nat /\ 1 <= b /\ b < h
    BY <1>1, <1>2
  <1>4. n - 1 \in Nat /\ n - 1 \in 0..(n - 1)
    OBVIOUS
  <1>5. /\ last \in Nat /\ 1 <= last /\ last < h
        /\ last = b * Pow2[n - 1] \/ (c <= last /\ c <= b * Pow2[n - 1])
    BY <1>1, <1>3, <1>4, RoundsDouble
  <1>6. b * Pow2[n - 1] \in Nat
    BY <1>3, <1>4, Powers
  <1>7. wait = exact /\ wait \in Nat /\ 1 <= wait /\ wait <= c
    <2> DEFINE d == b * Pow2[n - 1]
    <2> HIDE DEF d, last
    <2>1. Smaller(last, c) = Smaller(d, c) /\ Smaller(last, c) \in Nat
          /\ 1 <= Smaller(last, c) /\ Smaller(last, c) <= c
      BY <1>1, <1>5, <1>6 DEF Smaller, d
    <2> QED
      BY <2>1 DEF Wait, d, last
  <1> HIDE DEF wait, exact, h
  <1>8. \A j \in 0..(wait \div 5) :
          Wrap(wait + j) = wait + j /\ wait <= wait + j /\ 5 * (wait + j) <= 6 * wait
    <2> SUFFICES ASSUME NEW j \in 0..(wait \div 5)
                 PROVE  Wrap(wait + j) = wait + j /\ wait <= wait + j /\ 5 * (wait + j) <= 6 * wait
      OBVIOUS
    <2>1. 2 * wait <= h
      BY <1>1, <1>2, <1>7
    <2>2. wait + j \in Nat /\ wait + j < h /\ wait <= wait + j /\ 5 * (wait + j) <= 6 * wait
      BY <2>1, <1>2, <1>7, JitterFits
    <2> QED
      BY <2>2, WrapKeeps DEF h
  <1>9. backoff(b, c, n) = {Wrap(wait + j) : j \in 0..(wait \div 5)}
    BY DEF backoff, wait
  <1>10. 0 \in 0..(wait \div 5)
    BY <1>7
  <1>11. \A d \in backoff(b, c, n) : exact <= d /\ 5 * d <= 6 * exact
    BY <1>7, <1>8, <1>9
  <1> QED
    BY <1>9, <1>10, <1>11 DEF exact

\* backoff waits the capped double and up to a fifth more, for every width of a
\* duration, every base that fits it and every number of attempts, as long as
\* the cap leaves room for one doubling.
THEOREM BackoffDoubles == AlgorithmsSpec => []BackoffIsCappedDoubling
  <1>1. CallOrNone => BackoffIsCappedDoubling
    <2> SUFFICES ASSUME CallOrNone, input.fn = "backoff" PROVE BackoffIsCappedDoubling
      BY DEF BackoffIsCappedDoubling
    <2>1. input \in [fn : {"backoff"}, base : Bases, cap : Caps, attempts : 1..MaxAttempt]
      BY DEF CallOrNone, Calls
    <2>2. input.base \in Bases /\ input.cap \in Caps /\ input.attempts \in 1..MaxAttempt
      BY <2>1
    <2>3. input.attempts \in Nat \ {0}
      BY <2>2, AlgorithmsAssumption
    <2> QED
      BY <2>2, <2>3, BackoffIs DEF BackoffIsCappedDoubling
  <1> QED
    BY <1>1, NoCallYet, OneCall, PTL DEF AlgorithmsSpec
-----------------------------------------------------------------------------
(* Sorting. *)

\* The elements of S that come no later than x in the order R.
UpTo(S, R, x) == {y \in S : <<y, x>> \in R}

LinearlyOrders(R, S) ==
  /\ \A x, y \in S : <<x, y>> \in R \/ <<y, x>> \in R
  /\ \A x, y \in S : <<x, y>> \in R /\ <<y, x>> \in R => x = y
  /\ \A x, y, z \in S : <<x, y>> \in R /\ <<y, z>> \in R => <<x, z>> \in R

\* An arrangement has an element for every place. Different elements have
\* different places, since one of them counts for the other and not conversely,
\* so there are as many places taken as there are places.
LEMMA ArrangedPlace ==
  ASSUME NEW S, IsFiniteSet(S), NEW R, LinearlyOrders(R, S)
  PROVE  /\ Cardinality(S) \in Nat
         /\ \A i \in 1..Cardinality(S) :
              /\ Arranged(S, R)[i] \in S
              /\ Cardinality(UpTo(S, R, Arranged(S, R)[i])) = i
  <1> DEFINE N == Cardinality(S)
             place == [x \in S |-> Cardinality(UpTo(S, R, x))]
  <1>1. N \in Nat
    BY FS_CardinalityType
  <1>2. ASSUME NEW x \in S
        PROVE  /\ UpTo(S, R, x) \in SUBSET S /\ IsFiniteSet(UpTo(S, R, x)) /\ x \in UpTo(S, R, x)
               /\ Cardinality(UpTo(S, R, x)) \in 1..N
    <2>1. UpTo(S, R, x) \in SUBSET S /\ x \in UpTo(S, R, x)
      BY DEF UpTo, LinearlyOrders
    <2>2. IsFiniteSet(UpTo(S, R, x)) /\ Cardinality(UpTo(S, R, x)) <= N
      BY <2>1, FS_Subset
    <2>3. Cardinality(UpTo(S, R, x)) \in Nat
      BY <2>2, FS_CardinalityType
    <2>4. Cardinality(UpTo(S, R, x)) # 0
      BY <2>1, <2>2, FS_EmptySet
    <2> QED
      BY <1>1, <2>1, <2>2, <2>3, <2>4
  <1>3. ASSUME NEW x \in S, NEW y \in S, x # y, <<x, y>> \in R
        PROVE  Cardinality(UpTo(S, R, x)) # Cardinality(UpTo(S, R, y))
    <2>1. UpTo(S, R, x) \in SUBSET UpTo(S, R, y)
      BY <1>3 DEF UpTo, LinearlyOrders
    <2>2. y \notin UpTo(S, R, x)
      BY <1>3 DEF UpTo, LinearlyOrders
    <2>3. UpTo(S, R, x) # UpTo(S, R, y)
      BY <1>2, <2>2
    <2> QED
      BY <1>2, <2>1, <2>3, FS_Subset
  <1>4. \A x, y \in S : place[x] = place[y] => x = y
    BY <1>3 DEF LinearlyOrders
  <1>5. place \in [S -> 1..N]
    BY <1>2
  <1>6. place \in Injection(S, 1..N)
    BY <1>4, <1>5, Fun_IsInj
  <1>7. IsFiniteSet(1..N) /\ Cardinality(1..N) = N
    BY <1>1, FS_Interval
  <1>8. place \in Surjection(S, 1..N)
    BY <1>6, <1>7, FS_Injection
  <1>9. ASSUME NEW i \in 1..N
        PROVE  Arranged(S, R)[i] \in S /\ Cardinality(UpTo(S, R, Arranged(S, R)[i])) = i
    <2>1. \E x \in S : Cardinality(UpTo(S, R, x)) = i
      BY <1>8 DEF Surjection
    <2>2. Arranged(S, R)[i] = CHOOSE x \in S : Cardinality(UpTo(S, R, x)) = i
      BY DEF Arranged, UpTo
    <2> QED
      BY <2>1, <2>2
  <1> QED
    BY <1>1, <1>9

\* The number of times that are no later than v.
NoLater(times, v) == Cardinality({n \in DOMAIN times : times[n] <= v})

LEMMA NoLaterIsNat ==
  ASSUME NEW D \in SUBSET Int, IsFiniteSet(D), NEW times \in [D -> Int], NEW v \in Int
  PROVE  /\ IsFiniteSet({n \in DOMAIN times : times[n] <= v})
         /\ NoLater(times, v) \in 0..Cardinality(D) /\ Cardinality(D) \in Nat
  <1> DEFINE U == {n \in DOMAIN times : times[n] <= v}
  <1>1. U \in SUBSET D
    OBVIOUS
  <1>2. IsFiniteSet(U) /\ Cardinality(U) <= Cardinality(D)
    BY <1>1, FS_Subset
  <1>3. Cardinality(U) \in Nat /\ Cardinality(D) \in Nat
    BY <1>2, FS_CardinalityType
  <1> QED
    BY <1>2, <1>3 DEF NoLater

\* The i-th of the sorted times is no later than v if and only if i of the times
\* are. This determines the sorted sequence.
LEMMA SortedPlace ==
  ASSUME NEW D \in SUBSET Int, IsFiniteSet(D), NEW times \in [D -> Int]
  PROVE  /\ Sorted(times) \in [1..Cardinality(D) -> Int] /\ Cardinality(D) \in Nat
         /\ \A i \in 1..Cardinality(D), v \in Int : Sorted(times)[i] <= v <=> i <= NoLater(times, v)
  <1> DEFINE N == Cardinality(D)
             R == Precedes(times)
             p == Arranged(D, R)
             s == Sorted(times)
  <1>1. \A x, y \in D : <<x, y>> \in R <=> times[x] < times[y] \/ (times[x] = times[y] /\ x <= y)
    BY DEF Precedes
  <1>2. LinearlyOrders(R, D)
    <2> HIDE DEF R
    <2>1. ASSUME NEW x \in D, NEW y \in D PROVE <<x, y>> \in R \/ <<y, x>> \in R
      <3>1. times[x] \in Int /\ times[y] \in Int /\ x \in Int /\ y \in Int
        OBVIOUS
      <3>2. \/ times[x] < times[y] \/ (times[x] = times[y] /\ x <= y)
            \/ times[y] < times[x] \/ (times[y] = times[x] /\ y <= x)
        BY <3>1
      <3> QED
        BY <1>1, <3>2
    <2>2. ASSUME NEW x \in D, NEW y \in D, <<x, y>> \in R, <<y, x>> \in R PROVE x = y
      <3>1. times[x] \in Int /\ times[y] \in Int /\ x \in Int /\ y \in Int
        OBVIOUS
      <3>2. /\ times[x] < times[y] \/ (times[x] = times[y] /\ x <= y)
            /\ times[y] < times[x] \/ (times[y] = times[x] /\ y <= x)
        BY <1>1, <2>2
      <3> QED
        BY <3>1, <3>2
    <2>3. \A x, y, z \in D : <<x, y>> \in R /\ <<y, z>> \in R => <<x, z>> \in R
      <3> SUFFICES ASSUME NEW x \in D, NEW y \in D, NEW z \in D, <<x, y>> \in R, <<y, z>> \in R
                   PROVE  <<x, z>> \in R
        OBVIOUS
      <3>1. times[x] \in Int /\ times[y] \in Int /\ times[z] \in Int /\ x \in Int /\ y \in Int /\ z \in Int
        OBVIOUS
      <3>2. times[x] < times[y] \/ (times[x] = times[y] /\ x <= y)
        BY <1>1
      <3>3. times[y] < times[z] \/ (times[y] = times[z] /\ y <= z)
        BY <1>1
      <3>4. times[x] < times[z] \/ (times[x] = times[z] /\ x <= z)
        BY <3>1, <3>2, <3>3
      <3> QED
        BY <1>1, <3>4
    <2> QED
      BY <2>1, <2>2, <2>3 DEF LinearlyOrders
  <1>3. /\ N \in Nat
        /\ \A i \in 1..N : p[i] \in D /\ Cardinality(UpTo(D, R, p[i])) = i
    BY <1>2, ArrangedPlace
  <1>4. s = [i \in 1..N |-> times[p[i]]]
    BY DEF Sorted
  <1> HIDE DEF p, s, R
  <1>5. s \in [1..N -> Int]
    BY <1>3, <1>4
  <1>6. ASSUME NEW i \in 1..N, NEW v \in Int PROVE s[i] <= v <=> i <= NoLater(times, v)
    <2> DEFINE U == {n \in D : times[n] <= v}
               B == UpTo(D, R, p[i])
    <2>1. s[i] = times[p[i]] /\ p[i] \in D /\ Cardinality(B) = i
      BY <1>3, <1>4
    <2>2. IsFiniteSet(U) /\ Cardinality(U) = NoLater(times, v) /\ NoLater(times, v) \in 0..N
      BY NoLaterIsNat DEF NoLater
    <2>3. B \in SUBSET D /\ IsFiniteSet(B) /\ p[i] \in B
      <3>1. B \in SUBSET D /\ p[i] \in B
        BY <2>1, <1>2 DEF UpTo, LinearlyOrders
      <3> QED
        BY <3>1, FS_Subset
    <2>4. CASE s[i] <= v
      <3>1. B \in SUBSET U
        <4> SUFFICES ASSUME NEW y \in B PROVE y \in D /\ times[y] <= v
          OBVIOUS
        <4>1. y \in D /\ <<y, p[i]>> \in R
          BY DEF UpTo
        <4>2. times[y] < times[p[i]] \/ times[y] = times[p[i]]
          BY <1>1, <2>1, <4>1
        <4>3. times[y] \in Int /\ times[p[i]] \in Int
          BY <2>1, <4>1
        <4> QED
          BY <2>1, <2>4, <4>1, <4>2, <4>3
      <3>2. Cardinality(B) <= Cardinality(U)
        BY <3>1, <2>2, FS_Subset
      <3> QED
        BY <3>2, <2>1, <2>2, <2>4
    <2>5. CASE ~(s[i] <= v)
      <3>1. U \in SUBSET B
        <4> SUFFICES ASSUME NEW y \in D, times[y] <= v PROVE <<y, p[i]>> \in R
          BY DEF UpTo
        <4>1. times[y] \in Int /\ times[p[i]] \in Int
          BY <2>1
        <4>2. times[y] < times[p[i]]
          BY <2>1, <2>5, <4>1
        <4> QED
          BY <1>1, <2>1, <4>2
      <3>2. p[i] \notin U
        BY <2>1, <2>5
      <3>3. Cardinality(U) <= Cardinality(B) /\ Cardinality(U) # Cardinality(B)
        BY <3>1, <3>2, <2>3, FS_Subset
      <3> QED
        BY <3>3, <2>1, <2>2, <2>5
    <2> QED
      BY <2>4, <2>5
  <1> QED
    BY <1>3, <1>5, <1>6 DEF s

\* The times of an interval are those up to its end but for those before it.
LEMMA BetweenIs ==
  ASSUME NEW D \in SUBSET Int, IsFiniteSet(D), NEW times \in [D -> Int],
         NEW a \in Int, NEW b \in Int, a - 1 <= b
  PROVE  Between(times, a, b) = NoLater(times, b) - NoLater(times, a - 1)
  <1> DEFINE U == {n \in DOMAIN times : times[n] <= b}
             V == {n \in DOMAIN times : times[n] <= a - 1}
             W == {n \in DOMAIN times : a <= times[n] /\ times[n] <= b}
  <1>1. IsFiniteSet(U)
    BY NoLaterIsNat
  <1>2. ASSUME NEW n \in DOMAIN times
        PROVE  /\ times[n] <= a - 1 => times[n] <= b
               /\ a <= times[n] <=> ~(times[n] <= a - 1)
    <2>1. times[n] \in Int
      OBVIOUS
    <2> QED
      BY <2>1
  <1>3. U \cap V = V
    BY <1>2, Zenon
  <1>4. U \ V = W
    BY <1>2, Zenon
  <1>5. Cardinality(U \ V) = Cardinality(U) - Cardinality(U \cap V)
    BY <1>1, FS_Difference
  <1> QED
    BY <1>3, <1>4, <1>5 DEF Between, NoLater
-----------------------------------------------------------------------------
(* The sliding window. *)

RunRecord == [j : Int, best : Int, from : Int, to : Int]

NonDecreasing(s, n) == \A i, j \in 1..n : i <= j => s[i] <= s[j]

\* The inner loop ends, at the latest at the time it started from.
LEMMA FirstIs ==
  ASSUME NEW n \in Nat, NEW s \in [1..n -> Int], NEW i \in 1..n, NEW j \in 1..i
  PROVE  /\ First(s, i, j) \in j..i
         /\ s[i] - s[First(s, i, j)] <= BulkWindow
         /\ \A l \in j..(First(s, i, j) - 1) : s[i] - s[l] > BulkWindow
  <1> DEFINE T == {k \in j..i : ~Span(s, i, k)}
  <1>1. \A k \in j..i : s[i] \in Int /\ s[k] \in Int /\ k \in Nat
    OBVIOUS
  <1>2. BulkWindow \in Nat
    BY AlgorithmsAssumption
  <1>3. i \in T
    BY <1>1, <1>2 DEF Span
  <1>4. T \in SUBSET Nat
    BY <1>1
  <1> HIDE DEF T
  <1>5. PICK m \in T : \A k \in T : m <= k
    BY <1>3, <1>4, LeastOf
  <1>6. m \in j..i /\ ~Span(s, i, m)
    BY DEF T
  <1>7. ASSUME NEW l \in j..(m - 1) PROVE Span(s, i, l)
    <2>1. l \in j..i /\ ~(m <= l)
      BY <1>6
    <2> QED
      BY <2>1, <1>5 DEF T
  <1>8. First(s, i, j) \in j..i /\ ~Span(s, i, First(s, i, j))
        /\ \A l \in j..(First(s, i, j) - 1) : Span(s, i, l)
    BY <1>6, <1>7, Zenon DEF First
  <1> DEFINE k == First(s, i, j)
  <1> HIDE DEF k
  <1>9. k \in j..i /\ ~Span(s, i, k) /\ \A l \in j..(k - 1) : Span(s, i, l)
    BY <1>8 DEF k
  <1>10. s[i] - s[k] <= BulkWindow
    BY <1>1, <1>2, <1>9 DEF Span
  <1>11. \A l \in j..(k - 1) : s[i] - s[l] > BulkWindow
    BY <1>9 DEF Span
  <1> QED
    BY <1>9, <1>10, <1>11 DEF k

LEMMA LongerIs ==
  ASSUME NEW n \in Nat, NEW s \in [1..n -> Int], NEW i \in 1..n, NEW x \in RunRecord, x.j \in 1..i
  PROVE  /\ Longer(s, i, x) \in RunRecord
         /\ Longer(s, i, x).j = First(s, i, x.j)
         /\ IF i - First(s, i, x.j) + 1 > x.best
              THEN /\ Longer(s, i, x).best = i - First(s, i, x.j) + 1
                   /\ Longer(s, i, x).from = s[First(s, i, x.j)]
                   /\ Longer(s, i, x).to = s[i]
              ELSE /\ Longer(s, i, x).best = x.best
                   /\ Longer(s, i, x).from = x.from
                   /\ Longer(s, i, x).to = x.to
  <1> DEFINE j0 == x.j
             k == First(s, i, j0)
  <1>1. k \in j0..i /\ j0 \in 1..i
    BY FirstIs
  <1>2. x.best \in Int /\ x.from \in Int /\ x.to \in Int
    BY DEF RunRecord
  <1>3. Longer(s, i, x) = IF i - k + 1 > x.best
                            THEN [j |-> k, best |-> i - k + 1, from |-> s[k], to |-> s[i]]
                            ELSE [j |-> k, best |-> x.best, from |-> x.from, to |-> x.to]
    BY DEF Longer
  <1> HIDE DEF k, j0
  <1>4. k \in Int /\ s[k] \in Int /\ s[i] \in Int
    BY <1>1
  <1>5. Longer(s, i, x) \in RunRecord
    BY <1>2, <1>3, <1>4 DEF RunRecord
  <1> QED
    BY <1>3, <1>5 DEF k, j0

LEMMA RunsDef ==
  ASSUME NEW n \in Nat, NEW s \in [1..n -> Int]
  PROVE  /\ Runs(s, n)[0] = NoRun
         /\ \A i \in 0..n : Runs(s, n)[i] \in RunRecord /\ Runs(s, n)[i].j \in 1..(i + 1)
         /\ \A i \in 1..n : Runs(s, n)[i] = Longer(s, i, Runs(s, n)[i - 1])
  <1> DEFINE F == [i \in 1..n |-> [x \in RunRecord |-> IF x.j \in 1..i THEN Longer(s, i, x) ELSE x]]
             Body(f) == [i \in 0..n |-> IF i = 0 THEN NoRun ELSE Longer(s, i, f[i - 1])]
  <1>1. \A i \in 1..n : F[i] \in [RunRecord -> RunRecord]
    <2> SUFFICES ASSUME NEW i \in 1..n, NEW x \in RunRecord, x.j \in 1..i
                 PROVE  Longer(s, i, x) \in RunRecord
      OBVIOUS
    <2> QED
      BY LongerIs
  <1>2. NoRun \in RunRecord /\ NoRun.j = 1
    BY DEF NoRun, RunRecord
  <1>3. PICK f : IsRecursionUpTo(f, n, RunRecord, NoRun, F)
    <2> HIDE DEF F
    <2> QED
      BY <1>1, <1>2, RecursionUpTo, Zenon
  <1>4. /\ f[0] = NoRun /\ f \in [0..n -> RunRecord]
        /\ \A i \in 1..n : f[i] = F[i][f[i - 1]]
    <2> HIDE DEF F
    <2> QED
      BY <1>3 DEF IsRecursionUpTo
  <1>5. ASSUME NEW i \in 1..n, f[i - 1].j \in 1..i
        PROVE  f[i] = Longer(s, i, f[i - 1]) /\ f[i].j \in 1..i
    <2>1. i - 1 \in 0..n /\ f[i - 1] \in RunRecord
      BY <1>4
    <2>2. f[i] = Longer(s, i, f[i - 1])
      BY <1>4, <1>5, <2>1
    <2>3. Longer(s, i, f[i - 1]).j = First(s, i, f[i - 1].j)
      BY <1>5, <2>1, LongerIs
    <2>4. First(s, i, f[i - 1].j) \in f[i - 1].j..i
      BY <1>5, FirstIs
    <2> QED
      BY <1>5, <2>2, <2>3, <2>4
  <1> HIDE DEF F
  <1> DEFINE T == {i \in 0..n : f[i].j \in 1..(i + 1)}
  <1>6. 0 \in T
    BY <1>2, <1>4
  <1>7. ASSUME NEW i \in 0..(n - 1), i \in T PROVE i + 1 \in T
    <2>1. i + 1 \in 1..n /\ (i + 1) - 1 = i
      OBVIOUS
    <2>2. f[i].j \in 1..(i + 1)
      BY <1>7
    <2>3. f[i + 1].j \in 1..(i + 1)
      BY <1>5, <2>1, <2>2
    <2> QED
      BY <2>1, <2>3
  <1> HIDE DEF T
  <1>8. \A i \in 0..n : i \in T
    BY <1>6, <1>7, InductionUpTo
  <1>9. \A i \in 0..n : f[i].j \in 1..(i + 1)
    BY <1>8 DEF T
  <1>10. \A i \in 1..n : f[i] = Longer(s, i, f[i - 1])
    <2> SUFFICES ASSUME NEW i \in 1..n PROVE f[i] = Longer(s, i, f[i - 1])
      OBVIOUS
    <2>1. i - 1 \in 0..n /\ (i - 1) + 1 = i
      OBVIOUS
    <2>2. f[i - 1].j \in 1..i
      BY <1>9, <2>1
    <2> QED
      BY <1>5, <2>2
  <1>11. f = Body(f)
    BY <1>4, <1>10
  <1>12. Runs(s, n) = Body(Runs(s, n))
    BY <1>11 DEF Runs
  <1> DEFINE run == Runs(s, n)
  <1> HIDE DEF run
  <1>13. run = Body(run)
    BY <1>12 DEF run
  <1>14. run[0] = NoRun /\ \A i \in 1..n : run[i] = Longer(s, i, run[i - 1])
    BY <1>13
  <1> DEFINE U == {i \in 0..n : run[i] = f[i]}
  <1>15. 0 \in U
    BY <1>4, <1>14
  <1>16. ASSUME NEW i \in 0..(n - 1), i \in U PROVE i + 1 \in U
    <2>1. i + 1 \in 1..n /\ i + 1 \in 0..n /\ (i + 1) - 1 = i
      OBVIOUS
    <2>2. run[i + 1] = Longer(s, i + 1, run[i]) /\ f[i + 1] = Longer(s, i + 1, f[i])
      BY <1>10, <1>14, <2>1
    <2>3. run[i] = f[i]
      BY <1>16
    <2> QED
      BY <2>1, <2>2, <2>3
  <1> HIDE DEF U
  <1>17. \A i \in 0..n : i \in U
    BY <1>15, <1>16, InductionUpTo
  <1>18. \A i \in 0..n : run[i] = f[i]
    BY <1>17 DEF U
  <1>19. \A i \in 0..n : run[i] \in RunRecord /\ run[i].j \in 1..(i + 1)
    BY <1>4, <1>9, <1>18
  <1> QED
    BY <1>14, <1>19 DEF run

\* What is known of the longest run after i rounds: j is behind every time that
\* is still within the window, no run of those seen so far that fits the window
\* is longer, and the run that is kept is one of them.
LongestSoFar(s, i, run) ==
  /\ run \in RunRecord /\ run.j \in 1..(i + 1) /\ run.best \in Nat
  /\ i > 0 => \A l \in 1..(run.j - 1) : s[i] - s[l] > BulkWindow
  /\ \A a, b \in 1..i : a <= b /\ s[b] - s[a] <= BulkWindow => b - a + 1 <= run.best
  /\ run.best > 0 =>
       \E a, b \in 1..i : /\ a <= b /\ s[b] - s[a] <= BulkWindow
                          /\ run.best = b - a + 1 /\ run.from = s[a] /\ run.to = s[b]

\* A round keeps this: what was outside the window of the time before is outside
\* the window of this one, because the times are sorted.
LEMMA RoundKeepsLongest ==
  ASSUME NEW n \in Nat, NEW s \in [1..n -> Int], NonDecreasing(s, n),
         NEW i \in 0..(n - 1), NEW x, LongestSoFar(s, i, x)
  PROVE  LongestSoFar(s, i + 1, Longer(s, i + 1, x))
  <1> DEFINE m == i + 1
             k == First(s, m, x.j)
             y == Longer(s, m, x)
  <1>1. /\ m \in 1..n /\ m \in Nat /\ i \in Nat /\ m > 0
        /\ x \in RunRecord /\ x.j \in 1..m /\ x.best \in Nat
    BY DEF LongestSoFar
  <1>2. /\ k \in x.j..m /\ s[m] - s[k] <= BulkWindow
        /\ \A l \in x.j..(k - 1) : s[m] - s[l] > BulkWindow
    BY <1>1, FirstIs
  <1>3. /\ y \in RunRecord /\ y.j = k
        /\ IF m - k + 1 > x.best
             THEN y.best = m - k + 1 /\ y.from = s[k] /\ y.to = s[m]
             ELSE y.best = x.best /\ y.from = x.from /\ y.to = x.to
    BY <1>1, LongerIs
  <1>4. BulkWindow \in Nat
    BY AlgorithmsAssumption
  <1> HIDE DEF y, k
  <1>5. k \in 1..m /\ k \in Nat /\ y.j \in 1..(m + 1)
    BY <1>1, <1>2, <1>3
  <1>6. y.best \in Nat /\ m - k + 1 <= y.best /\ x.best <= y.best
    BY <1>1, <1>3, <1>5
  <1>7. \A l \in 1..n : s[l] \in Int
    OBVIOUS
  <1>8. ASSUME NEW l \in 1..(k - 1) PROVE s[m] - s[l] > BulkWindow
    <2>1. l \in 1..n /\ l \in Nat
      BY <1>1, <1>5
    <2>2. CASE l \in x.j..(k - 1)
      BY <2>2, <1>2
    <2>3. CASE l < x.j
      <3>1. i > 0 /\ l \in 1..(x.j - 1) /\ i \in 1..n
        BY <2>1, <2>3, <1>1
      <3>2. s[i] - s[l] > BulkWindow
        BY <3>1 DEF LongestSoFar
      <3>3. s[i] <= s[m]
        BY <3>1, <1>1 DEF NonDecreasing
      <3>4. s[i] \in Int /\ s[l] \in Int /\ s[m] \in Int
        BY <3>1, <2>1, <1>1, <1>7
      <3> QED
        BY <3>2, <3>3, <3>4, <1>4
    <2> QED
      BY <2>1, <2>2, <2>3, <1>1
  <1>9. ASSUME NEW a \in 1..m, NEW b \in 1..m, a <= b, s[b] - s[a] <= BulkWindow
        PROVE  b - a + 1 <= y.best
    <2>1. CASE b = m
      <3>1. ~(a \in 1..(k - 1))
        <4>1. a \in 1..n /\ s[a] \in Int /\ s[m] \in Int
          BY <1>1, <1>7
        <4>2. ~(s[m] - s[a] > BulkWindow)
          BY <4>1, <1>4, <1>9, <2>1
        <4> QED
          BY <4>2, <1>8
      <3>2. k <= a
        BY <3>1, <1>5, <1>1
      <3> QED
        BY <3>2, <2>1, <1>1, <1>5, <1>6
    <2>2. CASE b # m
      <3>1. a \in 1..i /\ b \in 1..i
        BY <2>2, <1>1, <1>9
      <3>2. b - a + 1 <= x.best
        BY <3>1, <1>9 DEF LongestSoFar
      <3> QED
        BY <3>1, <3>2, <1>1, <1>6
    <2> QED
      BY <2>1, <2>2
  <1>10. ASSUME y.best > 0
         PROVE  \E a, b \in 1..m : /\ a <= b /\ s[b] - s[a] <= BulkWindow
                                   /\ y.best = b - a + 1 /\ y.from = s[a] /\ y.to = s[b]
    <2>1. CASE m - k + 1 > x.best
      <3>1. k \in 1..m /\ m \in 1..m /\ k <= m
        BY <1>1, <1>5
      <3> QED
        BY <3>1, <2>1, <1>2, <1>3
    <2>2. CASE ~(m - k + 1 > x.best)
      <3>1. y.best = x.best /\ y.from = x.from /\ y.to = x.to
        BY <2>2, <1>3
      <3>2. x.best > 0
        BY <3>1, <1>10
      <3>3. PICK a \in 1..i, b \in 1..i : /\ a <= b /\ s[b] - s[a] <= BulkWindow
                                          /\ x.best = b - a + 1 /\ x.from = s[a] /\ x.to = s[b]
        BY <3>2 DEF LongestSoFar
      <3>4. a \in 1..m /\ b \in 1..m
        BY <1>1
      <3> QED
        BY <3>1, <3>3, <3>4
    <2> QED
      BY <2>1, <2>2
  <1>11. LongestSoFar(s, m, y)
    BY <1>3, <1>5, <1>6, <1>8, <1>9, <1>10 DEF LongestSoFar
  <1> QED
    BY <1>11 DEF y

\* The run of a sorted sequence: no window holds a longer one.
LEMMA RunIsLongest ==
  ASSUME NEW n \in Nat, NEW s \in [1..n -> Int], NonDecreasing(s, n)
  PROVE  LongestSoFar(s, n, Runs(s, n)[n])
  <1> DEFINE r == Runs(s, n)
  <1>1. /\ r[0] = NoRun
        /\ \A i \in 0..n : r[i] \in RunRecord /\ r[i].j \in 1..(i + 1)
        /\ \A i \in 1..n : r[i] = Longer(s, i, r[i - 1])
    BY RunsDef
  <1> HIDE DEF r
  <1> DEFINE T == {i \in 0..n : LongestSoFar(s, i, r[i])}
  <1>2. 0 \in T
    <2>1. r[0].best = 0 /\ r[0] \in RunRecord /\ r[0].j \in 1..(0 + 1)
      BY <1>1 DEF NoRun
    <2>2. LongestSoFar(s, 0, r[0])
      BY <2>1 DEF LongestSoFar
    <2> QED
      BY <2>2
  <1>3. ASSUME NEW i \in 0..(n - 1), i \in T PROVE i + 1 \in T
    <2>1. i + 1 \in 1..n /\ i + 1 \in 0..n /\ (i + 1) - 1 = i
      OBVIOUS
    <2>2. LongestSoFar(s, i, r[i])
      BY <1>3
    <2>3. r[i + 1] = Longer(s, i + 1, r[i])
      BY <1>1, <2>1
    <2>4. LongestSoFar(s, i + 1, Longer(s, i + 1, r[i]))
      BY <2>2, RoundKeepsLongest
    <2> QED
      BY <2>1, <2>3, <2>4
  <1> HIDE DEF T
  <1>4. \A i \in 0..n : i \in T
    BY <1>2, <1>3, InductionUpTo
  <1>5. n \in 0..n
    OBVIOUS
  <1>6. LongestSoFar(s, n, r[n])
    BY <1>4, <1>5 DEF T
  <1> QED
    BY <1>6 DEF r
-----------------------------------------------------------------------------
(* The cluster of a set of times. *)

\* maxCluster reports the densest window, of all there are, or none if no window
\* holds enough times.
LEMMA ClusterIs ==
  ASSUME NEW D \in SUBSET Int, IsFiniteSet(D), NEW times \in [D -> Int]
  PROVE  LET c == maxCluster(times)
         IN  /\ c.count \in Nat
             /\ \A t \in Int : \/ Between(times, t, t + BulkWindow) <= c.count
                               \/ c.count = 0 /\ Between(times, t, t + BulkWindow) < BulkCount
             /\ c.count > 0 => /\ c.count >= BulkCount /\ c.to - c.from <= BulkWindow
                               /\ c.count = Between(times, c.from, c.to)
  <1> DEFINE N == Cardinality(D)
             s == Sorted(times)
             run == Run(s)
  <1>1. /\ s \in [1..N -> Int] /\ N \in Nat
        /\ \A i \in 1..N, v \in Int : s[i] <= v <=> i <= NoLater(times, v)
    BY SortedPlace
  <1>2. BulkWindow \in Nat /\ BulkCount \in Nat \ {0}
    BY AlgorithmsAssumption
  <1>3. \A v \in Int : NoLater(times, v) \in 0..N
    BY NoLaterIsNat
  <1>4. run = Runs(s, N)[N]
    <2>1. Len(s) = N
      BY <1>1
    <2> QED
      BY <2>1 DEF Run
  <1> HIDE DEF s, run
  <1>5. NonDecreasing(s, N)
    <2> SUFFICES ASSUME NEW i \in 1..N, NEW j \in 1..N, i <= j PROVE s[i] <= s[j]
      BY DEF NonDecreasing
    <2>1. s[i] \in Int /\ s[j] \in Int
      BY <1>1
    <2>2. j <= NoLater(times, s[j]) /\ NoLater(times, s[j]) \in Int
      BY <1>1, <1>3, <2>1
    <2>3. i <= NoLater(times, s[j])
      BY <2>2
    <2> QED
      BY <1>1, <2>1, <2>3
  <1>6. LongestSoFar(s, N, run)
    BY <1>1, <1>4, <1>5, RunIsLongest
  <1>7. run.best \in Nat
    BY <1>6 DEF LongestSoFar
  <1>8. ASSUME NEW a \in Int, NEW b \in Int, a <= b, b - a <= BulkWindow
        PROVE  Between(times, a, b) \in Int /\ Between(times, a, b) <= run.best
    <2> DEFINE i == NoLater(times, b)
               l == NoLater(times, a - 1)
    <2>1. i \in 0..N /\ l \in 0..N
      BY <1>3
    <2>2. a - 1 <= b
      BY <1>8
    <2>3. Between(times, a, b) = i - l
      BY <2>2, BetweenIs
    <2> HIDE DEF i, l
    <2>4. CASE i <= l
      BY <2>1, <2>3, <2>4, <1>7
    <2>5. CASE l < i
      <3>1. i \in 1..N /\ l + 1 \in 1..N /\ l + 1 <= i
        BY <2>1, <2>5, <1>1
      <3>2. s[i] <= b
        BY <3>1, <2>1, <1>1 DEF i
      <3>3. ~(s[l + 1] <= a - 1)
        <4>1. a - 1 \in Int /\ ~(l + 1 <= l)
          BY <2>1
        <4> QED
          BY <4>1, <3>1, <1>1 DEF l
      <3>4. s[i] \in Int /\ s[l + 1] \in Int
        BY <3>1, <1>1
      <3>5. s[i] - s[l + 1] <= BulkWindow
        BY <3>2, <3>3, <3>4, <1>2, <1>8
      <3>6. i - (l + 1) + 1 <= run.best
        BY <3>1, <3>5, <1>6 DEF LongestSoFar
      <3> QED
        BY <3>6, <2>1, <2>3
    <2> QED
      BY <2>1, <2>4, <2>5
  <1>9. ASSUME run.best > 0
        PROVE  run.to - run.from <= BulkWindow /\ run.best = Between(times, run.from, run.to)
    <2>1. PICK a \in 1..N, b \in 1..N :
            /\ a <= b /\ s[b] - s[a] <= BulkWindow
            /\ run.best = b - a + 1 /\ run.from = s[a] /\ run.to = s[b]
      BY <1>6, <1>9 DEF LongestSoFar
    <2>2. s[a] \in Int /\ s[b] \in Int /\ s[a] <= s[b]
      BY <2>1, <1>1, <1>5 DEF NonDecreasing
    <2> DEFINE i == NoLater(times, s[b])
               l == NoLater(times, s[a] - 1)
    <2>3. i \in 0..N /\ l \in 0..N
      BY <2>2, <1>3
    <2>4. b <= i
      BY <2>2, <1>1
    <2>5. ~(a <= l)
      <3>1. s[a] - 1 \in Int /\ ~(s[a] <= s[a] - 1)
        BY <2>2
      <3> QED
        BY <3>1, <1>1
    <2>6. s[a] - 1 <= s[b]
      BY <2>2
    <2>7. Between(times, s[a], s[b]) = i - l
      BY <2>2, <2>6, BetweenIs
    <2> HIDE DEF i, l
    <2>8. Between(times, s[a], s[b]) <= run.best /\ Between(times, s[a], s[b]) \in Int
      BY <2>1, <2>2, <1>8
    <2>9. run.best <= i - l
      BY <2>1, <2>3, <2>4, <2>5
    <2>10. run.best = Between(times, s[a], s[b])
      BY <2>3, <2>7, <2>8, <2>9, <1>7
    <2> QED
      BY <2>1, <2>10
  <1>10. ASSUME NEW t \in Int
         PROVE  /\ Between(times, t, t + BulkWindow) \in Int
                /\ Between(times, t, t + BulkWindow) <= run.best
                /\ Between(times, t, t + BulkWindow) <= N
    <2>1. t + BulkWindow \in Int /\ t <= t + BulkWindow /\ (t + BulkWindow) - t <= BulkWindow
          /\ t - 1 <= t + BulkWindow /\ t - 1 \in Int
      BY <1>2
    <2>2. Between(times, t, t + BulkWindow) \in Int /\ Between(times, t, t + BulkWindow) <= run.best
      BY <2>1, <1>8
    <2>3. Between(times, t, t + BulkWindow) = NoLater(times, t + BulkWindow) - NoLater(times, t - 1)
      BY <2>1, BetweenIs
    <2>4. NoLater(times, t + BulkWindow) \in 0..N /\ NoLater(times, t - 1) \in 0..N
      BY <2>1, <1>3
    <2> QED
      BY <2>2, <2>3, <2>4, <1>1
  <1> DEFINE c == maxCluster(times)
  <1>11. DOMAIN times = D
    OBVIOUS
  <1>12. c = IF N < BulkCount \/ run.best < BulkCount THEN Just(0)
             ELSE [count |-> run.best, from |-> run.from, to |-> run.to]
    BY <1>11 DEF maxCluster, run, s
  <1> HIDE DEF c
  <1>13. CASE N < BulkCount \/ run.best < BulkCount
    <2>1. c.count = 0
      BY <1>12, <1>13 DEF Just
    <2>2. ASSUME NEW t \in Int PROVE Between(times, t, t + BulkWindow) < BulkCount
      <3> DEFINE d == Between(times, t, t + BulkWindow)
      <3>1. d \in Int /\ d <= run.best /\ d <= N
        BY <1>10
      <3> HIDE DEF d
      <3>2. d < BulkCount
        BY <3>1, <1>1, <1>2, <1>7, <1>13
      <3> QED
        BY <3>2 DEF d
    <2> QED
      BY <2>1, <2>2 DEF c
  <1>14. CASE ~(N < BulkCount \/ run.best < BulkCount)
    <2>1. c.count = run.best /\ c.from = run.from /\ c.to = run.to
      BY <1>12, <1>14
    <2>2. run.best > 0 /\ run.best >= BulkCount
      BY <1>2, <1>7, <1>14
    <2> QED
      BY <2>1, <2>2, <1>7, <1>9, <1>10 DEF c
  <1> QED
    BY <1>13, <1>14

Logs == UNION {[1..n -> Entry] : n \in 0..MaxEntries}

\* Every input of Detect is a log.
LEMMA DetectsALog == CallOrNone /\ input.fn = "detect" => input.log \in Logs
  <1> SUFFICES ASSUME CallOrNone, input.fn = "detect" PROVE input.log \in Logs
    OBVIOUS
  <1>1. input \in [fn : {"detect"}, log : Logs]
    BY DEF CallOrNone, Calls, Logs
  <1> QED
    BY <1>1

LEMMA LogIs ==
  ASSUME NEW log \in Logs
  PROVE  /\ IsFiniteSet(DOMAIN log) /\ DOMAIN log \in SUBSET Int
         /\ \A n \in DOMAIN log : log[n] \in Entry /\ log[n].actor \in Actors /\ log[n].at \in Int
  <1>1. PICK n \in 0..MaxEntries : log \in [1..n -> Entry]
    BY DEF Logs
  <1>2. n \in Int /\ IsFiniteSet(1..n)
    BY FS_Interval, AlgorithmsAssumption
  <1>3. \A e \in Entry : e.actor \in Actors /\ e.at \in Times
    BY DEF Entry
  <1>4. DOMAIN log = 1..n /\ \A m \in 1..n : log[m] \in Entry
    BY <1>1
  <1>5. 1..n \in SUBSET Int
    BY <1>2
  <1>6. \A m \in 1..n : log[m].actor \in Actors /\ log[m].at \in Int
    BY <1>3, <1>4, AlgorithmsAssumption
  <1> QED
    BY <1>2, <1>4, <1>5, <1>6

LEMMA BulkIs ==
  ASSUME NEW log \in Logs, NEW a
  PROVE  /\ DOMAIN Bulk(log, a) \in SUBSET Int /\ IsFiniteSet(DOMAIN Bulk(log, a))
         /\ Bulk(log, a) \in [DOMAIN Bulk(log, a) -> Int]
  <1> DEFINE D == {m \in Mine(log, a) : log[m].action = "deactivate"}
  <1>1. D \in SUBSET DOMAIN log
    BY DEF Mine
  <1>2. Bulk(log, a) = [n \in D |-> log[n].at]
    BY DEF Bulk
  <1> HIDE DEF D
  <1>3. \A n \in D : log[n].at \in Int
    BY <1>1, LogIs
  <1>4. DOMAIN Bulk(log, a) = D /\ Bulk(log, a) \in [D -> Int]
    BY <1>2, <1>3
  <1>5. D \in SUBSET Int /\ IsFiniteSet(D)
    <2>1. IsFiniteSet(DOMAIN log) /\ DOMAIN log \in SUBSET Int
      BY LogIs
    <2> QED
      BY <1>1, <2>1, FS_Subset
  <1> QED
    BY <1>4, <1>5

\* maxCluster reports the densest window of a caller's deactivations, for every
\* log, window and threshold.
THEOREM ClusterDensest == AlgorithmsSpec => []ClusterIsDensest
  <1>1. CallOrNone => ClusterIsDensest
    <2> SUFFICES ASSUME CallOrNone, input.fn = "detect", NEW a \in Actors
                 PROVE  LET times == Bulk(input.log, a)
                            c     == maxCluster(times)
                        IN  /\ \A t \in Times : LET n == Between(times, t, t + BulkWindow)
                                                IN  n <= c.count \/ (c.count = 0 /\ n < BulkCount)
                            /\ c.count > 0 => /\ c.count >= BulkCount /\ c.to - c.from <= BulkWindow
                                              /\ c.count = Between(times, c.from, c.to)
      BY DEF ClusterIsDensest
    <2> DEFINE times == Bulk(input.log, a)
               D == DOMAIN times
    <2>1. input.log \in Logs
      BY DetectsALog
    <2>2. D \in SUBSET Int /\ IsFiniteSet(D) /\ times \in [D -> Int]
      BY <2>1, BulkIs
    <2> HIDE DEF times, D
    <2>3. LET c == maxCluster(times)
          IN  /\ c.count \in Nat
              /\ \A t \in Int : \/ Between(times, t, t + BulkWindow) <= c.count
                                \/ c.count = 0 /\ Between(times, t, t + BulkWindow) < BulkCount
              /\ c.count > 0 => /\ c.count >= BulkCount /\ c.to - c.from <= BulkWindow
                                /\ c.count = Between(times, c.from, c.to)
      BY <2>2, ClusterIs
    <2>4. Times \subseteq Int
      BY AlgorithmsAssumption
    <2> QED
      BY <2>3, <2>4 DEF times
  <1> QED
    BY <1>1, NoCallYet, OneCall, PTL DEF AlgorithmsSpec
-----------------------------------------------------------------------------
(* The order of the entries. *)

\* A bijection relates the elements it maps into a set to those of the set.
LEMMA Preimage ==
  ASSUME NEW D, NEW E, NEW p \in Bijection(E, D), NEW T \in SUBSET D
  PROVE  [n \in {m \in E : p[m] \in T} |-> p[n]] \in Bijection({m \in E : p[m] \in T}, T)
  <1> DEFINE U == {m \in E : p[m] \in T}
             q == [n \in U |-> p[n]]
  <1>1. /\ p \in [E -> D]
        /\ \A m, n \in E : p[m] = p[n] => m = n
        /\ \A x \in D : \E n \in E : p[n] = x
    BY DEF Bijection, Injection, Surjection, IsInjective
  <1>2. q \in [U -> T]
    OBVIOUS
  <1>3. \A m, n \in U : q[m] = q[n] => m = n
    BY <1>1
  <1>4. \A x \in T : \E n \in U : q[n] = x
    BY <1>1
  <1> HIDE DEF q, U
  <1>5. q \in Bijection(U, T)
    BY <1>2, <1>3, <1>4, Fun_IsBij
  <1> QED
    BY <1>5 DEF q, U

\* As many elements are mapped into a set as the set has.
LEMMA SameSize ==
  ASSUME NEW D, IsFiniteSet(D), NEW E, NEW p \in Bijection(E, D), NEW T \in SUBSET D
  PROVE  Cardinality({m \in E : p[m] \in T}) = Cardinality(T)
  <1> DEFINE U == {m \in E : p[m] \in T}
             q == [n \in U |-> p[n]]
  <1>1. q \in Bijection(U, T)
    BY Preimage
  <1>2. IsFiniteSet(T)
    BY FS_Subset
  <1> HIDE DEF q, U
  <1>3. q \in Injection(U, T) /\ q \in Surjection(U, T)
    BY <1>1 DEF Bijection
  <1>4. IsFiniteSet(U) /\ (Cardinality(U) = Cardinality(T) <=> q \in Surjection(U, T))
    BY <1>2, <1>3, FS_Injection
  <1> QED
    BY <1>3, <1>4 DEF U

\* The same times under other numbers are the same when they are sorted, and
\* make the same cluster.
LEMMA SameCluster ==
  ASSUME NEW D \in SUBSET Int, IsFiniteSet(D), NEW times \in [D -> Int],
         NEW E \in SUBSET Int, IsFiniteSet(E), NEW p \in Bijection(E, D)
  PROVE  maxCluster([n \in E |-> times[p[n]]]) = maxCluster(times)
  <1> DEFINE u == [n \in E |-> times[p[n]]]
             N == Cardinality(D)
             s == Sorted(times)
             t == Sorted(u)
  <1>1. p \in [E -> D]
    BY DEF Bijection, Injection
  <1>2. u \in [E -> Int] /\ DOMAIN u = E
    BY <1>1
  <1>3. Cardinality(E) = N
    <2>1. {n \in E : p[n] \in D} = E
      BY <1>1
    <2>2. D \in SUBSET D
      OBVIOUS
    <2>3. Cardinality({n \in E : p[n] \in D}) = Cardinality(D)
      BY <2>2, SameSize
    <2> QED
      BY <2>1, <2>3
  <1>4. ASSUME NEW v \in Int PROVE NoLater(u, v) = NoLater(times, v)
    <2> DEFINE T == {n \in D : times[n] <= v}
    <2>1. T \in SUBSET D
      OBVIOUS
    <2>2. {n \in E : p[n] \in T} = {n \in DOMAIN u : u[n] <= v}
      BY <1>1
    <2>3. Cardinality({n \in E : p[n] \in T}) = Cardinality(T)
      BY <2>1, SameSize
    <2>4. T = {n \in DOMAIN times : times[n] <= v}
      OBVIOUS
    <2> HIDE DEF T
    <2> QED
      BY <2>2, <2>3, <2>4 DEF NoLater
  <1>5. /\ s \in [1..N -> Int]
        /\ \A i \in 1..N, v \in Int : s[i] <= v <=> i <= NoLater(times, v)
    BY SortedPlace
  <1> HIDE DEF u
  <1>6. /\ t \in [1..N -> Int]
        /\ \A i \in 1..N, v \in Int : t[i] <= v <=> i <= NoLater(u, v)
    BY <1>2, <1>3, SortedPlace
  <1> HIDE DEF s, t
  <1>7. ASSUME NEW i \in 1..N PROVE t[i] = s[i]
    <2>1. t[i] \in Int /\ s[i] \in Int
      BY <1>5, <1>6
    <2>2. t[i] <= s[i] <=> s[i] <= s[i]
      BY <2>1, <1>4, <1>5, <1>6
    <2>3. t[i] <= t[i] <=> s[i] <= t[i]
      BY <2>1, <1>4, <1>5, <1>6
    <2> QED
      BY <2>1, <2>2, <2>3
  <1>8. t = s
    <2>1. t = [i \in 1..N |-> t[i]] /\ s = [i \in 1..N |-> s[i]]
      BY <1>5, <1>6
    <2> QED
      BY <2>1, <1>7, Zenon
  <1>9. maxCluster(u) = maxCluster(times)
    BY <1>2, <1>3, <1>8 DEF maxCluster, s, t
  <1> QED
    BY <1>9 DEF u

\* The entries of a log in another order.
Rearranged(log, p) == [n \in DOMAIN log |-> log[p[n]]]

\* Every caller has as many entries, refusals and entries out of hours as before,
\* and the same cluster.
LEMMA SameTallies ==
  ASSUME NEW log \in Logs, NEW p \in Bijection(DOMAIN log, DOMAIN log)
  PROVE  /\ \A a : /\ Cardinality(Mine(Rearranged(log, p), a)) = Cardinality(Mine(log, a))
                   /\ Cardinality(Denials(Rearranged(log, p), a)) = Cardinality(Denials(log, a))
                   /\ maxCluster(Bulk(Rearranged(log, p), a)) = maxCluster(Bulk(log, a))
         /\ Cardinality(OffHours(Rearranged(log, p))) = Cardinality(OffHours(log))
         /\ OffHours(Rearranged(log, p)) = {} <=> OffHours(log) = {}
         /\ Callers(Rearranged(log, p)) = Callers(log)
  <1> DEFINE D == DOMAIN log
             other == Rearranged(log, p)
  <1>1. IsFiniteSet(D) /\ D \in SUBSET Int
    BY LogIs
  <1>2. p \in Bijection(D, D) /\ p \in [D -> D] /\ \A x \in D : \E n \in D : p[n] = x
    BY DEF Bijection, Injection, Surjection
  <1>3. DOMAIN other = D /\ \A n \in D : p[n] \in D /\ other[n] = log[p[n]]
    BY <1>2 DEF Rearranged
  <1> HIDE DEF other
  <1>4. ASSUME NEW T \in SUBSET D PROVE Cardinality({n \in D : p[n] \in T}) = Cardinality(T)
    BY <1>1, <1>2, SameSize
  <1>5. ASSUME NEW a
        PROVE  /\ Mine(other, a) = {n \in D : p[n] \in Mine(log, a)} /\ Mine(log, a) \in SUBSET D
               /\ Denials(other, a) = {n \in D : p[n] \in Denials(log, a)} /\ Denials(log, a) \in SUBSET D
    <2>1. Mine(other, a) = {n \in D : p[n] \in Mine(log, a)} /\ Mine(log, a) \in SUBSET D
      BY <1>3 DEF Mine
    <2>2. Denials(other, a) = {n \in D : p[n] \in Denials(log, a)} /\ Denials(log, a) \in SUBSET D
      BY <1>3, <2>1 DEF Denials
    <2> QED
      BY <2>1, <2>2
  <1>6. OffHours(other) = {n \in D : p[n] \in OffHours(log)} /\ OffHours(log) \in SUBSET D
    BY <1>3 DEF OffHours
  <1>7. OffHours(other) = {} <=> OffHours(log) = {}
    BY <1>2, <1>6
  <1>8. Callers(other) = Callers(log)
    <2>1. Callers(other) = {log[p[n]].actor : n \in D}
      BY <1>3 DEF Callers
    <2>2. Callers(log) = {log[n].actor : n \in D}
      BY DEF Callers
    <2> QED
      BY <2>1, <2>2, <1>2, <1>3
  <1>9. ASSUME NEW a PROVE maxCluster(Bulk(other, a)) = maxCluster(Bulk(log, a))
    <2> DEFINE times == Bulk(log, a)
               T == {m \in Mine(log, a) : log[m].action = "deactivate"}
               E == {n \in D : p[n] \in T}
               q == [n \in E |-> p[n]]
    <2>1. times = [n \in T |-> log[n].at] /\ T \in SUBSET D
      BY <1>5 DEF Bulk
    <2>2. T \in SUBSET Int /\ IsFiniteSet(T) /\ times \in [T -> Int]
      <3>1. DOMAIN times = T
        BY <2>1
      <3> QED
        BY <3>1, BulkIs
    <2>3. E \in SUBSET Int /\ IsFiniteSet(E)
      <3>1. E \in SUBSET D
        OBVIOUS
      <3> QED
        BY <3>1, <1>1, FS_Subset
    <2>4. q \in Bijection(E, T)
      BY <1>2, <2>1, Preimage
    <2>5. E = {m \in Mine(other, a) : other[m].action = "deactivate"}
      BY <1>3, <1>5
    <2>6. Bulk(other, a) = [n \in E |-> other[n].at]
      BY <2>5 DEF Bulk
    <2>7. \A n \in E : n \in D /\ p[n] \in T /\ q[n] = p[n]
      OBVIOUS
    <2> HIDE DEF T, E, q, times
    <2>8. \A n \in E : other[n].at = times[q[n]]
      BY <1>3, <2>1, <2>7
    <2>9. Bulk(other, a) = [n \in E |-> times[q[n]]]
      BY <2>6, <2>8, Zenon
    <2>10. maxCluster([n \in E |-> times[q[n]]]) = maxCluster(times)
      BY <2>2, <2>3, <2>4, SameCluster
    <2> QED
      BY <2>9, <2>10 DEF times
  <1>10. \A a : /\ Cardinality(Mine(other, a)) = Cardinality(Mine(log, a))
                /\ Cardinality(Denials(other, a)) = Cardinality(Denials(log, a))
    BY <1>4, <1>5
  <1>11. Cardinality(OffHours(other)) = Cardinality(OffHours(log))
    BY <1>4, <1>6
  <1> QED
    BY <1>7, <1>8, <1>9, <1>10, <1>11 DEF other

\* So the flags are the same, and they come in the same order.
LEMMA SameFlags ==
  ASSUME NEW log \in Logs, NEW p \in Bijection(DOMAIN log, DOMAIN log)
  PROVE  Detect(Rearranged(log, p)) = Detect(log)
  <1> DEFINE other == Rearranged(log, p)
  <1>1. /\ \A a : /\ Cardinality(Mine(other, a)) = Cardinality(Mine(log, a))
                  /\ Cardinality(Denials(other, a)) = Cardinality(Denials(log, a))
                  /\ maxCluster(Bulk(other, a)) = maxCluster(Bulk(log, a))
        /\ Cardinality(OffHours(other)) = Cardinality(OffHours(log))
        /\ OffHours(other) = {} <=> OffHours(log) = {}
        /\ Callers(other) = Callers(log)
    BY SameTallies
  <1> HIDE DEF other
  <1>2. BusierThan(other) = BusierThan(log)
    BY <1>1, Zenon DEF BusierThan
  <1>3. ASSUME NEW kind, NEW found, NEW threshold
        PROVE  FlagEach(other, kind, found, threshold) = FlagEach(log, kind, found, threshold)
    BY <1>1, <1>2, Zenon DEF FlagEach
  <1>4. /\ [a \in Actors |-> maxCluster(Bulk(other, a))] = [a \in Actors |-> maxCluster(Bulk(log, a))]
        /\ [a \in Actors |-> Just(Cardinality(Denials(other, a)))]
             = [a \in Actors |-> Just(Cardinality(Denials(log, a)))]
        /\ [a \in Actors |-> Just(Cardinality(Mine(other, a)))]
             = [a \in Actors |-> Just(Cardinality(Mine(log, a)))]
    BY <1>1, Zenon
  <1> DEFINE hours(l) == IF OffHours(l) # {}
                           THEN <<[kind |-> "off_hours", actor |-> 0, found |-> Just(Cardinality(OffHours(l)))]>>
                           ELSE <<>>
  <1>5. hours(other) = hours(log)
    BY <1>1, Zenon
  <1>6. ASSUME NEW l
        PROVE  Detect(l) = FlagEach(l, "bulk", [a \in Actors |-> maxCluster(Bulk(l, a))], BulkCount)
                \o FlagEach(l, "denials", [a \in Actors |-> Just(Cardinality(Denials(l, a)))], DenialCount)
                \o hours(l)
                \o FlagEach(l, "volume", [a \in Actors |-> Just(Cardinality(Mine(l, a)))], VolumeCount)
    BY Zenon DEF Detect
  <1> HIDE DEF hours
  <1>7. Detect(other) = Detect(log)
    BY <1>3, <1>4, <1>5, <1>6, Zenon
  <1> QED
    BY <1>7 DEF other

\* Detect reports the same flags, with the same figures and windows and in the
\* same order, however the entries are arranged, for every log, threshold,
\* working day and time zone.
THEOREM DetectIgnoresOrder == AlgorithmsSpec => []OrderIsIrrelevant
  <1>1. CallOrNone => OrderIsIrrelevant
    <2> SUFFICES ASSUME CallOrNone, input.fn = "detect",
                        NEW p \in Bijection(DOMAIN input.log, DOMAIN input.log)
                 PROVE  Detect([n \in DOMAIN input.log |-> input.log[p[n]]]) = Detect(input.log)
      BY DEF OrderIsIrrelevant
    <2>1. input.log \in Logs
      BY DetectsALog
    <2>2. Detect(Rearranged(input.log, p)) = Detect(input.log)
      BY <2>1, SameFlags
    <2> QED
      BY <2>2 DEF Rearranged
  <1> QED
    BY <1>1, NoCallYet, OneCall, PTL DEF AlgorithmsSpec
-----------------------------------------------------------------------------
(* The flags of one kind. *)

\* An arrangement holds every element once, in the order.
LEMMA ArrangedInOrder ==
  ASSUME NEW S, IsFiniteSet(S), NEW R, LinearlyOrders(R, S)
  PROVE  /\ \A x \in S : \E i \in 1..Cardinality(S) : Arranged(S, R)[i] = x
         /\ \A i, j \in 1..Cardinality(S) :
              <<Arranged(S, R)[i], Arranged(S, R)[j]>> \in R <=> i <= j
  <1> DEFINE N == Cardinality(S)
             A == Arranged(S, R)
  <1>1. N \in Nat /\ \A i \in 1..N : A[i] \in S /\ Cardinality(UpTo(S, R, A[i])) = i
    BY ArrangedPlace
  <1>2. A = [i \in 1..N |-> A[i]]
    <2> DEFINE pick(i) == CHOOSE x \in S : Cardinality({y \in S : <<y, x>> \in R}) = i
    <2>1. A = [i \in 1..N |-> pick(i)]
      BY DEF Arranged
    <2> HIDE DEF A, pick
    <2> QED
      BY <2>1
  <1> HIDE DEF A
  <1>3. A \in [1..N -> S]
    BY <1>1, <1>2
  <1>4. \A i, j \in 1..N : A[i] = A[j] => i = j
    BY <1>1
  <1>5. A \in Injection(1..N, S)
    BY <1>3, <1>4, Fun_IsInj
  <1>6. IsFiniteSet(1..N) /\ Cardinality(1..N) = N
    BY <1>1, FS_Interval
  <1>7. A \in Surjection(1..N, S)
    BY <1>5, <1>6, FS_Injection
  <1>8. ASSUME NEW i \in 1..N, NEW j \in 1..N, <<A[i], A[j]>> \in R PROVE i <= j
    <2>1. A[i] \in S /\ A[j] \in S
      BY <1>1
    <2>2. UpTo(S, R, A[i]) \in SUBSET UpTo(S, R, A[j])
      BY <2>1, <1>8 DEF UpTo, LinearlyOrders
    <2>3. IsFiniteSet(UpTo(S, R, A[j]))
      <3>1. UpTo(S, R, A[j]) \in SUBSET S
        BY DEF UpTo
      <3> QED
        BY <3>1, FS_Subset
    <2>4. Cardinality(UpTo(S, R, A[i])) <= Cardinality(UpTo(S, R, A[j]))
      BY <2>2, <2>3, FS_Subset
    <2> QED
      BY <2>4, <1>1
  <1>9. ASSUME NEW i \in 1..N, NEW j \in 1..N, i <= j PROVE <<A[i], A[j]>> \in R
    <2>1. A[i] \in S /\ A[j] \in S
      BY <1>1
    <2>2. CASE <<A[j], A[i]>> \in R
      <3>1. j <= i
        BY <2>2, <1>8
      <3>2. i = j
        BY <3>1, <1>9, <1>1
      <3> QED
        BY <3>2, <2>2
    <2> QED
      BY <2>1, <2>2 DEF LinearlyOrders
  <1>10. \A x \in S : \E i \in 1..N : A[i] = x
    BY <1>7 DEF Surjection
  <1> QED
    BY <1>8, <1>9, <1>10 DEF A

\* Busiest first, then by name, is a linear order of the callers.
LEMMA CallersAreOrdered ==
  ASSUME NEW log \in Logs, NEW C \in SUBSET Actors
  PROVE  LinearlyOrders(BusierThan(log), C)
  <1> DEFINE size(a) == Cardinality(Mine(log, a))
             R == BusierThan(log)
  <1>1. ASSUME NEW a PROVE size(a) \in Nat
    <2>1. Mine(log, a) \in SUBSET DOMAIN log
      BY DEF Mine
    <2>2. IsFiniteSet(Mine(log, a))
      BY <2>1, LogIs, FS_Subset
    <2> QED
      BY <2>2, FS_CardinalityType
  <1>2. \A a, b \in Actors : <<a, b>> \in R <=> size(a) > size(b) \/ (size(a) = size(b) /\ a <= b)
    BY DEF BusierThan
  <1>3. \A a \in C : a \in Actors /\ a \in Int
    BY AlgorithmsAssumption
  <1> HIDE DEF size, R
  <1>4. ASSUME NEW a \in C, NEW b \in C PROVE <<a, b>> \in R \/ <<b, a>> \in R
    <2>1. size(a) \in Nat /\ size(b) \in Nat /\ a \in Int /\ b \in Int
      BY <1>1, <1>3
    <2>2. \/ size(a) > size(b) \/ (size(a) = size(b) /\ a <= b)
          \/ size(b) > size(a) \/ (size(b) = size(a) /\ b <= a)
      BY <2>1
    <2> QED
      BY <2>2, <1>2, <1>3
  <1>5. ASSUME NEW a \in C, NEW b \in C, <<a, b>> \in R, <<b, a>> \in R PROVE a = b
    <2>1. size(a) \in Nat /\ size(b) \in Nat /\ a \in Int /\ b \in Int
      BY <1>1, <1>3
    <2>2. /\ size(a) > size(b) \/ (size(a) = size(b) /\ a <= b)
          /\ size(b) > size(a) \/ (size(b) = size(a) /\ b <= a)
      BY <1>2, <1>3, <1>5
    <2> QED
      BY <2>1, <2>2
  <1>6. ASSUME NEW a \in C, NEW b \in C, NEW c \in C, <<a, b>> \in R, <<b, c>> \in R
        PROVE  <<a, c>> \in R
    <2>1. /\ size(a) \in Nat /\ size(b) \in Nat /\ size(c) \in Nat
          /\ a \in Int /\ b \in Int /\ c \in Int
      BY <1>1, <1>3
    <2>2. /\ size(a) > size(b) \/ (size(a) = size(b) /\ a <= b)
          /\ size(b) > size(c) \/ (size(b) = size(c) /\ b <= c)
      BY <1>2, <1>3, <1>6
    <2>3. size(a) > size(c) \/ (size(a) = size(c) /\ a <= c)
      BY <2>1, <2>2
    <2> QED
      BY <2>3, <1>2, <1>3
  <1> QED
    BY <1>4, <1>5, <1>6 DEF LinearlyOrders, R

LEMMA CallersAreFinite ==
  ASSUME NEW log \in Logs
  PROVE  IsFiniteSet(Callers(log)) /\ Callers(log) \in SUBSET Actors
  <1> DEFINE f == [n \in DOMAIN log |-> log[n].actor]
  <1>1. f \in [DOMAIN log -> Callers(log)]
    BY DEF Callers
  <1>2. \A a \in Callers(log) : \E n \in DOMAIN log : f[n] = a
    BY DEF Callers
  <1> HIDE DEF f
  <1>3. f \in Surjection(DOMAIN log, Callers(log))
    BY <1>1, <1>2, Fun_IsSurj
  <1>4. IsFiniteSet(DOMAIN log)
    BY LogIs
  <1>5. IsFiniteSet(Callers(log))
    BY <1>3, <1>4, FS_Surjection
  <1>6. Callers(log) \in SUBSET Actors
    BY LogIs DEF Callers
  <1> QED
    BY <1>5, <1>6

\* The flags of one kind: one for every caller that reaches the threshold and for
\* nobody else, with what was found of it, the busier caller first and callers
\* equally busy by name, for every log (the loops over callers in Detect).
THEOREM FlagsAreExact ==
  ASSUME NEW log \in Logs, NEW kind, NEW found, NEW threshold
  PROVE  LET flags  == FlagEach(log, kind, found, threshold)
             Places == DOMAIN flags
         IN  /\ \A k \in Places : /\ flags[k].actor \in Callers(log)
                                  /\ found[flags[k].actor].count >= threshold
                                  /\ flags[k].kind = kind
                                  /\ flags[k].found = found[flags[k].actor]
             /\ \A a \in Callers(log) :
                  found[a].count >= threshold => \E k \in Places : flags[k].actor = a
             /\ \A k, l \in Places :
                  <<flags[k].actor, flags[l].actor>> \in BusierThan(log) <=> k <= l
  <1> DEFINE C == {a \in Callers(log) : found[a].count >= threshold}
             A == Arranged(C, BusierThan(log))
             flags == FlagEach(log, kind, found, threshold)
             N == Cardinality(C)
  <1>1. C \in SUBSET Actors /\ C \in SUBSET Callers(log) /\ IsFiniteSet(C)
    BY CallersAreFinite, FS_Subset
  <1>2. flags = [k \in 1..N |-> [kind |-> kind, actor |-> A[k], found |-> found[A[k]]]]
    BY DEF FlagEach
  <1>3. \A a : a \in C <=> a \in Callers(log) /\ found[a].count >= threshold
    OBVIOUS
  <1> HIDE DEF C
  <1>4. LinearlyOrders(BusierThan(log), C)
    BY <1>1, CallersAreOrdered
  <1>5. \A k \in 1..N : A[k] \in C
    BY <1>1, <1>4, ArrangedPlace
  <1>6. /\ \A a \in C : \E k \in 1..N : A[k] = a
        /\ \A k, l \in 1..N : <<A[k], A[l]>> \in BusierThan(log) <=> k <= l
    BY <1>1, <1>4, ArrangedInOrder
  <1> HIDE DEF A, flags, N
  <1>7. /\ DOMAIN flags = 1..N
        /\ \A k \in 1..N : /\ flags[k].kind = kind /\ flags[k].actor = A[k]
                           /\ flags[k].found = found[A[k]]
    BY <1>2
  <1>8. \A k \in 1..N : A[k] \in Callers(log) /\ found[A[k]].count >= threshold
    BY <1>3, <1>5
  <1>9. \A a \in Callers(log) : found[a].count >= threshold => \E k \in 1..N : flags[k].actor = a
    BY <1>3, <1>6, <1>7
  <1>10. \A k, l \in 1..N : <<flags[k].actor, flags[l].actor>> \in BusierThan(log) <=> k <= l
    BY <1>6, <1>7
  <1> QED
    BY <1>7, <1>8, <1>9, <1>10, Zenon DEF flags
=============================================================================
