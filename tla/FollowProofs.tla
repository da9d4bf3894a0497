---------------------------- MODULE FollowProofs ----------------------------
(***************************************************************************)
(* For any table, batch size and limit: logs --follow prints no row twice  *)
(* and none out of the order of timestamps, and of rows that arrive in     *)
(* order none is passed over.  What it has printed is older than the       *)
(* timestamp it asks from next, and an answer is in order: the rank of a   *)
(* row among those that match is unique and every rank is taken.           *)
(***************************************************************************)
EXTENDS Follow, FiniteFacts, SequenceTheorems

Sequence == rows \in Seq(Times)

\* The row comes before the other in an answer.
Before(j, i) == rows[j] < rows[i] \/ (rows[j] = rows[i] /\ j < i)

Ahead(i, some) == {j \in some : Before(j, i)}

LEMMA RankIs == \A i, some : Rank(i, some) = Cardinality(Ahead(i, some))
  BY DEF Rank, Ahead, Before

LEMMA RowsAre ==
    ASSUME Sequence
    PROVE  /\ DOMAIN rows = 1..Len(rows) /\ Len(rows) \in Nat
           /\ \A i \in DOMAIN rows : rows[i] \in Nat /\ i \in Nat
<1>1. DOMAIN rows = 1..Len(rows) /\ Len(rows) \in Nat
  BY DEF Sequence
<1>2. \A i \in DOMAIN rows : rows[i] \in Times
  BY <1>1, ElementOfSeq DEF Sequence
<1> QED
  BY <1>1, <1>2, FollowAssumption DEF Times

LEMMA SomeFinite ==
    ASSUME Sequence, NEW some \in SUBSET DOMAIN rows
    PROVE  IsFiniteSet(some) /\ Cardinality(some) \in Nat
<1>1. DOMAIN rows = 1..Len(rows) /\ 1 \in Int /\ Len(rows) \in Int
  BY RowsAre
<1>2. IsFiniteSet(DOMAIN rows)
  BY <1>1, FS_Interval
<1>3. IsFiniteSet(some)
  BY <1>2, FS_Subset
<1> QED
  BY <1>3, FS_CardinalityType

\* Of two rows the one that comes first has the smaller rank.
LEMMA RankOrders ==
    ASSUME Sequence, NEW some \in SUBSET DOMAIN rows, NEW i \in some, NEW j \in some,
           Before(j, i)
    PROVE  Rank(j, some) < Rank(i, some)
<1> DEFINE a == Ahead(j, some)
           b == Ahead(i, some)
<1>1. IsFiniteSet(some)
  BY SomeFinite
<1>2. /\ \A k \in some : rows[k] \in Nat /\ k \in Nat
  BY RowsAre
<1>3. a \subseteq b /\ j \in b /\ j \notin a /\ b \subseteq some
  <2>1. \A k \in some : Before(k, j) => Before(k, i)
    BY <1>2 DEF Before
  <2>2. ~Before(j, j)
    BY <1>2 DEF Before
  <2> QED
    BY <2>1, <2>2 DEF Ahead
<1> HIDE DEF a, b
<1>4. IsFiniteSet(b)
  BY <1>1, <1>3, FS_Subset
<1>5. IsFiniteSet(a) /\ Cardinality(a) <= Cardinality(b) /\ Cardinality(a) # Cardinality(b)
  BY <1>3, <1>4, FS_Subset
<1>6. Cardinality(a) \in Nat /\ Cardinality(b) \in Nat
  BY <1>4, <1>5, FS_CardinalityType
<1> QED
  BY <1>5, <1>6, RankIs DEF a, b

\* Every rank is taken: else two rows would share one.
LEMMA RankTaken ==
    ASSUME Sequence, NEW some \in SUBSET DOMAIN rows, NEW n \in 1..Cardinality(some)
    PROVE  \E i \in some : Rank(i, some) = n - 1
<1> SUFFICES ASSUME \A i \in some : Rank(i, some) # n - 1 PROVE FALSE
  OBVIOUS
<1> DEFINE c == Cardinality(some)
           T == (0..c - 1) \ {n - 1}
           rank == [i \in some |-> Rank(i, some)]
<1>1. IsFiniteSet(some)
  BY SomeFinite
<1>2. c \in Nat
  BY <1>1, FS_CardinalityType
<1>3. IsFiniteSet(T) /\ Cardinality(T) = c - 1
  <2> DEFINE d == c - 1
  <2>1. n - 1 \in 0..d /\ d \in Int /\ 0 \in Int /\ 0 <= d
    BY <1>2
  <2>2. T = (0..d) \ {n - 1}
    OBVIOUS
  <2> HIDE DEF c, d, T
  <2>3. IsFiniteSet(0..d) /\ Cardinality(0..d) = d + 1
    BY <2>1, FS_Interval
  <2>4. IsFiniteSet(T) /\ Cardinality(T) = d
    <3> DEFINE U == 0..d
               x == n - 1
    <3>1. x \in U /\ IsFiniteSet(U) /\ T = U \ {x} /\ Cardinality(U) = d + 1
      BY <2>1, <2>2, <2>3
    <3> HIDE DEF U, x
    <3>2. IsFiniteSet(U \ {x}) /\ Cardinality(U \ {x}) = Cardinality(U) - 1
      BY <3>1, FS_RemoveElement
    <3>3. IsFiniteSet(T)
      BY <3>1, <3>2
    <3>4. Cardinality(T) = Cardinality(U) - 1
      BY <3>1, <3>2
    <3>5. Cardinality(U) = d + 1 /\ d \in Int
      BY <2>1, <3>1
    <3>6. Cardinality(T) = d
      BY <3>4, <3>5
    <3> QED
      BY <3>3, <3>6
  <2> QED
    BY <2>4 DEF d
<1>4. ASSUME NEW i \in some PROVE Rank(i, some) \in 0..c - 1
  <2> DEFINE b == Ahead(i, some)
  <2>1. b \subseteq some /\ i \notin b
    <3>1. ~Before(i, i)
      BY RowsAre DEF Before
    <3> QED
      BY <3>1 DEF Ahead
  <2> HIDE DEF b
  <2>2. IsFiniteSet(b) /\ Cardinality(b) <= c /\ Cardinality(b) # c
    BY <1>1, <2>1, FS_Subset
  <2>3. Cardinality(b) \in Nat
    BY <2>2, FS_CardinalityType
  <2> HIDE DEF c
  <2>4. Cardinality(b) \in 0..c - 1
    BY <1>2, <2>2, <2>3
  <2> QED
    BY <2>4, RankIs DEF b
<1>5. rank \in [some -> T]
  BY <1>4
<1>6. Cardinality(T) < Cardinality(some)
  BY <1>2, <1>3
<1> HIDE DEF T
<1>7. PICK i \in some, j \in some : i # j /\ rank[i] = rank[j]
  <2> HIDE DEF rank
  <2> QED
    BY <1>1, <1>3, <1>5, <1>6, FS_PigeonHole
<1>8. Before(i, j) \/ Before(j, i)
  BY <1>7, RowsAre DEF Before
<1>9. Rank(i, some) = Rank(j, some)
  BY <1>7
<1>10. Rank(i, some) \in Int /\ Rank(j, some) \in Int
  BY <1>4
<1> QED
  BY <1>8, <1>9, <1>10, RankOrders

\* An answer: rows that match, each once, in order.
InOrder(s) ==
    \A i, j \in 1..Len(s) : i < j => s[i] # s[j] /\ rows[s[i]] <= rows[s[j]]

LEMMA SortedIs ==
    ASSUME Sequence, NEW some \in SUBSET DOMAIN rows
    PROVE  Sorted(some) \in Seq(some) /\ InOrder(Sorted(some))
<1> DEFINE s == Sorted(some)
           c == Cardinality(some)
<1>1. c \in Nat
  BY SomeFinite
<1>2. \A n \in 1..c : s[n] \in some /\ Rank(s[n], some) = n - 1
  BY RankTaken DEF Sorted
<1>3. s \in [1..c -> some]
  BY <1>2 DEF Sorted
<1>4. s \in Seq(some) /\ Len(s) = c
  <2> HIDE DEF s, c
  <2>1. s \in Seq(some)
    BY <1>1, <1>3
  <2> QED
    BY <1>1, <1>3, <2>1, LenProperties
<1>5. ASSUME NEW i \in 1..c, NEW j \in 1..c, i < j
      PROVE  s[i] # s[j] /\ rows[s[i]] <= rows[s[j]]
  <2> DEFINE x == s[i]
             y == s[j]
  <2>1. x \in some /\ y \in some /\ Rank(x, some) = i - 1 /\ Rank(y, some) = j - 1
    BY <1>2, <1>5
  <2> HIDE DEF x, y, s, c
  <2>2. x # y
    BY <1>1, <1>5, <2>1
  <2>3. ~Before(y, x)
    BY <1>1, <1>5, <2>1, RankOrders
  <2>4. rows[x] <= rows[y]
    BY <2>1, <2>3, RowsAre DEF Before
  <2> QED
    BY <2>2, <2>4 DEF x, y
<1> QED
  BY <1>4, <1>5 DEF InOrder

LEMMA AnswerIs ==
    ASSUME Sequence, NEW since
    PROVE  /\ Answer(since) \in Seq(Matching(since))
           /\ InOrder(Answer(since))
<1> DEFINE some == Matching(since)
           s == Sorted(some)
           a == AtMostLimit(s)
<1>1. some \in SUBSET DOMAIN rows
  BY DEF Matching
<1> HIDE DEF some
<1>2. s \in Seq(some) /\ InOrder(s)
  BY <1>1, SortedIs
<1> HIDE DEF s
<1>3. CASE Len(s) <= Limit
  BY <1>2, <1>3 DEF Answer, AtMostLimit, some, s
<1>4. CASE ~(Len(s) <= Limit)
  <2>1. a = SubSeq(s, 1, Limit) /\ Limit \in Nat /\ Len(s) \in Nat /\ Limit <= Len(s)
    BY <1>2, <1>4, FollowAssumption DEF AtMostLimit
  <2>2. \A i \in 1..Limit : s[i] \in some
    BY <1>2, <2>1, ElementOfSeq
  <2>3. a \in Seq(some) /\ Len(a) = Limit /\ \A i \in 1..Limit : a[i] = s[i]
    <3>1. 1 \in Int /\ Limit \in Int
      BY <2>1
    <3>2. /\ SubSeq(s, 1, Limit) \in Seq(some)
          /\ Len(SubSeq(s, 1, Limit)) = IF 1 <= Limit THEN Limit - 1 + 1 ELSE 0
          /\ \A i \in 1..Limit - 1 + 1 : SubSeq(s, 1, Limit)[i] = s[1 + i - 1]
      BY <2>2, <3>1, SubSeqProperties
    <3>3. Limit - 1 + 1 = Limit /\ 1 <= Limit /\ \A i \in 1..Limit : 1 + i - 1 = i
      BY FollowAssumption
    <3> HIDE DEF a
    <3> QED
      BY <2>1, <3>2, <3>3
  <2> HIDE DEF a
  <2>4. InOrder(a)
    BY <1>2, <2>1, <2>3 DEF InOrder
  <2> QED
    BY <2>3, <2>4 DEF a, some, s, Answer
<1> QED
  BY <1>3, <1>4

----------------------------------------------------------------------------
(* The invariant. *)

\* What is printed is of the table, before the timestamp asked from, in order.
FollowInv ==
    /\ rows \in Seq(Times)
    /\ seenSince \in Nat
    /\ printed \in Seq(DOMAIN rows)
    /\ \A i \in 1..Len(printed) : rows[printed[i]] < seenSince
    /\ InOrder(printed)

LEMMA FollowInit == Init => FollowInv
<1> SUFFICES ASSUME Init PROVE FollowInv
  OBVIOUS
<1>1. rows \in Seq(Times)
  <2>1. PICK n \in 0..1 : rows \in [1..n -> Times]
    BY DEF Init
  <2> QED
    BY <2>1
<1>2. seenSince \in Nat /\ printed = <<>>
  BY FollowAssumption DEF Init, Times
<1> QED
  BY <1>1, <1>2 DEF FollowInv, InOrder

LEMMA CommitInv == FollowInv /\ Commit => FollowInv'
<1> SUFFICES ASSUME FollowInv, Commit PROVE FollowInv'
  OBVIOUS
<1>0. PICK n \in 1..MaxBatch : \E batch \in [1..n -> Times] : rows' = rows \o batch
  BY DEF Commit
<1>1. PICK batch \in [1..n -> Times] : rows' = rows \o batch
  BY <1>0
<1>2. /\ UNCHANGED <<seenSince, printed>>
  BY DEF Commit
<1>3. batch \in Seq(Times)
  <2>1. n \in Nat
    BY FollowAssumption
  <2> QED
    BY <1>1, <2>1
<1>4. rows' \in Seq(Times) /\ DOMAIN rows \subseteq DOMAIN rows'
      /\ \A i \in DOMAIN rows : rows'[i] = rows[i]
  <2>1. rows \in Seq(Times)
    BY DEF FollowInv
  <2>2. /\ rows' \in Seq(Times) /\ Len(rows') = Len(rows) + Len(batch)
        /\ \A i \in 1..Len(rows) : rows'[i] = rows[i]
        /\ Len(rows) \in Nat /\ Len(batch) \in Nat
        /\ DOMAIN rows = 1..Len(rows) /\ DOMAIN rows' = 1..Len(rows')
    BY <1>1, <1>3, <2>1, ConcatProperties
  <2> QED
    BY <2>2
<1>5. /\ printed \in Seq(DOMAIN rows) /\ Len(printed) \in Nat
      /\ \A i \in 1..Len(printed) : printed[i] \in DOMAIN rows
  BY ElementOfSeq DEF FollowInv
<1>6. printed' \in Seq(DOMAIN rows')
  BY <1>2, <1>4, <1>5
<1>7. \A i \in 1..Len(printed) : rows'[printed[i]] = rows[printed[i]]
  BY <1>4, <1>5
<1>8. /\ \A i \in 1..Len(printed') : rows'[printed'[i]] < seenSince'
      /\ InOrder(printed)'
  BY <1>2, <1>7 DEF FollowInv, InOrder
<1>9. rows' \in Seq(Times) /\ seenSince' \in Nat
  BY <1>2, <1>4 DEF FollowInv
<1> QED
  BY <1>6, <1>8, <1>9 DEF FollowInv

LEMMA FollowStepInv == FollowInv /\ Follow => FollowInv'
<1> SUFFICES ASSUME FollowInv, Follow PROVE FollowInv'
  OBVIOUS
<1> DEFINE a == Answer(seenSince)
           n == Len(printed)
<1>1. /\ a # <<>> /\ printed' = printed \o a /\ rows' = rows
      /\ seenSince' = rows[a[Len(a)]] + 1
  BY DEF Follow, JustPast, Last
<1>2. Sequence /\ printed \in Seq(DOMAIN rows) /\ seenSince \in Nat
  BY DEF FollowInv, Sequence
<1>3. a \in Seq(Matching(seenSince)) /\ InOrder(a)
  BY <1>2, AnswerIs
<1> HIDE DEF a
<1>4. /\ Len(a) \in Nat /\ Len(a) # 0
      /\ \A i \in 1..Len(a) : a[i] \in DOMAIN rows /\ rows[a[i]] >= seenSince
  <2>1. \A i \in 1..Len(a) : a[i] \in Matching(seenSince)
    BY <1>3, ElementOfSeq
  <2> QED
    BY <1>1, <1>3, <2>1 DEF Matching
<1>5. a \in Seq(DOMAIN rows)
  <2>1. Matching(seenSince) \subseteq DOMAIN rows
    BY DEF Matching
  <2> QED
    BY <1>3, <2>1
<1>6. /\ printed' \in Seq(DOMAIN rows) /\ Len(printed') = n + Len(a) /\ n \in Nat
      /\ \A i \in 1..n : printed'[i] = printed[i]
      /\ \A i \in 1..Len(a) : printed'[n + i] = a[i]
      /\ \A i \in 1..n : printed[i] \in DOMAIN rows
  BY <1>1, <1>2, <1>5, ConcatProperties, ElementOfSeq
<1>7. \A i \in DOMAIN rows : rows[i] \in Nat
  BY <1>2, RowsAre
<1> HIDE DEF n
<1> DEFINE last == rows[a[Len(a)]]
<1>8. last \in Nat /\ last >= seenSince /\ \A i \in 1..Len(a) : rows[a[i]] <= last
  <2>1. Len(a) \in 1..Len(a)
    BY <1>4
  <2>2. last \in Nat /\ last >= seenSince
    BY <1>4, <1>7, <2>1
  <2>3. ASSUME NEW i \in 1..Len(a) PROVE rows[a[i]] <= last
    <3>1. CASE i = Len(a)
      BY <2>2, <3>1
    <3>2. CASE i < Len(a)
      BY <1>3, <2>1, <3>2 DEF InOrder
    <3> QED
      BY <1>4, <3>1, <3>2
  <2> QED
    BY <2>2, <2>3
<1> HIDE DEF last
<1>9. seenSince' = last + 1
  BY <1>1 DEF last
<1>10. \A i \in 1..n : rows[printed[i]] \in Nat /\ rows[printed[i]] < seenSince
  BY <1>6, <1>7 DEF FollowInv, n
<1>11. \A i \in 1..Len(a) : rows[a[i]] \in Nat
  BY <1>4, <1>7
<1>12. ASSUME NEW i \in 1..Len(printed')
       PROVE  \/ i \in 1..n /\ printed'[i] = printed[i]
              \/ i > n /\ i - n \in 1..Len(a) /\ printed'[i] = a[i - n]
  <2>1. CASE i <= n
    BY <1>6, <2>1
  <2>2. CASE i > n
    <3>1. i - n \in 1..Len(a) /\ n + (i - n) = i
      BY <1>4, <1>6, <2>2
    <3> QED
      BY <1>6, <2>2, <3>1
  <2> QED
    BY <1>6, <2>1, <2>2
<1>13. \A i \in 1..Len(printed') : rows[printed'[i]] < seenSince'
  <2> SUFFICES ASSUME NEW i \in 1..Len(printed') PROVE rows[printed'[i]] < last + 1
    BY <1>9
  <2>1. CASE i \in 1..n /\ printed'[i] = printed[i]
    BY <1>2, <1>8, <1>10, <2>1
  <2>2. CASE i - n \in 1..Len(a) /\ printed'[i] = a[i - n]
    BY <1>8, <1>11, <2>2
  <2> QED
    BY <1>12, <2>1, <2>2
<1>14. ASSUME NEW i \in 1..Len(printed'), NEW j \in 1..Len(printed'), i < j
       PROVE  printed'[i] # printed'[j] /\ rows[printed'[i]] <= rows[printed'[j]]
  <2>1. CASE j \in 1..n
    <3>1. i \in 1..n /\ printed'[i] = printed[i] /\ printed'[j] = printed[j]
      BY <1>6, <1>14, <2>1
    <3> QED
      BY <1>14, <2>1, <3>1 DEF FollowInv, InOrder, n
  <2>2. CASE i \in 1..n /\ j > n /\ j - n \in 1..Len(a) /\ printed'[j] = a[j - n]
    <3>1. printed'[i] = printed[i] /\ rows[printed[i]] < seenSince
      BY <1>6, <1>10, <2>2
    <3>2. rows[a[j - n]] >= seenSince /\ rows[a[j - n]] \in Nat
      BY <1>4, <1>11, <2>2
    <3>3. rows[printed[i]] \in Nat
      BY <1>10, <2>2
    <3>4. rows[printed[i]] < rows[a[j - n]]
      BY <1>2, <3>1, <3>2, <3>3
    <3> QED
      BY <2>2, <3>1, <3>2, <3>3, <3>4
  <2>3. CASE i > n /\ j > n
    <3>1. /\ i - n \in 1..Len(a) /\ printed'[i] = a[i - n]
          /\ j - n \in 1..Len(a) /\ printed'[j] = a[j - n]
      BY <1>6, <1>12, <2>3
    <3>2. i - n < j - n
      BY <1>6, <1>14
    <3> QED
      BY <1>3, <3>1, <3>2 DEF InOrder
  <2> QED
    BY <1>6, <1>12, <2>1, <2>2, <2>3
<1>15. InOrder(printed)'
  BY <1>1, <1>14 DEF InOrder
<1> QED
  BY <1>1, <1>2, <1>6, <1>8, <1>9, <1>13, <1>15 DEF FollowInv, Sequence

\* No row is printed twice and none out of the order of timestamps, however
\* commits fall between the queries (_follow_logs, query_events).
THEOREM PrintedInOrder == Spec => []PrintedOnceInOrder
<1>1. FollowInv /\ [Next]_vars => FollowInv'
  <2> SUFFICES ASSUME FollowInv, [Next]_vars PROVE FollowInv'
    OBVIOUS
  <2>1. CASE UNCHANGED vars
    BY <2>1 DEF vars, FollowInv, InOrder
  <2> QED
    BY <2>1, CommitInv, FollowStepInv DEF Next
<1>2. FollowInv => PrintedOnceInOrder
  BY DEF FollowInv, InOrder, PrintedOnceInOrder
<1> QED
  BY <1>1, <1>2, FollowInit, PTL DEF Spec

----------------------------------------------------------------------------
(* Nothing is skipped: what has arrived in order is printed before the      *)
(* follower asks from beyond it, of a backlog longer than the limit too.    *)

LEMMA RankBound ==
    ASSUME Sequence, NEW some \in SUBSET DOMAIN rows, NEW i \in some
    PROVE  Rank(i, some) \in 0..Cardinality(some) - 1
<1> DEFINE b == Ahead(i, some)
           c == Cardinality(some)
<1>1. b \subseteq some /\ i \notin b
  <2>1. ~Before(i, i)
    BY RowsAre DEF Before
  <2> QED
    BY <2>1 DEF Ahead
<1> HIDE DEF b
<1>2. IsFiniteSet(some) /\ c \in Nat
  BY SomeFinite
<1>3. IsFiniteSet(b) /\ Cardinality(b) <= c /\ Cardinality(b) # c
  BY <1>1, <1>2, FS_Subset
<1>4. Cardinality(b) \in Nat
  BY <1>3, FS_CardinalityType
<1> HIDE DEF c
<1>5. Cardinality(b) \in 0..c - 1
  BY <1>2, <1>3, <1>4
<1> QED
  BY <1>5, RankIs DEF b, c

\* Where a row that matches has its place among those sorted.
LEMMA SortedHas ==
    ASSUME Sequence, NEW some \in SUBSET DOMAIN rows, NEW i \in some
    PROVE  \E n \in 1..Len(Sorted(some)) : Sorted(some)[n] = i
<1> DEFINE s == Sorted(some)
           c == Cardinality(some)
           r == Rank(i, some)
           n == r + 1
<1>1. c \in Nat /\ r \in 0..c - 1
  BY SomeFinite, RankBound
<1>2. n \in 1..c /\ n - 1 = r
  <2> HIDE DEF c, r
  <2> QED
    BY <1>1
<1>3. s[n] \in some /\ Rank(s[n], some) = n - 1
  BY <1>2, RankTaken DEF Sorted
<1>4. Len(s) = c
  BY <1>1, LenProperties DEF Sorted
<1> DEFINE j == s[n]
<1>5. j \in some /\ Rank(j, some) = Rank(i, some)
  BY <1>2, <1>3
<1>6. n \in 1..Len(s) /\ s[n] = j
  BY <1>2, <1>4
<1>7. Rank(i, some) \in Nat
  BY <1>1
<1> HIDE DEF j, s, n
<1>8. ~Before(i, j) /\ ~Before(j, i)
  BY <1>5, <1>7, RankOrders
<1>9. i = j
  BY <1>5, <1>8, RowsAre DEF Before
<1> QED
  BY <1>6, <1>9 DEF s

\* A row that matches is in the answer or not before the last one there.
LEMMA AnswerStops ==
    ASSUME Sequence, NEW since, NEW i \in Matching(since), Answer(since) # <<>>
    PROVE  \/ \E n \in 1..Len(Answer(since)) : Answer(since)[n] = i
           \/ rows[Answer(since)[Len(Answer(since))]] <= rows[i]
<1> DEFINE some == Matching(since)
           s == Sorted(some)
           a == Answer(since)
<1>1. some \in SUBSET DOMAIN rows
  BY DEF Matching
<1> HIDE DEF some
<1>2. s \in Seq(some) /\ InOrder(s) /\ Len(s) \in Nat
  BY <1>1, SortedIs
<1>3. PICK n \in 1..Len(s) : s[n] = i
  BY <1>1, SortedHas DEF some
<1> HIDE DEF s
<1>4. CASE Len(s) <= Limit
  BY <1>3, <1>4 DEF Answer, AtMostLimit, some, s
<1>5. CASE ~(Len(s) <= Limit)
  <2>1. a = SubSeq(s, 1, Limit) /\ Limit \in Nat \ {0} /\ Limit < Len(s)
    BY <1>2, <1>5, FollowAssumption DEF Answer, AtMostLimit, some, s
  <2> HIDE DEF a
  <2>2. Len(a) = Limit /\ \A k \in 1..Limit : a[k] = s[k]
    <3>1. 1 \in Int /\ Limit \in Int /\ \A k \in 1..Limit : s[k] \in some
      BY <1>2, <2>1, ElementOfSeq
    <3>2. /\ SubSeq(s, 1, Limit) \in Seq(some)
          /\ Len(SubSeq(s, 1, Limit)) = IF 1 <= Limit THEN Limit - 1 + 1 ELSE 0
          /\ \A k \in 1..Limit - 1 + 1 : SubSeq(s, 1, Limit)[k] = s[1 + k - 1]
      BY <3>1, SubSeqProperties
    <3>3. Limit - 1 + 1 = Limit /\ 1 <= Limit /\ \A k \in 1..Limit : 1 + k - 1 = k
      BY <2>1
    <3> QED
      BY <2>1, <3>2, <3>3
  <2>3. CASE n <= Limit
    BY <1>3, <2>2, <2>3 DEF a
  <2>4. CASE Limit < n
    <3>1. Limit \in 1..Len(s) /\ Limit \in 1..Limit
      BY <1>2, <2>1
    <3>2. rows[s[Limit]] <= rows[s[n]]
      BY <1>2, <1>3, <2>4, <3>1 DEF InOrder
    <3>3. rows[a[Len(a)]] <= rows[i]
      BY <1>3, <2>2, <3>1, <3>2
    <3> QED
      BY <3>3 DEF a
  <2> QED
    BY <1>2, <1>3, <2>1, <2>3, <2>4
<1> QED
  BY <1>4, <1>5

\* The timestamp asked from is the first one, or just past that of a row.
AsksFromRow == seenSince = start \/ \E i \in DOMAIN rows : seenSince = rows[i] + 1

NothingSkipped ==
    Ordered(rows) =>
        \A i \in DOMAIN rows :
            rows[i] >= start /\ rows[i] < seenSince => i \in Range(printed)

SkipInv == start \in Nat /\ AsksFromRow /\ NothingSkipped

LEMMA SkipInit == Init => SkipInv
<1> SUFFICES ASSUME Init PROVE SkipInv
  OBVIOUS
<1>1. start \in Nat /\ seenSince = start
  BY FollowAssumption DEF Init, Times
<1>2. rows \in Seq(Times)
  BY FollowInit DEF FollowInv
<1>3. \A i \in DOMAIN rows : rows[i] \in Nat
  BY <1>2, RowsAre DEF Sequence
<1> QED
  BY <1>1, <1>3 DEF SkipInv, AsksFromRow, NothingSkipped

\* Of a batch in order every row is younger than the one asked from.
LEMMA CommitSkips == FollowInv /\ SkipInv /\ Commit => SkipInv'
<1> SUFFICES ASSUME FollowInv, SkipInv, Commit PROVE SkipInv'
  OBVIOUS
<1>0. PICK n \in 1..MaxBatch : \E batch \in [1..n -> Times] : rows' = rows \o batch
  BY DEF Commit
<1>1. PICK batch \in [1..n -> Times] : rows' = rows \o batch
  BY <1>0
<1>2. UNCHANGED <<seenSince, start, printed>>
  BY DEF Commit
<1>3. batch \in Seq(Times) /\ rows \in Seq(Times)
  <2>1. n \in Nat
    BY FollowAssumption
  <2> QED
    BY <1>1, <2>1 DEF FollowInv
<1>4. /\ rows' \in Seq(Times) /\ DOMAIN rows \subseteq DOMAIN rows'
      /\ DOMAIN rows = 1..Len(rows) /\ DOMAIN rows' = 1..Len(rows')
      /\ Len(rows) \in Nat
      /\ \A i \in DOMAIN rows : rows'[i] = rows[i]
  <2>1. /\ rows' \in Seq(Times) /\ Len(rows') = Len(rows) + Len(batch)
        /\ \A i \in 1..Len(rows) : rows'[i] = rows[i]
        /\ Len(rows) \in Nat /\ Len(batch) \in Nat
        /\ DOMAIN rows = 1..Len(rows) /\ DOMAIN rows' = 1..Len(rows')
    BY <1>1, <1>3, ConcatProperties
  <2> QED
    BY <2>1
<1>5. \A i \in DOMAIN rows' : rows'[i] \in Nat
  <2>1. \A i \in 1..Len(rows') : rows'[i] \in Times
    BY <1>4, ElementOfSeq
  <2> QED
    BY <1>4, <2>1, FollowAssumption DEF Times
<1>6. AsksFromRow'
  BY <1>2, <1>4 DEF SkipInv, AsksFromRow
<1>7. ASSUME Ordered(rows'), NEW i \in DOMAIN rows', rows'[i] >= start, rows'[i] < seenSince
      PROVE  i \in Range(printed)
  <2>1. CASE i \in DOMAIN rows
    <3>1. Ordered(rows)
      BY <1>4, <1>7 DEF Ordered
    <3> QED
      BY <1>4, <1>7, <2>1, <3>1 DEF SkipInv, NothingSkipped
  <2>2. CASE i \notin DOMAIN rows
    <3>1. CASE seenSince = start
      BY <1>5, <1>7, <3>1 DEF SkipInv
    <3>2. ASSUME NEW k \in DOMAIN rows, seenSince = rows[k] + 1 PROVE FALSE
      <4>1. k < i
        BY <1>4, <2>2, <3>2
      <4>2. rows'[k] < rows'[i]
        BY <1>4, <1>7, <4>1 DEF Ordered
      <4>3. rows'[k] \in Nat /\ rows'[i] \in Nat /\ rows'[k] = rows[k]
        BY <1>4, <1>5
      <4> QED
        BY <1>7, <3>2, <4>2, <4>3
    <3> QED
      BY <3>1, <3>2 DEF SkipInv, AsksFromRow
  <2> QED
    BY <2>1, <2>2
<1> QED
  BY <1>2, <1>6, <1>7 DEF SkipInv, NothingSkipped

LEMMA FollowSkips == FollowInv /\ SkipInv /\ Follow => SkipInv'
<1> SUFFICES ASSUME FollowInv, SkipInv, Follow PROVE SkipInv'
  OBVIOUS
<1> DEFINE a == Answer(seenSince)
           n == Len(printed)
           l == a[Len(a)]
<1>1. /\ a # <<>> /\ printed' = printed \o a /\ rows' = rows /\ start' = start
      /\ seenSince' = rows[l] + 1
  BY DEF Follow, JustPast, Last
<1>2. Sequence /\ printed \in Seq(DOMAIN rows) /\ seenSince \in Nat
  BY DEF FollowInv, Sequence
<1>3. a \in Seq(Matching(seenSince))
  BY <1>2, AnswerIs
<1>4. \A i \in Matching(seenSince) : (\E k \in 1..Len(a) : a[k] = i) \/ rows[l] <= rows[i]
  BY <1>1, <1>2, AnswerStops
<1> HIDE DEF a
<1>5. a \in Seq(DOMAIN rows) /\ Len(a) \in 1..Len(a)
  <2>1. Matching(seenSince) \subseteq DOMAIN rows
    BY DEF Matching
  <2>2. Len(a) \in Nat /\ Len(a) # 0
    BY <1>1, <1>3
  <2> QED
    BY <1>3, <2>1, <2>2
<1>6. l \in DOMAIN rows
  BY <1>5, ElementOfSeq
<1>7. /\ DOMAIN printed = 1..n /\ DOMAIN printed' = 1..(n + Len(a)) /\ n \in Nat
      /\ \A i \in 1..n : printed'[i] = printed[i]
      /\ \A i \in 1..Len(a) : printed'[n + i] = a[i]
  <2>1. /\ printed' \in Seq(DOMAIN rows) /\ Len(printed') = n + Len(a) /\ n \in Nat
        /\ \A i \in 1..n : printed'[i] = printed[i]
        /\ \A i \in 1..Len(a) : printed'[n + i] = a[i]
    BY <1>1, <1>2, <1>5, ConcatProperties
  <2>2. DOMAIN printed = 1..Len(printed) /\ DOMAIN printed' = 1..Len(printed')
    BY <1>2, <2>1, LenProperties
  <2> QED
    BY <2>1, <2>2
<1>8. \A i \in DOMAIN rows : rows[i] \in Nat /\ i \in Nat
  BY <1>2, RowsAre
<1>9. Range(printed) \subseteq Range(printed')
  <2>1. ASSUME NEW i \in 1..n PROVE i \in 1..(n + Len(a)) /\ printed'[i] = printed[i]
    BY <1>5, <1>7
  <2> QED
    BY <1>7, <2>1 DEF Range
<1>10. \A k \in 1..Len(a) : a[k] \in Range(printed')
  <2> SUFFICES ASSUME NEW k \in 1..Len(a) PROVE a[k] \in Range(printed')
    OBVIOUS
  <2>1. n + k \in 1..(n + Len(a)) /\ printed'[n + k] = a[k]
    BY <1>5, <1>7
  <2> QED
    BY <1>7, <2>1 DEF Range
<1>11. AsksFromRow'
  BY <1>1, <1>6 DEF AsksFromRow
<1>12. ASSUME Ordered(rows), NEW i \in DOMAIN rows, rows[i] >= start, rows[i] < seenSince'
       PROVE  i \in Range(printed')
  <2>1. CASE rows[i] < seenSince
    BY <1>9, <1>12, <2>1 DEF SkipInv, NothingSkipped
  <2>2. CASE rows[i] >= seenSince
    <3>1. CASE \E k \in 1..Len(a) : a[k] = i
      BY <1>10, <3>1
    <3>2. CASE rows[l] <= rows[i]
      <4> HIDE DEF l
      <4>1. rows[l] = rows[i]
        BY <1>1, <1>6, <1>8, <1>12, <3>2
      <4>2. i = l
        BY <1>6, <1>8, <1>12, <4>1 DEF Ordered
      <4> QED
        BY <1>5, <1>10, <4>2 DEF l
    <3> QED
      BY <1>4, <2>2, <3>1, <3>2 DEF Matching
  <2> QED
    BY <1>2, <1>8, <2>1, <2>2
<1> QED
  BY <1>1, <1>11, <1>12 DEF SkipInv, NothingSkipped

\* As long as rows arrive in the order of distinct timestamps, no row from the
\* start on is passed over: the follower asks from beyond it only once it is
\* printed, and a row committed later is not older than what is asked for
\* (_follow_logs).
THEOREM AllShownInOrder == Spec => []NothingSkipped
<1>1. FollowInv /\ SkipInv /\ [Next]_vars => FollowInv' /\ SkipInv'
  <2> SUFFICES ASSUME FollowInv, SkipInv, [Next]_vars PROVE FollowInv' /\ SkipInv'
    OBVIOUS
  <2>1. CASE UNCHANGED vars
    BY <2>1 DEF vars, FollowInv, InOrder, SkipInv, AsksFromRow, NothingSkipped
  <2> QED
    BY <2>1, CommitInv, FollowStepInv, CommitSkips, FollowSkips DEF Next
<1>2. SkipInv => NothingSkipped
  BY DEF SkipInv
<1> QED
  BY <1>1, <1>2, FollowInit, SkipInit, PTL DEF Spec
============================================================================
