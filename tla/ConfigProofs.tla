---------------------------- MODULE ConfigProofs ----------------------------
(***************************************************************************)
(* For any services, patterns and texts, and any number of scans, edits,   *)
(* deaths of a scan and starts of the daemon: the daemon never runs on a   *)
(* part of a list, after a scan it watches what the scan has found, and    *)
(* where brackets balance a scan that ends has kept the rest of the file.  *)
(*                                                                         *)
(* A text that a scan writes has one list, with what the scan has found,   *)
(* and before it no other.  So a reader that gets through any beginning of *)
(* the text without an error, and is not in the middle of a list, has      *)
(* either no list or all of it.                                            *)
(*                                                                         *)
(* That the rest is kept is about two readers of one text: the parser, and *)
(* the scan, which only counts brackets.  As long as both agree on where   *)
(* each list ends, what the scan takes out is one list of the parser's.    *)
(***************************************************************************)
EXTENDS ConfigFile, FiniteFacts, SequenceTheorems

----------------------------------------------------------------------------
(* Reading piece by piece. *)

Reading == [at : {"top", Watch, Exclude}, seen : SUBSET {Watch, Exclude, Key},
            watch : SUBSET Patterns, exclude : SUBSET Patterns]
Readers == {Rejected} \cup Reading

LEMMA RejectedReads == Rejected \notin Reading
<1>1. DOMAIN Rejected = {"raises"}
  BY DEF Rejected
<1>2. \A r \in Reading : "at" \in DOMAIN r
  BY DEF Reading
<1> QED
  BY <1>1, <1>2

LEMMA ReaderTypes ==
    /\ Reader0 \in Reading
    /\ \A r \in Readers, p \in Pieces : ReadPiece(r, p) \in Readers
<1>1. Reader0 \in Reading
  BY DEF Reader0, Reading
<1>2. ASSUME NEW r \in Reading, NEW p \in Pieces
      PROVE  ReadPiece(r, p) \in Readers
  BY DEF Readers, Reading, ReadPiece
<1>3. \A p : ReadPiece(Rejected, p) = Rejected
  BY DEF ReadPiece
<1> QED
  BY <1>1, <1>2, <1>3 DEF Readers

\* What the fold goes through.
Goes(g, t) ==
    g = [s \in SUBSET (1..Len(t)) |->
           IF s = {} THEN Reader0
           ELSE ReadPiece(g[s \ {Max(s)}], t[Max(s)])]
Way(t) == CHOOSE g : Goes(g, t)

LEMMA WayExists ==
    ASSUME NEW t \in Seq(Pieces)
    PROVE  Goes(Way(t), t)
<1> DEFINE S == 1..Len(t)
           pick == [s \in SUBSET S |-> Max(s)]
           op == [q \in S \X Readers |-> ReadPiece(q[2], t[q[1]])]
<1>1. IsFiniteSet(S) /\ Len(t) \in Nat /\ \A i \in S : t[i] \in Pieces
  BY FS_Interval
<1>2. \A s \in SUBSET S : s # {} => Max(s) \in s
  <2> TAKE s \in SUBSET S
  <2>1. S \subseteq Int
    OBVIOUS
  <2> HIDE DEF S
  <2>2. IsFiniteSet(s)
    BY <1>1, FS_Subset
  <2>3. s \in SUBSET Int
    BY <2>1
  <2> QED
    BY <2>2, <2>3, MaxOfFinite
<1>3. \A s \in SUBSET S : s # {} => pick[s] \in s
  BY <1>2
<1>4. op \in [S \X Readers -> Readers]
  BY <1>1, ReaderTypes
<1>5. PICK g : /\ Solves(g, Reader0, pick, op, S)
               /\ \A s \in SUBSET S : g[s] \in Readers
  <2>1. Reader0 \in Readers
    BY ReaderTypes DEF Readers
  <2> HIDE DEF S, pick, op
  <2> QED
    BY <1>1, <1>3, <1>4, <2>1, TypedSolution
<1>6. g = [s \in SUBSET S |->
             IF s = {} THEN Reader0 ELSE op[<<pick[s], g[s \ {pick[s]}]>>]]
  BY <1>5 DEF Solves
<1>7. ASSUME NEW s \in SUBSET S, s # {}
      PROVE  op[<<pick[s], g[s \ {pick[s]}]>>]
               = ReadPiece(g[s \ {Max(s)}], t[Max(s)])
  <2>1. pick[s] = Max(s) /\ Max(s) \in S /\ g[s \ {Max(s)}] \in Readers
    BY <1>2, <1>5, <1>7
  <2> HIDE DEF pick, S
  <2> QED
    BY <2>1
<1>8. Goes(g, t)
  <2> HIDE DEF op, pick
  <2> QED
    BY <1>6, <1>7 DEF Goes
<1> QED
  BY <1>8 DEF Way

LEMMA ParseIs ==
    ASSUME NEW t \in Seq(Pieces)
    PROVE  Parse(t) = Way(t)[1..Len(t)]
<1>1. DOMAIN t = 1..Len(t)
  OBVIOUS
<1>2. Parse(t) = Way(t)[DOMAIN t]
  BY <1>1 DEF Parse, FoldLeft, MapThenFoldSet, Way, Goes
<1> QED
  BY <1>1, <1>2

LEMMA WaySteps ==
    ASSUME NEW t \in Seq(Pieces)
    PROVE  /\ Way(t)[1..0] = Reader0
           /\ \A i \in 1..Len(t) :
                 Way(t)[1..i] = ReadPiece(Way(t)[1..(i - 1)], t[i])
<1> DEFINE g == Way(t)
<1>1. g = [s \in SUBSET (1..Len(t)) |->
             IF s = {} THEN Reader0
             ELSE ReadPiece(g[s \ {Max(s)}], t[Max(s)])]
  BY WayExists DEF Goes
<1> HIDE DEF g
<1>2. 1..0 = {} /\ g[{}] = Reader0
  BY <1>1
<1>3. ASSUME NEW i \in 1..Len(t)
      PROVE  g[1..i] = ReadPiece(g[1..(i - 1)], t[i])
  <2>1. i \in 1..i /\ \A j \in 1..i : j <= i
    OBVIOUS
  <2>2. Max(1..i) = i
    <3> DEFINE S == 1..i
    <3>1. S \subseteq Int
      OBVIOUS
    <3>2. IsFiniteSet(S)
      BY FS_Interval
    <3>3. S # {}
      BY <2>1
    <3> HIDE DEF S
    <3>4. Max(S) \in S /\ \A j \in S : j <= Max(S)
      BY <3>1, <3>2, <3>3, MaxOfFinite
    <3> QED
      BY <2>1, <3>4 DEF S
  <2>3. (1..i) \ {i} = 1..(i - 1)
    OBVIOUS
  <2>4. 1..i \in SUBSET (1..Len(t)) /\ 1..i # {}
    <3>1. \A j \in 1..i : j \in 1..Len(t)
      OBVIOUS
    <3>2. 1..i # {}
      BY <2>1
    <3> QED
      BY <3>1, <3>2
  <2>5. g[1..i] = ReadPiece(g[(1..i) \ {Max(1..i)}], t[Max(1..i)])
    BY <1>1, <2>4
  <2> QED
    BY <2>2, <2>3, <2>5
<1> QED
  BY <1>2, <1>3 DEF g

\* The reader after the first i pieces of t.
After(t, i) == Parse(SubSeq(t, 1, i))

LEMMA FirstPieces ==
    ASSUME NEW t \in Seq(Pieces), NEW i \in 0..Len(t)
    PROVE  /\ SubSeq(t, 1, i) \in Seq(Pieces)
           /\ Len(SubSeq(t, 1, i)) = i
           /\ \A j \in 1..i : SubSeq(t, 1, i)[j] = t[j]
<1>1. \A j \in 1..i : t[j] \in Pieces
  OBVIOUS
<1>2. /\ SubSeq(t, 1, i) \in Seq(Pieces)
      /\ Len(SubSeq(t, 1, i)) = IF 1 <= i THEN i - 1 + 1 ELSE 0
      /\ \A j \in 1 .. i - 1 + 1 : SubSeq(t, 1, i)[j] = t[1 + j - 1]
  BY <1>1, SubSeqProperties
<1> QED
  BY <1>2

LEMMA AfterIsWay ==
    ASSUME NEW t \in Seq(Pieces), NEW i \in 0..Len(t)
    PROVE  After(t, i) = Way(t)[1..i]
<1> DEFINE u == SubSeq(t, 1, i)
           S == {j \in 0..i : Way(u)[1..j] = Way(t)[1..j]}
<1>1. /\ u \in Seq(Pieces) /\ Len(u) = i
      /\ \A j \in 1..i : u[j] = t[j]
  BY FirstPieces
<1>2. After(t, i) = Way(u)[1..i]
  <2>1. After(t, i) = Parse(u)
    BY DEF After
  <2> HIDE DEF u
  <2> QED
    BY <1>1, <2>1, ParseIs
<1> HIDE DEF u
<1>3. 0 \in S
  BY <1>1, WaySteps
<1>4. ASSUME NEW j \in 1..i, j - 1 \in S PROVE j \in S
  <2>1. Way(u)[1..j] = ReadPiece(Way(u)[1..(j - 1)], u[j])
    BY <1>1, WaySteps
  <2>2. j \in 1..Len(t)
    OBVIOUS
  <2>3. Way(t)[1..j] = ReadPiece(Way(t)[1..(j - 1)], t[j])
    BY <2>2, WaySteps
  <2> QED
    BY <1>1, <1>4, <2>1, <2>3
<1>5. \A j \in 0..i : j \in S
  <2> HIDE DEF S
  <2> QED
    BY <1>3, <1>4, IntervalInduction
<1>6. i \in S
  BY <1>5
<1> QED
  BY <1>2, <1>6

LEMMA PieceByPiece ==
    ASSUME NEW t \in Seq(Pieces)
    PROVE  /\ After(t, 0) = Reader0
           /\ \A i \in 1..Len(t) :
                 After(t, i) = ReadPiece(After(t, i - 1), t[i])
           /\ After(t, Len(t)) = Parse(t)
<1>1. Len(t) \in Nat /\ \A i \in 1..Len(t) : i \in 0..Len(t) /\ i - 1 \in 0..Len(t)
  OBVIOUS
<1>2. After(t, 0) = Reader0
  BY <1>1, AfterIsWay, WaySteps
<1>3. \A i \in 1..Len(t) : After(t, i) = ReadPiece(After(t, i - 1), t[i])
  BY <1>1, AfterIsWay, WaySteps
<1>4. After(t, Len(t)) = Parse(t)
  BY SubSeqFull DEF After
<1> QED
  BY <1>2, <1>3, <1>4

----------------------------------------------------------------------------
(* Reading a text with one list. *)

LEMMA PieceKinds ==
    /\ \A p \in Patterns : p \notin Remarks \cup {Watch, Exclude, Close, Key,
                                                   BadKey, Absent}
    /\ Watch \notin Remarks \cup {Exclude, Close, Key, BadKey, "top"}
    /\ Close \notin Remarks \cup {Exclude, Key}
    /\ Exclude \notin {Key, "top"}
  BY PieceAssumption DEF Remarks, Watch, Exclude, Close, Key, BadKey, Absent,
     RemarkOpen, RemarkClose

NoList(r) == r \in Reading /\ r.watch = {} /\ Watch \notin r.seen /\ r.at # Watch
InList(r, S) == r \in Reading /\ r.watch = S /\ Watch \in r.seen /\ r.at = Watch
Listed(r, S) == r \in Reading /\ r.watch = S /\ Watch \in r.seen /\ r.at # Watch

\* What each piece does to the list.
LEMMA ListPieces ==
    ASSUME NEW r, NEW p \in Pieces
    PROVE  /\ NoList(r) /\ p # Watch =>
                 ReadPiece(r, p) = Rejected \/ NoList(ReadPiece(r, p))
           /\ NoList(r) /\ p = Watch =>
                 ReadPiece(r, p) = Rejected \/ InList(ReadPiece(r, p), {})
           /\ \A S : InList(r, S) /\ p \in Patterns =>
                 InList(ReadPiece(r, p), S \cup {p})
           /\ \A S : InList(r, S) /\ p = Close => Listed(ReadPiece(r, p), S)
           /\ \A S : Listed(r, S) =>
                 ReadPiece(r, p) = Rejected \/ Listed(ReadPiece(r, p), S)
<1> DEFINE q == ReadPiece(r, p)
<1>1. r \in Reading => q = Rejected \/ q \in Reading
  BY ReaderTypes DEF Readers
<1>2. r \in Reading => r # Rejected
  BY RejectedReads
<1>3. CASE p \in Remarks
  <2>1. q = r
    BY <1>3 DEF ReadPiece
  <2> QED
    BY <1>3, <2>1, PieceKinds
<1>4. ASSUME r \in Reading, p \notin Remarks
      PROVE  /\ r.at = "top" /\ p \in {Watch, Exclude, Key} \ r.seen =>
                   /\ q.watch = r.watch /\ q.seen = r.seen \cup {p}
                   /\ q.at = IF p = Key THEN "top" ELSE p
             /\ r.at = Watch /\ p \in Patterns =>
                   /\ q.watch = r.watch \cup {p}
                   /\ q.seen = r.seen /\ q.at = Watch /\ q \in Reading
             /\ r.at = Exclude /\ p \in Patterns =>
                   q.watch = r.watch /\ q.seen = r.seen /\ q.at = Exclude
             /\ r.at # "top" /\ p = Close =>
                   /\ q.watch = r.watch /\ q.seen = r.seen
                   /\ q.at = "top" /\ q \in Reading
             /\ \/ r.at = "top" /\ p \in {Watch, Exclude, Key} \ r.seen
                \/ r.at \in {Watch, Exclude} /\ p \in Patterns
                \/ r.at # "top" /\ p = Close
                \/ q = Rejected
  <2>1. r.at \in {"top", Watch, Exclude} /\ Watch # Exclude
        /\ Watch # "top" /\ Exclude # "top"
    BY <1>4, PieceKinds DEF Reading
  <2>2. r # Rejected
    BY <1>2, <1>4
  <2>3. CASE r.at = "top" /\ p \in {Watch, Exclude, Key} \ r.seen
    <3>1. q = [r EXCEPT !.seen = @ \cup {p},
                        !.at = IF p = Key THEN "top" ELSE p]
      BY <1>4, <2>1, <2>2, <2>3 DEF ReadPiece
    <3> QED
      BY <1>4, <2>1, <2>3, <3>1 DEF Reading
  <2>4. CASE r.at = Watch /\ p \in Patterns
    <3>1. q = [r EXCEPT !.watch = @ \cup {p}]
      BY <1>4, <2>1, <2>2, <2>4, PieceKinds DEF ReadPiece
    <3> QED
      BY <1>4, <2>1, <2>4, <3>1, PieceKinds DEF Reading
  <2>5. CASE r.at = Exclude /\ p \in Patterns
    <3>1. q = [r EXCEPT !.exclude = @ \cup {p}]
      BY <1>4, <2>1, <2>2, <2>5, PieceKinds DEF ReadPiece
    <3> QED
      BY <1>4, <2>1, <2>5, <3>1, PieceKinds DEF Reading
  <2>6. CASE r.at # "top" /\ p = Close
    <3>1. q = [r EXCEPT !.at = "top"]
      BY <1>4, <2>1, <2>2, <2>6, PieceKinds DEF ReadPiece
    <3> QED
      BY <1>4, <2>1, <2>6, <3>1, PieceKinds DEF Reading
  <2>7. CASE /\ ~(r.at = "top" /\ p \in {Watch, Exclude, Key} \ r.seen)
             /\ ~(r.at \in {Watch, Exclude} /\ p \in Patterns)
             /\ ~(r.at # "top" /\ p = Close)
    <3>1. q = Rejected
      BY <1>4, <2>1, <2>2, <2>7 DEF ReadPiece
    <3> QED
      BY <2>1, <2>7, <3>1
  <2> QED
    BY <2>1, <2>3, <2>4, <2>5, <2>6, <2>7
<1>5. CASE p \notin Remarks
  <2> HIDE DEF q
  <2>1. NoList(r) /\ p # Watch => q = Rejected \/ NoList(q)
    BY <1>1, <1>4, <1>5, PieceKinds DEF NoList
  <2>2. NoList(r) /\ p = Watch => q = Rejected \/ InList(q, {})
    BY <1>1, <1>4, <1>5, PieceKinds DEF NoList, InList
  <2>3. \A S : InList(r, S) /\ p \in Patterns => InList(q, S \cup {p})
    BY <1>1, <1>4, <1>5, PieceKinds, RejectedReads DEF InList
  <2>4. \A S : InList(r, S) /\ p = Close => Listed(q, S)
    BY <1>1, <1>4, <1>5, PieceKinds, RejectedReads DEF InList, Listed
  <2>5. \A S : Listed(r, S) => q = Rejected \/ Listed(q, S)
    BY <1>1, <1>4, <1>5, PieceKinds DEF Listed
  <2> QED
    BY <2>1, <2>2, <2>3, <2>4, <2>5 DEF q
<1> QED
  BY <1>3, <1>5

\* A text with one list of S, of which only the beginning may be there: the
\* k-th piece opens it, m names follow, and no other piece before opens one.
OneList(t, k, m) ==
    /\ k \in 1..Len(t) /\ m \in Nat /\ k + m + 1 <= Len(t)
    /\ t[k] = Watch /\ \A i \in 1..(k - 1) : t[i] # Watch
    /\ \A i \in (k + 1)..(k + m) : t[i] \in Patterns
    /\ t[k + m + 1] = Close

Names(t, k, i) == {t[j] : j \in (k + 1)..i}

LEMMA ReadingOneList ==
    ASSUME NEW t \in Seq(Pieces), NEW k, NEW m, OneList(t, k, m)
    PROVE  \A i \in 0..Len(t) :
              \/ After(t, i) = Rejected
              \/ i < k /\ NoList(After(t, i))
              \/ i \in k..(k + m) /\ InList(After(t, i), Names(t, k, i))
              \/ i > k + m /\ Listed(After(t, i), Names(t, k, k + m))
<1> DEFINE Holds(i) ==
              \/ After(t, i) = Rejected
              \/ i < k /\ NoList(After(t, i))
              \/ i \in k..(k + m) /\ InList(After(t, i), Names(t, k, i))
              \/ i > k + m /\ Listed(After(t, i), Names(t, k, k + m))
           T == {i \in 0..Len(t) : Holds(i)}
<1>1. /\ k \in Nat /\ m \in Nat /\ Len(t) \in Nat /\ k >= 1
      /\ k + m + 1 <= Len(t)
      /\ \A i \in 1..Len(t) : t[i] \in Pieces
  BY DEF OneList
<1>2. 0 \in T
  <2>1. NoList(Reader0)
    BY ReaderTypes, PieceKinds DEF NoList, Reader0
  <2>2. After(t, 0) = Reader0
    BY PieceByPiece
  <2> QED
    BY <1>1, <2>1, <2>2
<1>3. ASSUME NEW i \in 1..Len(t), i - 1 \in T PROVE i \in T
  <2> DEFINE r == After(t, i - 1)
             p == t[i]
             q == After(t, i)
  <2>1. q = ReadPiece(r, p) /\ p \in Pieces
    BY <1>1, PieceByPiece
  <2>2. Holds(i - 1)
    BY <1>3
  <2>3. CASE r = Rejected
    <3>1. q = Rejected
      BY <2>1, <2>3 DEF ReadPiece
    <3> QED
      BY <3>1
  <2>4. CASE i < k /\ NoList(r)
    <3>1. p # Watch
      BY <2>4 DEF OneList
    <3>2. q = Rejected \/ NoList(q)
      <4> HIDE DEF r, p, q
      <4> QED
        BY <2>1, <2>4, <3>1, ListPieces
    <3> QED
      BY <2>4, <3>2
  <2>5. CASE i = k /\ NoList(r)
    <3>1. p = Watch
      BY <2>5 DEF OneList
    <3>2. q = Rejected \/ InList(q, {})
      <4> HIDE DEF r, p, q
      <4> QED
        BY <2>1, <2>5, <3>1, ListPieces
    <3>3. Names(t, k, i) = {} /\ i \in k..(k + m)
      BY <1>1, <2>5 DEF Names
    <3>4. q = Rejected \/ InList(q, Names(t, k, i))
      BY <3>2, <3>3
    <3> HIDE DEF q
    <3>5. Holds(i)
      BY <3>3, <3>4 DEF q
    <3> QED
      BY <3>5
  <2>6. CASE i \in (k + 1)..(k + m) /\ InList(r, Names(t, k, i - 1))
    <3>1. p \in Patterns
      BY <2>6 DEF OneList
    <3>2. InList(q, Names(t, k, i - 1) \cup {p})
      <4> HIDE DEF r, p, q
      <4> QED
        BY <2>1, <2>6, <3>1, ListPieces
    <3>3. Names(t, k, i - 1) \cup {p} = Names(t, k, i)
      <4>1. (k + 1)..i = ((k + 1)..(i - 1)) \cup {i}
        BY <1>1, <2>6
      <4> QED
        BY <4>1 DEF Names
    <3>4. i \in k..(k + m)
      BY <1>1, <2>6
    <3>5. InList(q, Names(t, k, i))
      BY <3>2, <3>3
    <3> HIDE DEF q
    <3>6. Holds(i)
      BY <3>4, <3>5 DEF q
    <3> QED
      BY <3>6
  <2>7. CASE i = k + m + 1 /\ InList(r, Names(t, k, i - 1))
    <3>1. p = Close /\ i - 1 = k + m
      BY <1>1, <2>7 DEF OneList
    <3>2. Listed(q, Names(t, k, k + m))
      <4> HIDE DEF r, p, q
      <4> QED
        BY <2>1, <2>7, <3>1, ListPieces
    <3> QED
      BY <1>1, <2>7, <3>2
  <2>8. CASE i > k + m + 1 /\ Listed(r, Names(t, k, k + m))
    <3>1. q = Rejected \/ Listed(q, Names(t, k, k + m))
      <4> HIDE DEF r, p, q
      <4> QED
        BY <2>1, <2>8, ListPieces
    <3> QED
      BY <1>1, <2>8, <3>1
  <2>9. \/ r = Rejected
        \/ i <= k /\ NoList(r)
        \/ i \in (k + 1)..(k + m + 1) /\ InList(r, Names(t, k, i - 1))
        \/ i > k + m + 1 /\ Listed(r, Names(t, k, k + m))
    <3> HIDE DEF r
    <3>1. \/ r = Rejected
          \/ i - 1 < k /\ NoList(r)
          \/ i - 1 \in k..(k + m) /\ InList(r, Names(t, k, i - 1))
          \/ i - 1 > k + m /\ Listed(r, Names(t, k, k + m))
      BY <2>2 DEF r
    <3> QED
      BY <1>1, <3>1
  <2>10. \/ i < k \/ i = k \/ i \in (k + 1)..(k + m)
         \/ i = k + m + 1 \/ i > k + m + 1
    BY <1>1
  <2> HIDE DEF T, r, q, p
  <2> QED
    BY <1>1, <2>3, <2>4, <2>5, <2>6, <2>7, <2>8, <2>9, <2>10
<1>4. \A i \in 0..Len(t) : i \in T
  <2> HIDE DEF T
  <2> QED
    BY <1>1, <1>2, <1>3, IntervalInduction
<1> QED
  BY <1>4

\* So any beginning of it that loads has all of the list or none.
LEMMA AllOrNone ==
    ASSUME NEW t \in Seq(Pieces), NEW k, NEW m, OneList(t, k, m),
           NEW i \in 0..Len(t), Valid(SubSeq(t, 1, i))
    PROVE  /\ Parse(SubSeq(t, 1, i)).watch \in {{}, Names(t, k, k + m)}
           /\ i = Len(t) =>
                 Parse(SubSeq(t, 1, i)).watch = Names(t, k, k + m)
<1> DEFINE r == After(t, i)
<1>1. r = Parse(SubSeq(t, 1, i)) /\ r # Rejected /\ r.at = "top"
  BY DEF After, Valid
<1>2. \/ r = Rejected
      \/ i < k /\ NoList(r)
      \/ i \in k..(k + m) /\ InList(r, Names(t, k, i))
      \/ i > k + m /\ Listed(r, Names(t, k, k + m))
  BY ReadingOneList
<1> HIDE DEF r
<1>3. \/ i < k /\ NoList(r)
      \/ i > k + m /\ Listed(r, Names(t, k, k + m))
  BY <1>1, <1>2, PieceKinds DEF InList
<1>4. k \in Nat /\ m \in Nat /\ k < Len(t)
  BY DEF OneList
<1> QED
  BY <1>1, <1>3, <1>4 DEF NoList, Listed

----------------------------------------------------------------------------
(* The text a scan writes. *)

LEMMA SeqOfSet ==
    ASSUME NEW S, IsFiniteSet(S)
    PROVE  LET s == SetToSeq(S)
           IN  /\ s \in Seq(S) /\ Len(s) = Cardinality(S)
               /\ {s[j] : j \in 1..Len(s)} = S
<1> DEFINE n == Cardinality(S)
           s == SetToSeq(S)
<1>1. n \in Nat /\ ExistsBijection(1..n, S)
  BY FS_CardinalityType
<1>2. IsFiniteSet(1..n) /\ Cardinality(1..n) = n
  BY <1>1, FS_Interval
<1> HIDE DEF n
<1>3. \E f \in [1..n -> S] : IsInjective(f)
  BY <1>1 DEF ExistsBijection, Bijection, Injection
<1>4. s \in [1..n -> S] /\ IsInjective(s)
  BY <1>3 DEF SetToSeq, n
<1> HIDE DEF s
<1>5. s \in Injection(1..n, S)
  BY <1>4 DEF Injection
<1>6. s \in Surjection(1..n, S)
  BY <1>2, <1>5, FS_Injection DEF n
<1>7. {s[j] : j \in 1..n} = S
  BY <1>4, <1>6 DEF Surjection
<1>8. s \in Seq(S)
  BY <1>1, <1>4
<1>9. Len(s) = n
  BY <1>1, <1>4, <1>8
<1> QED
  BY <1>7, <1>8, <1>9 DEF n, s

LEMMA ListOf ==
    ASSUME NEW units \in SUBSET Services
    PROVE  LET f == FormatWatchUnits(units)
               m == Cardinality(units)
           IN  /\ f \in Seq(Pieces) /\ m \in Nat /\ Len(f) = m + 2
               /\ f[1] = Watch /\ f[m + 2] = Close
               /\ {f[j] : j \in 2..(m + 1)} = units
<1> DEFINE s == SetToSeq(units)
           m == Cardinality(units)
           f == (<<Watch>> \o s) \o <<Close>>
<1>1. IsFiniteSet(units)
  BY GlobAssumption, FS_Subset
<1>2. m \in Nat
  BY <1>1, FS_CardinalityType
<1>3. /\ s \in Seq(units) /\ Len(s) = m /\ {s[j] : j \in 1..m} = units
  BY <1>1, SeqOfSet
<1> HIDE DEF s, m
<1>4. units \subseteq Pieces /\ Watch \in Pieces /\ Close \in Pieces
  BY DEF Pieces, Patterns
<1>5. s \in Seq(Pieces)
  BY <1>3, <1>4, SeqMonotonic
<1>6. /\ f \in Seq(Pieces) /\ Len(f) = m + 2
      /\ f[1] = Watch /\ f[m + 2] = Close
      /\ \A j \in 1..m : f[j + 1] = s[j]
  <2> DEFINE h == <<Watch>> \o s
  <2>1. <<Watch>> \in Seq(Pieces) /\ <<Close>> \in Seq(Pieces)
    BY <1>4
  <2>2. /\ h \in Seq(Pieces) /\ Len(h) = m + 1 /\ h[1] = Watch
        /\ \A j \in 1..m : h[j + 1] = s[j]
    BY <1>2, <1>3, <1>5, <2>1
  <2> HIDE DEF h
  <2>3. /\ h \o <<Close>> \in Seq(Pieces) /\ Len(h \o <<Close>>) = m + 2
        /\ (h \o <<Close>>)[m + 2] = Close
        /\ \A j \in 1..(m + 1) : (h \o <<Close>>)[j] = h[j]
    BY <1>2, <2>1, <2>2
  <2>4. f = h \o <<Close>>
    BY DEF h
  <2> HIDE DEF f
  <2> QED
    BY <1>2, <2>2, <2>3, <2>4
<1>7. f = FormatWatchUnits(units)
  BY DEF FormatWatchUnits, s
<1> HIDE DEF f
<1>8. {f[j] : j \in 2..(m + 1)} = {s[j] : j \in 1..m}
  <2>1. ASSUME NEW j \in 2..(m + 1) PROVE j - 1 \in 1..m /\ f[j] = s[j - 1]
    <3>1. j - 1 \in 1..m /\ j = (j - 1) + 1
      BY <1>2
    <3> QED
      BY <1>6, <3>1
  <2>2. \A j \in 1..m : j + 1 \in 2..(m + 1) /\ f[j + 1] = s[j]
    BY <1>2, <1>6
  <2> QED
    BY <2>1, <2>2
<1> QED
  BY <1>2, <1>3, <1>6, <1>7, <1>8 DEF m

\* A list put between two texts, of which the first has none.
Between(pre, units, post) == (pre \o FormatWatchUnits(units)) \o post

ListAt(t, pre, units, post, k, m) ==
    /\ t \in Seq(Pieces) /\ m \in Nat
    /\ OneList(t, k, m) /\ Names(t, k, k + m) = units
    /\ Len(t) = k + m + 1 + Len(post)
    /\ \A i \in 1..(k - 1) : t[i] = pre[i]
    /\ \A j \in 1..Len(post) : t[k + m + 1 + j] = post[j]

LEMMA OneListBetween ==
    ASSUME NEW pre \in Seq(Pieces), NEW post \in Seq(Pieces),
           \A i \in 1..Len(pre) : pre[i] # Watch,
           NEW units \in SUBSET Services
    PROVE  ListAt(Between(pre, units, post), pre, units, post,
                  Len(pre) + 1, Cardinality(units))
<1> DEFINE t == Between(pre, units, post)
           m == Cardinality(units)
           k == Len(pre) + 1
           f == FormatWatchUnits(units)
           h == pre \o f
<1>1. /\ f \in Seq(Pieces) /\ m \in Nat /\ Len(f) = m + 2
      /\ f[1] = Watch /\ f[m + 2] = Close
      /\ {f[j] : j \in 2..(m + 1)} = units
  BY ListOf
<1>2. Len(pre) \in Nat /\ Len(post) \in Nat
  OBVIOUS
<1>0. t = h \o post
  BY DEF Between
<1>14. k = Len(pre) + 1 /\ k \in Nat /\ k - 1 = Len(pre)
  BY <1>2
<1> HIDE DEF f, t, m
<1>3. /\ h \in Seq(Pieces) /\ Len(h) = Len(pre) + m + 2
      /\ \A i \in 1..Len(pre) : h[i] = pre[i]
      /\ \A j \in 1..(m + 2) : h[Len(pre) + j] = f[j]
  <2>1. /\ h \in Seq(Pieces) /\ Len(h) = Len(pre) + Len(f)
        /\ \A i \in 1 .. Len(pre) + Len(f) :
              h[i] = IF i <= Len(pre) THEN pre[i] ELSE f[i - Len(pre)]
    BY <1>1, ConcatProperties
  <2> HIDE DEF h
  <2>2. ASSUME NEW j \in 1..(m + 2) PROVE h[Len(pre) + j] = f[j]
    <3>1. /\ Len(pre) + j \in 1 .. Len(pre) + Len(f)
          /\ ~(Len(pre) + j <= Len(pre)) /\ (Len(pre) + j) - Len(pre) = j
      BY <1>1, <1>2
    <3> QED
      BY <2>1, <3>1
  <2> QED
    BY <1>1, <1>2, <2>1, <2>2
<1> HIDE DEF h
<1>4. /\ t \in Seq(Pieces) /\ Len(t) = Len(h) + Len(post)
      /\ \A i \in 1..Len(h) : t[i] = h[i]
      /\ \A j \in 1..Len(post) : t[Len(h) + j] = post[j]
  <2>1. /\ t \in Seq(Pieces) /\ Len(t) = Len(h) + Len(post)
        /\ \A i \in 1 .. Len(h) + Len(post) :
              t[i] = IF i <= Len(h) THEN h[i] ELSE post[i - Len(h)]
    BY <1>0, <1>3, ConcatProperties
  <2>2. Len(h) \in Nat
    BY <1>3
  <2>3. ASSUME NEW j \in 1..Len(post) PROVE t[Len(h) + j] = post[j]
    <3>1. /\ Len(h) + j \in 1 .. Len(h) + Len(post)
          /\ ~(Len(h) + j <= Len(h)) /\ (Len(h) + j) - Len(h) = j
      BY <1>2, <2>2
    <3> QED
      BY <2>1, <3>1
  <2> QED
    BY <1>2, <1>3, <2>1, <2>3
<1>5. /\ \A i \in 1..Len(pre) : t[i] = pre[i]
      /\ \A j \in 1..(m + 2) : t[Len(pre) + j] = f[j]
  <2>1. \A i \in 1..Len(pre) : i \in 1..Len(h)
    BY <1>1, <1>2, <1>3
  <2>2. \A j \in 1..(m + 2) : Len(pre) + j \in 1..Len(h)
    BY <1>1, <1>2, <1>3
  <2> QED
    BY <1>3, <1>4, <2>1, <2>2
<1>6. k \in 1..Len(t) /\ k + m + 1 <= Len(t)
  BY <1>1, <1>2, <1>3, <1>4
<1>7. t[k] = Watch
  <2>1. 1 \in 1..(m + 2)
    BY <1>1
  <2> QED
    BY <1>1, <1>5, <2>1
<1>8. t[k + m + 1] = Close
  <2>1. m + 2 \in 1..(m + 2) /\ k + m + 1 = Len(pre) + (m + 2)
    <3> DEFINE l == Len(pre)
    <3>1. l \in Nat /\ k = l + 1 /\ m \in Nat
      BY <1>1, <1>2, <1>14
    <3> HIDE DEF l
    <3>2. m + 2 \in 1..(m + 2) /\ k + m + 1 = l + (m + 2)
      BY <3>1
    <3> QED
      BY <3>2 DEF l
  <2> QED
    BY <1>1, <1>5, <2>1
<1>9. \A i \in 1..(k - 1) : t[i] # Watch
  BY <1>2, <1>5
<1>10. Names(t, k, k + m) = units
  <2>1. ASSUME NEW i \in (k + 1)..(k + m)
        PROVE  i - Len(pre) \in 2..(m + 1) /\ t[i] = f[i - Len(pre)]
    <3>1. /\ i - Len(pre) \in 2..(m + 1) /\ i - Len(pre) \in 1..(m + 2)
          /\ i = Len(pre) + (i - Len(pre))
      BY <1>1, <1>2
    <3> QED
      BY <1>5, <3>1
  <2>2. ASSUME NEW j \in 2..(m + 1)
        PROVE  Len(pre) + j \in (k + 1)..(k + m) /\ t[Len(pre) + j] = f[j]
    <3>1. Len(pre) + j \in (k + 1)..(k + m) /\ j \in 1..(m + 2)
      BY <1>1, <1>2
    <3> QED
      BY <1>5, <3>1
  <2>3. {t[i] : i \in (k + 1)..(k + m)} = {f[j] : j \in 2..(m + 1)}
    BY <2>1, <2>2
  <2> QED
    BY <1>1, <2>3 DEF Names
<1>11. \A i \in (k + 1)..(k + m) : t[i] \in Patterns
  <2>1. \A i \in (k + 1)..(k + m) : t[i] \in Names(t, k, k + m)
    BY DEF Names
  <2> QED
    BY <1>10, <2>1 DEF Patterns
<1>12. OneList(t, k, m)
  BY <1>1, <1>6, <1>7, <1>8, <1>9, <1>11 DEF OneList
<1>13. /\ Len(t) = k + m + 1 + Len(post)
       /\ \A j \in 1..Len(post) : t[k + m + 1 + j] = post[j]
  <2>1. Len(h) = k + m + 1 /\ Len(t) = Len(h) + Len(post)
    BY <1>1, <1>2, <1>3, <1>4
  <2> QED
    BY <1>4, <2>1
<1>15. \A i \in 1..(k - 1) : t[i] = pre[i]
  BY <1>5, <1>14
<1> QED
  BY <1>1, <1>4, <1>10, <1>12, <1>13, <1>15 DEF ListAt, t, m

LEMMA ListEnds ==
    ASSUME NEW t \in Seq(Pieces), Begins(t) # {}
    PROVE  /\ First(t) \in 1..Len(t)
           /\ \A i \in 1..(First(t) - 1) : t[i] # Watch
           /\ EndOfList(t, First(t)) \in 1..Len(t)
<1>1. DOMAIN t = 1..Len(t) /\ Len(t) \in Nat
  OBVIOUS
<1>2. Begins(t) \in SUBSET (1..Len(t)) /\ IsFiniteSet(Begins(t))
  <2>1. Begins(t) \in SUBSET (1..Len(t))
    BY <1>1 DEF Begins
  <2>2. IsFiniteSet(1..Len(t))
    BY <1>1, FS_Interval
  <2> QED
    BY <2>1, <2>2, FS_Subset
<1>3. First(t) \in Begins(t) /\ \A j \in Begins(t) : First(t) <= j
  <2>1. Begins(t) \in SUBSET Int
    BY <1>2
  <2>2. \E i \in Begins(t) : \A j \in Begins(t) : i <= j
    BY <1>2, <2>1, MinOfFinite
  <2> QED
    BY <2>2 DEF First
<1>4. First(t) \in 1..Len(t)
  BY <1>2, <1>3
<1>5. \A i \in 1..(First(t) - 1) : t[i] # Watch
  <2> SUFFICES ASSUME NEW i \in 1..(First(t) - 1), t[i] = Watch PROVE FALSE
    OBVIOUS
  <2>1. i \in 1..Len(t) /\ ~(First(t) <= i)
    BY <1>4
  <2>2. i \in Begins(t)
    BY <1>1, <2>1 DEF Begins
  <2> QED
    BY <1>3, <2>1, <2>2
<1> DEFINE a == First(t)
           ends == {i \in a..Len(t) : Depth(t, a, i) = 0}
<1> HIDE DEF a
<1>6. a \in 1..Len(t)
  BY <1>4 DEF a
<1>7. EndOfList(t, a) = IF ends = {} THEN Len(t)
                        ELSE CHOOSE i \in ends : \A j \in ends : i <= j
  BY DEF EndOfList
<1>8. ends \in SUBSET (1..Len(t)) /\ IsFiniteSet(ends)
  <2>1. ends \in SUBSET (1..Len(t))
    BY <1>1, <1>6
  <2>2. IsFiniteSet(1..Len(t))
    BY <1>1, FS_Interval
  <2> HIDE DEF ends
  <2> QED
    BY <2>1, <2>2, FS_Subset
<1>9. EndOfList(t, a) \in 1..Len(t)
  <2> HIDE DEF ends
  <2>1. CASE ends = {}
    BY <1>6, <1>7, <2>1
  <2>2. CASE ends # {}
    <3>1. ends \in SUBSET Int
      BY <1>8
    <3>2. \E i \in ends : \A j \in ends : i <= j
      BY <1>8, <2>2, <3>1, MinOfFinite
    <3> QED
      BY <1>7, <1>8, <2>2, <3>2
  <2> QED
    BY <2>1, <2>2
<1> QED
  BY <1>4, <1>5, <1>9 DEF a

LEMMA ThreeParts ==
    \A s, t, u \in Seq(Pieces) : (s \o t) \o u = s \o (t \o u)
  BY ConcatAssociative

Regroups(h, x, e, c) == ((h \o x) \o e) \o c = h \o ((x \o e) \o c)

LEMMA FourParts ==
    \A h, x, e, c \in Seq(Pieces) : Regroups(h, x, e, c)
<1> TAKE h, x, e, c \in Seq(Pieces)
<1>1. (h \o x) \o e = h \o (x \o e)
  BY ThreeParts
<1> DEFINE y == x \o e
<1>2. y \in Seq(Pieces)
  BY ConcatProperties
<1> HIDE DEF y
<1>3. (h \o y) \o c = h \o (y \o c)
  BY <1>2, ThreeParts
<1> QED
  BY <1>1, <1>3 DEF y, Regroups

LEMMA ExcludedSeq == SetToSeq(Excluded) \in Seq(Pieces)
<1>1. IsFiniteSet(Excluded)
  BY GlobAssumption, FS_Subset
<1>2. Excluded \subseteq Pieces
  BY GlobAssumption DEF Pieces, Patterns
<1> DEFINE e == SetToSeq(Excluded)
<1>3. e \in Seq(Excluded)
  BY <1>1, SeqOfSet
<1> HIDE DEF e
<1>4. e \in Seq(Pieces)
  BY <1>2, <1>3, SeqMonotonic
<1> QED
  BY <1>4 DEF e

LEMMA TemplateIs ==
    ASSUME NEW a \in Seq(Pieces)
    PROVE  Template(a) = (<<Key>> \o a)
                           \o ((<<Exclude>> \o SetToSeq(Excluded)) \o <<Close>>)
<1> DEFINE h == <<Key>> \o a
           x == <<Exclude>>
           c == <<Close>>
           e == SetToSeq(Excluded)
<1>1. <<Key>> \in Seq(Pieces) /\ x \in Seq(Pieces) /\ c \in Seq(Pieces)
  BY DEF Pieces
<1>2. h \in Seq(Pieces)
  BY <1>1, ConcatProperties
<1>3. e \in Seq(Pieces)
  BY ExcludedSeq
<1>4. Template(a) = ((h \o x) \o e) \o c
  BY DEF Template
<1> HIDE DEF h, x, c, e
<1>5. Regroups(h, x, e, c)
  BY <1>1, <1>2, <1>3, FourParts
<1>6. Template(a) = h \o ((x \o e) \o c)
  BY <1>4, <1>5 DEF Regroups
<1> QED
  BY <1>6 DEF h, x, c, e

LEMMA NewTextHasOneList ==
    ASSUME NEW t \in Seq(Pieces) \cup {NoFile}, NEW units \in SUBSET Services
    PROVE  LET new == NewText(t, units)
           IN  /\ new \in Seq(Pieces)
               /\ \E k, m : OneList(new, k, m) /\ Names(new, k, k + m) = units
<1> DEFINE a == FormatWatchUnits(units)
           Good(s) == /\ s \in Seq(Pieces)
                      /\ \E k, m : OneList(s, k, m) /\ Names(s, k, k + m) = units
<1>1. a \in Seq(Pieces)
  BY ListOf
<1>2. \A pre, post \in Seq(Pieces) :
        (\A i \in 1..Len(pre) : pre[i] # Watch) => Good((pre \o a) \o post)
  <2> SUFFICES ASSUME NEW pre \in Seq(Pieces), NEW post \in Seq(Pieces),
                      \A i \in 1..Len(pre) : pre[i] # Watch
               PROVE  Good((pre \o a) \o post)
    OBVIOUS
  <2> DEFINE s == Between(pre, units, post)
             m == Cardinality(units)
             k == Len(pre) + 1
  <2>1. ListAt(s, pre, units, post, k, m)
    BY OneListBetween
  <2>2. s = (pre \o a) \o post
    BY DEF Between
  <2> HIDE DEF s, m, k, a
  <2> QED
    BY <2>1, <2>2 DEF ListAt
<1> HIDE DEF a, Good
<1>3. CASE ~Exists(t)
  <2> DEFINE e == SetToSeq(Excluded)
             post == (<<Exclude>> \o e) \o <<Close>>
  <2>3. e \in Seq(Pieces)
    BY ExcludedSeq
  <2> HIDE DEF e
  <2>4. /\ <<Key>> \in Seq(Pieces) /\ <<Exclude>> \in Seq(Pieces)
        /\ <<Close>> \in Seq(Pieces) /\ Len(<<Key>>) = 1 /\ <<Key>>[1] = Key
    BY DEF Pieces
  <2>5. post \in Seq(Pieces)
    BY <2>3, <2>4
  <2>6. Template(a) = (<<Key>> \o a) \o post
    BY <1>1, TemplateIs DEF e
  <2>7. NewText(t, units) = Template(a)
    BY <1>3 DEF NewText, a
  <2>8. \A i \in 1..Len(<<Key>>) : <<Key>>[i] # Watch
    BY <2>4, PieceKinds
  <2> HIDE DEF post
  <2>9. Good((<<Key>> \o a) \o post)
    BY <1>2, <2>4, <2>5, <2>8
  <2> QED
    BY <2>6, <2>7, <2>9 DEF Good
<1>4. CASE Exists(t) /\ Begins(t) = {}
  <2>1. t \in Seq(Pieces) /\ DOMAIN t = 1..Len(t)
    BY <1>4 DEF Exists
  <2>2. \A i \in 1..Len(t) : t[i] # Watch
    BY <1>4, <2>1 DEF Begins
  <2>3. <<>> \in Seq(Pieces) /\ t \o a \in Seq(Pieces)
    BY <1>1, <2>1
  <2>4. (t \o a) \o <<>> = t \o a
    BY <2>3, ConcatEmptySeq
  <2>5. NewText(t, units) = t \o a
    BY <1>4 DEF NewText, a
  <2>6. Good((t \o a) \o <<>>)
    BY <1>2, <2>1, <2>2, <2>3
  <2> QED
    BY <2>4, <2>5, <2>6 DEF Good
<1>5. CASE Exists(t) /\ Begins(t) # {}
  <2>1. t \in Seq(Pieces)
    BY <1>5 DEF Exists
  <2> DEFINE b == First(t)
             e == EndOfList(t, b)
             pre == SubSeq(t, 1, b - 1)
             post == SubSeq(t, e + 1, Len(t))
  <2>2. /\ b \in 1..Len(t) /\ e \in 1..Len(t)
        /\ \A i \in 1..(b - 1) : t[i] # Watch
    BY <1>5, <2>1, ListEnds
  <2>3. NewText(t, units) = (pre \o a) \o post
    BY <1>5 DEF NewText, a
  <2> HIDE DEF b, e
  <2>4. b - 1 \in 0..Len(t)
    BY <2>2
  <2>5. /\ pre \in Seq(Pieces) /\ Len(pre) = b - 1
        /\ \A i \in 1..(b - 1) : pre[i] = t[i]
    BY <2>1, <2>4, FirstPieces
  <2>6. post \in Seq(Pieces)
    <3>1. /\ e + 1 \in Int /\ Len(t) \in Int
          /\ \A i \in (e + 1)..Len(t) : t[i] \in Pieces
      BY <2>1, <2>2
    <3> QED
      BY <3>1, SubSeqProperties
  <2> HIDE DEF pre, post
  <2>7. \A i \in 1..Len(pre) : pre[i] # Watch
    BY <2>2, <2>5
  <2>8. Good((pre \o a) \o post)
    BY <1>2, <2>5, <2>6, <2>7
  <2> QED
    BY <2>3, <2>8 DEF Good
<1> QED
  BY <1>3, <1>4, <1>5

----------------------------------------------------------------------------
(* What a text may be, and what loading it gives. *)

LEMMA ParseType ==
    ASSUME NEW t \in Seq(Pieces)
    PROVE  Parse(t) \in Readers
<1> DEFINE T == {i \in 0..Len(t) : After(t, i) \in Readers}
<1>1. Len(t) \in Nat /\ \A i \in 1..Len(t) : t[i] \in Pieces
  OBVIOUS
<1>2. 0 \in T
  BY <1>1, PieceByPiece, ReaderTypes DEF Readers
<1>3. ASSUME NEW i \in 1..Len(t), i - 1 \in T PROVE i \in T
  BY <1>1, <1>3, PieceByPiece, ReaderTypes
<1>4. \A i \in 0..Len(t) : i \in T
  <2> HIDE DEF T
  <2> QED
    BY <1>1, <1>2, <1>3, IntervalInduction
<1>5. After(t, Len(t)) \in Readers
  BY <1>1, <1>4
<1> QED
  BY <1>5, PieceByPiece

LEMMA NoFileIsNoText == NoFile \notin Seq(Pieces)
<1>1. Absent \notin Pieces
  BY PieceAssumption DEF Pieces, Remarks, Watch, Exclude, Close, Key, BadKey,
     Absent, RemarkOpen, RemarkClose
<1>2. NoFile[1] = Absent /\ Len(NoFile) = 1
  BY DEF NoFile
<1> SUFFICES ASSUME NoFile \in Seq(Pieces) PROVE FALSE
  OBVIOUS
<1>3. 1 \in 1..Len(NoFile)
  BY <1>2
<1>4. NoFile[1] \in Pieces
  BY <1>3, ElementOfSeq
<1> QED
  BY <1>1, <1>2, <1>4

Config == [watch : SUBSET Patterns, exclude : SUBSET Patterns]

LEMMA ConfigKinds ==
    ASSUME NEW c \in Config
    PROVE  c # Rejected /\ c # Down
<1>1. "watch" \in DOMAIN c
  BY DEF Config
<1>2. DOMAIN Rejected = {"raises"} /\ DOMAIN Down = {"runs"}
  BY DEF Rejected, Down
<1> QED
  BY <1>1, <1>2

LEMMA Loads ==
    ASSUME NEW f \in Seq(Pieces) \cup {NoFile}
    PROVE  /\ ~Exists(f) => Load(f) \in Config /\ Load(f).watch = {}
           /\ Exists(f) /\ Valid(f) =>
                 /\ Load(f) \in Config /\ Load(f).watch = Parse(f).watch
                 /\ Load(f).exclude = Parse(f).exclude
           /\ Exists(f) /\ ~Valid(f) => Load(f) = Rejected
<1>1. ASSUME ~Exists(f) PROVE Load(f) \in Config /\ Load(f).watch = {}
  BY <1>1 DEF Load, Defaults, Config
<1>2. ASSUME Exists(f), Valid(f)
      PROVE  /\ Load(f) \in Config /\ Load(f).watch = Parse(f).watch
             /\ Load(f).exclude = Parse(f).exclude
  <2>1. Parse(f) \in Reading
    BY <1>2, ParseType DEF Exists, Valid, Readers
  <2>2. Load(f) = [watch |-> Parse(f).watch, exclude |-> Parse(f).exclude]
    BY <1>2 DEF Load, ConfigOf
  <2> QED
    BY <2>1, <2>2 DEF Reading, Config
<1>3. ASSUME Exists(f), ~Valid(f) PROVE Load(f) = Rejected
  BY <1>3 DEF Load
<1> QED
  BY <1>1, <1>2, <1>3

----------------------------------------------------------------------------
(* The invariant. *)

UserLists == {Load(t).watch : t \in {t \in UserTexts : Load(t) # Rejected}}

\* The file has no part of a list, or it does not load.
Whole(f, l) ==
    Exists(f) /\ Valid(f) =>
        Parse(f).watch \in {{}} \cup ToSet(l) \cup UserLists

\* A scan that writes has written the beginning of its text.
Writing(f) ==
    LET new == NewText(text, services)
    IN  /\ Exists(f) /\ Len(f) < Len(new)
        /\ f = SubSeq(new, 1, Len(f))

ConfigInv ==
    /\ TypeOK
    /\ scan # "idle" => lists # <<>>
    /\ Whole(file, lists)
    /\ scan = "write" => Writing(file)

LEMMA UserTextsWhole ==
    ASSUME NEW t \in UserTexts
    PROVE  t \in Seq(Pieces) /\ \A l : Whole(t, l)
<1>1. t \in Seq(Pieces)
  BY TextAssumption
<1>2. ASSUME Exists(t), Valid(t) PROVE Parse(t).watch \in UserLists
  <2>1. Load(t) \in Config /\ Load(t).watch = Parse(t).watch
    BY <1>1, <1>2, Loads
  <2>2. Load(t) # Rejected
    BY <2>1, ConfigKinds
  <2> QED
    BY <2>1, <2>2 DEF UserLists
<1> QED
  BY <1>1, <1>2 DEF Whole

LEMMA ServicesFound ==
    ASSUME TypeOK, lists # <<>>
    PROVE  /\ services \in SUBSET Services /\ services # {}
           /\ services \in ToSet(lists)
<1>1. lists \in Seq((SUBSET Services) \ {{}}) /\ Len(lists) \in Nat
  BY DEF TypeOK
<1>2. Len(lists) \in 1..Len(lists) /\ DOMAIN lists = 1..Len(lists)
  BY <1>1, EmptySeq
<1>3. services = lists[Len(lists)]
  BY <1>1 DEF services, Last
<1>4. lists[Len(lists)] \in (SUBSET Services) \ {{}}
  BY <1>1, <1>2, ElementOfSeq
<1>5. lists[Len(lists)] \in ToSet(lists)
  BY <1>2 DEF ToSet
<1> QED
  BY <1>3, <1>4, <1>5

\* Each beginning of the text a scan writes is a text, with no part of a list.
LEMMA BeginningsWhole ==
    ASSUME TypeOK, lists # <<>>
    PROVE  LET new == NewText(text, services)
           IN  /\ new \in Seq(Pieces) /\ Len(new) \in Nat /\ Len(new) > 0
               /\ \A i \in 0..Len(new) :
                     /\ SubSeq(new, 1, i) \in Seq(Pieces)
                     /\ Len(SubSeq(new, 1, i)) = i
                     /\ Exists(SubSeq(new, 1, i))
                     /\ Whole(SubSeq(new, 1, i), lists)
               /\ Valid(new) => Parse(new).watch = services
<1> DEFINE new == NewText(text, services)
<1>1. services \in SUBSET Services /\ services \in ToSet(lists)
  BY ServicesFound
<1>2. text \in Seq(Pieces) \cup {NoFile}
  BY DEF TypeOK
<1>3. /\ new \in Seq(Pieces)
      /\ \E k, m : OneList(new, k, m) /\ Names(new, k, k + m) = services
  BY <1>1, <1>2, NewTextHasOneList
<1> HIDE DEF new
<1>4. PICK k, m : OneList(new, k, m) /\ Names(new, k, k + m) = services
  BY <1>3
<1>5. Len(new) \in Nat /\ Len(new) > 0
  BY <1>3, <1>4 DEF OneList
<1>6. ASSUME NEW i \in 0..Len(new)
      PROVE  /\ SubSeq(new, 1, i) \in Seq(Pieces)
             /\ Len(SubSeq(new, 1, i)) = i
             /\ Exists(SubSeq(new, 1, i))
             /\ Whole(SubSeq(new, 1, i), lists)
  <2>1. SubSeq(new, 1, i) \in Seq(Pieces) /\ Len(SubSeq(new, 1, i)) = i
    BY <1>3, FirstPieces
  <2>2. Exists(SubSeq(new, 1, i))
    BY <2>1, NoFileIsNoText DEF Exists
  <2>3. Valid(SubSeq(new, 1, i)) =>
          Parse(SubSeq(new, 1, i)).watch \in {{}, services}
    BY <1>3, <1>4, AllOrNone
  <2> QED
    BY <1>1, <2>1, <2>2, <2>3 DEF Whole
<1>7. Valid(new) => Parse(new).watch = services
  <2>1. SubSeq(new, 1, Len(new)) = new /\ Len(new) \in 0..Len(new)
    BY <1>3, <1>5, SubSeqFull
  <2>2. \A i \in 0..Len(new) :
          Valid(SubSeq(new, 1, i)) /\ i = Len(new) =>
              Parse(SubSeq(new, 1, i)).watch = services
    BY <1>3, <1>4, AllOrNone
  <2>3. SubSeq(new, 1, Len(new)) = new
    BY <1>3, SubSeqFull
  <2>4. LET i == Len(new)
        IN  Valid(SubSeq(new, 1, i)) => Parse(SubSeq(new, 1, i)).watch = services
    BY <2>1, <2>2
  <2> QED
    BY <2>3, <2>4
<1> QED
  BY <1>3, <1>5, <1>6, <1>7 DEF new

LEMMA EmptyText ==
    /\ <<>> \in Seq(Pieces) /\ Len(<<>>) = 0 /\ Exists(<<>>)
    /\ \A l : Whole(<<>>, l)
<1>1. <<>> \in Seq(Pieces) /\ Len(<<>>) = 0
  OBVIOUS
<1>2. Exists(<<>>)
  BY <1>1, NoFileIsNoText DEF Exists
<1> DEFINE t == <<>>
<1>3. t \in Seq(Pieces) /\ Len(t) = 0
  OBVIOUS
<1> HIDE DEF t
<1>4. Parse(t) = Reader0
  BY <1>3, PieceByPiece
<1>5. \A l : Whole(t, l)
  BY <1>4 DEF Whole, Reader0
<1> QED
  BY <1>1, <1>2, <1>5 DEF t

LEMMA ConfigInit == Init => ConfigInv
<1> SUFFICES ASSUME Init PROVE ConfigInv
  OBVIOUS
<1>1. file \in Seq(Pieces) \cup {NoFile} /\ Whole(file, lists)
  BY UserTextsWhole DEF Init, Whole, Exists
<1>2. <<>> \in Seq((SUBSET Services) \ {{}}) /\ Len(<<>>) = 0
  OBVIOUS
<1>3. TypeOK
  BY <1>1, <1>2, ConfigBounds DEF Init, TypeOK
<1> QED
  BY <1>1, <1>3 DEF Init, ConfigInv

LEMMA ConfigNext == ConfigInv /\ [Next]_vars => ConfigInv'
<1> SUFFICES ASSUME ConfigInv, [Next]_vars PROVE ConfigInv'
  OBVIOUS
<1>1. TypeOK /\ Whole(file, lists)
  BY DEF ConfigInv
<1>2. ASSUME NEW found \in SUBSET Services, StartScan(found) PROVE ConfigInv'
  <2> DEFINE kept == {u \in found :
                        UnitIsWatched([watch |-> {}, exclude |-> Excludes(file)],
                                      u)}
  <2>1. /\ kept # {} /\ lists' = Append(lists, kept)
        /\ scan' = "read" /\ Len(lists) < MaxScans
        /\ UNCHANGED <<file, text, daemon, edits>>
    BY <1>2 DEF StartScan, NoneFound
  <2>2. kept \in (SUBSET Services) \ {{}}
    BY <2>1
  <2> HIDE DEF kept
  <2>3. lists \in Seq((SUBSET Services) \ {{}})
    BY <1>1 DEF TypeOK
  <2>4. /\ lists' \in Seq((SUBSET Services) \ {{}}) /\ lists' # <<>>
        /\ Len(lists') = Len(lists) + 1
        /\ \A i \in 1..Len(lists) : lists'[i] = lists[i]
    BY <2>1, <2>2, <2>3, AppendProperties
  <2>5. TypeOK'
    <3>1. Len(lists) \in Nat /\ Len(lists') <= MaxScans
      BY <2>1, <2>3, <2>4, ConfigBounds
    <3> QED
      BY <1>1, <2>1, <2>4, <3>1 DEF TypeOK
  <2>6. ToSet(lists) \subseteq ToSet(lists')
    <3>1. /\ DOMAIN lists = 1..Len(lists) /\ Len(lists) \in Nat
          /\ DOMAIN lists' = 1..Len(lists')
      BY <2>3, <2>4
    <3>2. \A i \in 1..Len(lists) : i \in 1..Len(lists')
      BY <2>4, <3>1
    <3> QED
      BY <2>4, <3>1, <3>2 DEF ToSet
  <2>7. Whole(file, lists')
    BY <1>1, <2>6 DEF Whole
  <2>8. Whole(file, lists)' 
    BY <2>1, <2>7 DEF Whole, Exists, Valid
  <2> QED
    BY <2>1, <2>4, <2>5, <2>8 DEF ConfigInv
<1>3. CASE ReadText
  <2>1. /\ text' = file /\ scan' = "open"
        /\ UNCHANGED <<file, daemon, lists, edits>> /\ lists # <<>>
    BY <1>3 DEF ReadText, ConfigInv
  <2>2. TypeOK'
    BY <1>1, <2>1 DEF TypeOK
  <2> QED
    BY <1>1, <2>1, <2>2 DEF ConfigInv, Whole
<1>4. CASE Truncate
  <2>1. /\ file' = <<>> /\ scan' = "write"
        /\ UNCHANGED <<text, daemon, lists, edits>> /\ lists # <<>>
    BY <1>4 DEF Truncate, ConfigInv
  <2>2. TypeOK'
    BY <1>1, <2>1, EmptyText DEF TypeOK
  <2> DEFINE new == NewText(text, services)
  <2>3. /\ Len(new) \in Nat /\ Len(new) > 0
        /\ \A i \in 0..Len(new) : Len(SubSeq(new, 1, i)) = i
    BY <1>1, <2>1, BeginningsWhole
  <2>4. new' = new
    BY <2>1 DEF services, NewText
  <2>5. SubSeq(new, 1, 0) = <<>>
    <3> HIDE DEF new
    <3> QED
      BY SubSeqEmpty
  <2>6. Writing(file)'
    <3> HIDE DEF new
    <3>1. /\ Exists(file') /\ Len(file') < Len(new')
          /\ file' = SubSeq(new', 1, Len(file'))
      BY <2>1, <2>3, <2>4, <2>5, EmptyText
    <3> QED
      BY <3>1 DEF Writing, new, Exists
  <2>7. Whole(file', lists')
    BY <2>1, EmptyText
  <2>8. Whole(file, lists)'
    BY <2>7 DEF Whole
  <2> QED
    BY <2>1, <2>2, <2>6, <2>8 DEF ConfigInv
<1>5. CASE WriteMore
  <2> DEFINE new == NewText(text, services)
             i == Len(file) + 1
  <2>1. /\ file' = SubSeq(new, 1, i)
        /\ scan' = IF file' = new THEN "idle" ELSE "write"
        /\ UNCHANGED <<text, daemon, lists, edits>> /\ lists # <<>>
    BY <1>5 DEF WriteMore, ConfigInv
  <2>2. Exists(file) /\ Len(file) < Len(new)
    BY <1>5 DEF WriteMore, ConfigInv, Writing
  <2>3. Len(file) \in Nat
    BY <1>1, <2>2 DEF TypeOK, Exists
  <2>4. /\ new \in Seq(Pieces) /\ Len(new) \in Nat
        /\ \A j \in 0..Len(new) :
              /\ SubSeq(new, 1, j) \in Seq(Pieces)
              /\ Len(SubSeq(new, 1, j)) = j
              /\ Exists(SubSeq(new, 1, j))
              /\ Whole(SubSeq(new, 1, j), lists)
    BY <1>1, <2>1, BeginningsWhole
  <2>5. new' = new
    BY <2>1 DEF services, NewText
  <2> HIDE DEF new
  <2>6. i \in 0..Len(new)
    BY <2>2, <2>3, <2>4
  <2>7. /\ file' \in Seq(Pieces) /\ Len(file') = i /\ Exists(file')
        /\ Whole(file', lists)
    BY <2>1, <2>4, <2>6
  <2>8. TypeOK'
    BY <1>1, <2>1, <2>7 DEF TypeOK
  <2>9. scan' = "write" => Writing(file)'
    <3> SUFFICES ASSUME scan' = "write" PROVE Writing(file)'
      OBVIOUS
    <3>1. file' # new
      BY <2>1
    <3>2. i # Len(new)
      BY <2>1, <2>4, <3>1, SubSeqFull
    <3>3. /\ Exists(file') /\ Len(file') < Len(new')
          /\ file' = SubSeq(new', 1, Len(file'))
      BY <2>1, <2>4, <2>5, <2>6, <2>7, <3>2
    <3> QED
      BY <3>3 DEF Writing, new, Exists
  <2>10. Whole(file, lists)'
    BY <2>1, <2>7 DEF Whole
  <2> QED
    BY <2>1, <2>8, <2>9, <2>10 DEF ConfigInv
<1>6. CASE ScanDies
  <2>1. scan' = "idle" /\ UNCHANGED <<file, text, daemon, lists, edits>>
    BY <1>6 DEF ScanDies
  <2>2. TypeOK'
    BY <1>1, <2>1 DEF TypeOK
  <2> QED
    BY <1>1, <2>1, <2>2 DEF ConfigInv, Whole
<1>7. CASE Edit
  <2>1. /\ file' \in UserTexts /\ edits' = edits + 1 /\ edits < MaxEdits
        /\ scan # "write" /\ UNCHANGED <<scan, text, daemon, lists>>
    BY <1>7 DEF Edit
  <2>2. file' \in Seq(Pieces) /\ Whole(file', lists')
    BY <2>1, UserTextsWhole
  <2>3. TypeOK'
    <3>1. edits' \in 0..MaxEdits
      BY <1>1, <2>1, ConfigBounds DEF TypeOK
    <3> QED
      BY <1>1, <2>1, <2>2, <3>1 DEF TypeOK
  <2>4. Whole(file, lists)'
    BY <2>2 DEF Whole
  <2> QED
    BY <2>1, <2>3, <2>4 DEF ConfigInv
<1>8. CASE StartDaemon \/ StopDaemon
  <2>1. /\ UNCHANGED <<file, scan, text, lists, edits>>
        /\ daemon' \in {Load(file), Down}
    BY <1>8 DEF StartDaemon, StopDaemon
  <2>2. Load(file) \in {Rejected} \cup Config
    <3>1. file \in Seq(Pieces) \cup {NoFile}
      BY <1>1 DEF TypeOK
    <3> QED
      BY <3>1, Loads
  <2>3. TypeOK'
    BY <1>1, <2>1, <2>2 DEF TypeOK, Config
  <2>4. Writing(file)' <=> Writing(file)
    BY <2>1 DEF Writing, services, NewText
  <2> QED
    BY <1>1, <2>1, <2>3, <2>4 DEF ConfigInv, Whole
<1>9. CASE UNCHANGED vars
  BY <1>9 DEF vars, ConfigInv, TypeOK, Whole, Writing, services
<1> QED
  BY <1>2, <1>3, <1>4, <1>5, <1>6, <1>7, <1>8, <1>9 DEF Next, ScanStep

LEMMA ConfigInvariant == Spec => []ConfigInv
<1>1. ConfigInv /\ [Next]_vars => ConfigInv'
  BY ConfigNext
<1> QED
  BY ConfigInit, <1>1, PTL DEF Spec

----------------------------------------------------------------------------
(* What is around a list stays. *)

\* A reader that gets through the text gets through every beginning of it.
LEMMA ReadsOn ==
    ASSUME NEW t \in Seq(Pieces), Parse(t) # Rejected
    PROVE  \A i \in 0..Len(t) : After(t, i) \in Reading
<1> SUFFICES ASSUME NEW i \in 0..Len(t), After(t, i) = Rejected PROVE FALSE
  <2>1. \A i \in 0..Len(t) : After(t, i) \in Readers
    <3> TAKE i \in 0..Len(t)
    <3> DEFINE s == SubSeq(t, 1, i)
    <3>1. s \in Seq(Pieces)
      BY FirstPieces
    <3> HIDE DEF s
    <3>2. Parse(s) \in Readers
      BY <3>1, ParseType
    <3> QED
      BY <3>2 DEF After, s
  <2> QED
    BY <2>1 DEF Readers
<1> DEFINE n == Len(t) - i
           T == {j \in 0..n : After(t, i + j) = Rejected}
<1>1. n \in Nat /\ Len(t) \in Nat /\ i + 0 = i /\ i + n = Len(t)
  OBVIOUS
<1>2. 0 \in T
  BY <1>1
<1>3. ASSUME NEW j \in 1..n, j - 1 \in T PROVE j \in T
  <2>1. i + j \in 1..Len(t) /\ (i + j) - 1 = i + (j - 1) /\ j \in 0..n
    BY <1>1
  <2>2. After(t, i + (j - 1)) = Rejected
    BY <1>3
  <2> HIDE DEF n
  <2>3. After(t, i + j) = ReadPiece(Rejected, t[i + j])
    BY <2>1, <2>2, PieceByPiece
  <2>4. After(t, i + j) = Rejected
    BY <2>3 DEF ReadPiece
  <2> QED
    BY <2>1, <2>4
<1>4. \A j \in 0..n : j \in T
  <2> HIDE DEF T, n
  <2> QED
    BY <1>1, <1>2, <1>3, IntervalInduction
<1>5. After(t, Len(t)) = Rejected
  <2>1. n \in T
    BY <1>1, <1>4
  <2> QED
    BY <1>1, <2>1
<1> QED
  BY <1>5, PieceByPiece

\* The reader is in the list o, or at its end, after it was r.
Opened(r, q, o) ==
    /\ q \in Reading /\ q.at = o /\ q.seen = r.seen \cup {o}
    /\ o = Watch => q.exclude = r.exclude
Closed(r, q, o) ==
    /\ q \in Reading /\ q.at = "top" /\ q.seen = r.seen \cup {o}
    /\ o = Watch => q.exclude = r.exclude

LEMMA PiecesOfAList ==
    ASSUME NEW r \in Reading, NEW q, NEW o \in {Watch, Exclude}, NEW p \in Pieces
    PROVE  /\ r.at = "top" /\ o \notin r.seen => Opened(r, ReadPiece(r, o), o)
           /\ Opened(r, q, o) /\ p \in Patterns \cup Remarks =>
                 Opened(r, ReadPiece(q, p), o)
           /\ Opened(r, q, o) /\ p \notin Patterns \cup Remarks \cup {Close} =>
                 ReadPiece(q, p) = Rejected
           /\ Opened(r, q, o) => Closed(r, ReadPiece(q, Close), o)
<1>1. /\ Watch # "top" /\ Exclude # "top" /\ Watch # Exclude
      /\ Close \notin Patterns \cup Remarks \cup {Watch, Exclude, Key}
      /\ o \notin Patterns \cup Remarks \cup {Close, Key} /\ o # "top"
  BY PieceAssumption DEF Remarks, Watch, Exclude, Close, Key, RemarkOpen,
     RemarkClose
<1>2. ASSUME r.at = "top", o \notin r.seen PROVE Opened(r, ReadPiece(r, o), o)
  <2>1. r # Rejected
    BY RejectedReads
  <2>2. ReadPiece(r, o) = [r EXCEPT !.seen = @ \cup {o}, !.at = o]
    BY <1>1, <1>2, <2>1 DEF ReadPiece
  <2> DEFINE q1 == ReadPiece(r, o)
  <2>3. r.seen \cup {o} \in SUBSET {Watch, Exclude, Key}
    BY DEF Reading
  <2>4. /\ q1 \in Reading /\ q1.at = o /\ q1.seen = r.seen \cup {o}
        /\ q1.exclude = r.exclude
    BY <2>2, <2>3 DEF Reading
  <2> QED
    BY <2>4 DEF Opened
<1>3. ASSUME Opened(r, q, o), p \in Patterns \cup Remarks
      PROVE  Opened(r, ReadPiece(q, p), o)
  <2>1. q # Rejected /\ q \in Reading /\ q.at = o
    BY <1>3, RejectedReads DEF Opened
  <2>2. CASE p \in Remarks
    BY <1>3, <2>2 DEF ReadPiece
  <2>3. CASE p \in Patterns /\ o = Watch
    <3>1. p \notin Remarks /\ p \notin {Watch, Exclude, Key, Close}
      BY <2>3, PieceKinds
    <3>2. ReadPiece(q, p) = [q EXCEPT !.watch = @ \cup {p}]
      BY <1>1, <2>1, <2>3, <3>1 DEF ReadPiece
    <3> QED
      BY <1>1, <1>3, <2>3, <3>2 DEF Opened, Reading
  <2>4. CASE p \in Patterns /\ o = Exclude
    <3>1. p \notin Remarks /\ p \notin {Watch, Exclude, Key, Close}
      BY <2>4, PieceKinds
    <3>2. ReadPiece(q, p) = [q EXCEPT !.exclude = @ \cup {p}]
      BY <1>1, <2>1, <2>4, <3>1 DEF ReadPiece
    <3> QED
      BY <1>1, <1>3, <2>4, <3>2 DEF Opened, Reading
  <2> QED
    BY <1>3, <2>2, <2>3, <2>4
<1>4. ASSUME Opened(r, q, o), p \notin Patterns \cup Remarks \cup {Close}
      PROVE  ReadPiece(q, p) = Rejected
  <2>1. q # Rejected /\ q.at = o
    BY <1>4, RejectedReads DEF Opened
  <2> QED
    BY <1>1, <1>4, <2>1 DEF ReadPiece
<1>5. ASSUME Opened(r, q, o) PROVE Closed(r, ReadPiece(q, Close), o)
  <2>1. q # Rejected /\ q \in Reading /\ q.at = o
    BY <1>5, RejectedReads DEF Opened
  <2>2. ReadPiece(q, Close) = [q EXCEPT !.at = "top"]
    BY <1>1, <2>1 DEF ReadPiece
  <2> QED
    BY <1>1, <1>5, <2>2 DEF Opened, Closed, Reading
<1> QED
  BY <1>2, <1>3, <1>4, <1>5

\* A list of names and remarks is read to its end, and so is one that the
\* reader gets through.
LEMMA ReadingAList ==
    ASSUME NEW t \in Seq(Pieces), NEW o \in {Watch, Exclude},
           NEW b \in 1..Len(t), NEW e \in 1..Len(t), b < e,
           t[b] = o, t[e] = Close, NEW r \in Reading, r = After(t, b - 1),
           r.at = "top", o \notin r.seen,
           \A i \in (b + 1)..(e - 1) :
              \/ t[i] \in Patterns \cup Remarks
              \/ After(t, i) # Rejected /\ t[i] # Close
    PROVE  Closed(r, After(t, e), o)
<1> DEFINE n == e - 1 - b
           T == {j \in 0..n : Opened(r, After(t, b + j), o)}
<1>1. n \in Nat /\ b + 0 = b /\ b + n = e - 1 /\ e - 1 \in 1..Len(t)
      /\ Len(t) \in Nat /\ \A i \in 1..Len(t) : t[i] \in Pieces
  OBVIOUS
<1>2. 0 \in T
  <2>1. After(t, b) = ReadPiece(r, o)
    BY PieceByPiece
  <2>2. Opened(r, ReadPiece(r, o), o)
    BY PiecesOfAList, <1>1
  <2> QED
    BY <1>1, <2>1, <2>2
<1>3. ASSUME NEW j \in 1..n, j - 1 \in T PROVE j \in T
  <2> DEFINE q == After(t, b + (j - 1))
             p == t[b + j]
  <2>1. /\ b + j \in 1..Len(t) /\ (b + j) - 1 = b + (j - 1) /\ j \in 0..n
        /\ b + j \in (b + 1)..(e - 1)
    BY <1>1
  <2>2. Opened(r, q, o) /\ p \in Pieces
    BY <1>1, <1>3, <2>1
  <2>3. After(t, b + j) = ReadPiece(q, p)
    BY <2>1, PieceByPiece
  <2>4. p \in Patterns \cup Remarks \/ (After(t, b + j) # Rejected /\ p # Close)
    <3> DEFINE i == b + j
    <3>1. i \in (b + 1)..(e - 1)
      BY <2>1
    <3> HIDE DEF i
    <3>2. t[i] \in Patterns \cup Remarks \/ (After(t, i) # Rejected /\ t[i] # Close)
      BY <3>1
    <3> QED
      BY <3>2 DEF i
  <2> HIDE DEF p, q, n
  <2>5. Opened(r, After(t, b + j), o)
    BY <2>2, <2>3, <2>4, PiecesOfAList
  <2> QED
    BY <2>1, <2>5
<1>4. \A j \in 0..n : j \in T
  <2> HIDE DEF T, n
  <2> QED
    BY <1>1, <1>2, <1>3, IntervalInduction
<1>5. Opened(r, After(t, e - 1), o)
  <2>1. n \in 0..n
    BY <1>1
  <2>2. n \in T
    <3> HIDE DEF T, n
    <3> QED
      BY <1>4, <2>1
  <2> QED
    BY <1>1, <2>2
<1>6. After(t, e) = ReadPiece(After(t, e - 1), Close)
  BY PieceByPiece
<1>7. Close \in Pieces
  BY DEF Pieces
<1> QED
  BY <1>5, <1>6, <1>7, PiecesOfAList

\* Two readers that only differ in the list of watched units, which is read.
Alike(r, q) ==
    \/ r = Rejected
    \/ /\ r \in Reading /\ q \in Reading
       /\ r.at = q.at /\ r.at # Watch
       /\ r.seen = q.seen /\ Watch \in r.seen
       /\ r.exclude = q.exclude

LEMMA StayAlike ==
    ASSUME NEW r, NEW q, Alike(r, q), NEW p \in Pieces
    PROVE  Alike(ReadPiece(r, p), ReadPiece(q, p))
<1> DEFINE x == ReadPiece(r, p)
           y == ReadPiece(q, p)
<1>1. CASE r = Rejected
  BY <1>1 DEF ReadPiece, Alike
<1>2. CASE r # Rejected
  <2>1. /\ r \in Reading /\ q \in Reading /\ q # Rejected
        /\ r.at = q.at /\ r.at # Watch /\ r.seen = q.seen /\ Watch \in r.seen
        /\ r.exclude = q.exclude /\ r.at \in {"top", Exclude}
    BY <1>2, RejectedReads DEF Alike, Reading
  <2>2. Exclude \notin {"top", Watch, Key} /\ Watch # "top" /\ Key # Watch
    BY PieceKinds
  <2>3. CASE p \in Remarks
    BY <1>2, <2>1, <2>3 DEF Alike, ReadPiece
  <2>4. CASE p \notin Remarks /\ r.at = "top" /\ p \in {Watch, Exclude, Key} \ r.seen
    <3>1. /\ x = [r EXCEPT !.seen = @ \cup {p},
                           !.at = IF p = Key THEN "top" ELSE p]
          /\ y = [q EXCEPT !.seen = @ \cup {p},
                           !.at = IF p = Key THEN "top" ELSE p]
      BY <1>2, <2>1, <2>2, <2>4 DEF ReadPiece
    <3>2. p # Watch
      BY <2>1, <2>4
    <3> HIDE DEF x, y
    <3>3. /\ x \in Reading /\ y \in Reading /\ x.seen = y.seen /\ x.at = y.at
          /\ x.exclude = y.exclude /\ Watch \in x.seen
      BY <2>1, <2>4, <3>1 DEF Reading
    <3>4. x.at # Watch
      BY <2>1, <2>2, <2>4, <3>1, <3>2 DEF Reading
    <3>5. Alike(x, y)
      BY <3>3, <3>4 DEF Alike
    <3> QED
      BY <3>5 DEF x, y
  <2>5. CASE r.at = Exclude /\ p \in Patterns
    <3>1. p \notin Remarks /\ p # Close
      BY <2>5, PieceKinds
    <3>2. /\ x = [r EXCEPT !.exclude = @ \cup {p}]
          /\ y = [q EXCEPT !.exclude = @ \cup {p}]
      BY <1>2, <2>1, <2>2, <2>5, <3>1 DEF ReadPiece
    <3> HIDE DEF x, y
    <3>3. Alike(x, y)
      BY <2>1, <2>5, <3>2 DEF Reading, Alike
    <3> QED
      BY <3>3 DEF x, y
  <2>6. CASE p \notin Remarks /\ r.at = Exclude /\ p = Close
    <3>1. p \notin Patterns
      BY <2>6, PieceKinds
    <3>2. x = [r EXCEPT !.at = "top"] /\ y = [q EXCEPT !.at = "top"]
      BY <1>2, <2>1, <2>2, <2>6, <3>1 DEF ReadPiece
    <3> HIDE DEF x, y
    <3>3. Alike(x, y)
      BY <2>1, <2>2, <3>2 DEF Reading, Alike
    <3> QED
      BY <3>3 DEF x, y
  <2>7. CASE /\ p \notin Remarks
             /\ ~(r.at = "top" /\ p \in {Watch, Exclude, Key} \ r.seen)
             /\ ~(r.at = Exclude /\ p \in Patterns)
             /\ ~(r.at = Exclude /\ p = Close)
    <3>1. x = Rejected
      BY <1>2, <2>1, <2>2, <2>7 DEF ReadPiece
    <3> QED
      BY <3>1 DEF Alike
  <2> QED
    BY <2>1, <2>3, <2>4, <2>5, <2>6, <2>7
<1> QED
  BY <1>1, <1>2

\* Two texts that end in the same pieces.
LEMMA SameEnd ==
    ASSUME NEW t \in Seq(Pieces), NEW s \in Seq(Pieces), NEW n \in Nat,
           NEW a \in Nat, NEW c \in Nat, Len(t) = a + n, Len(s) = c + n,
           \A j \in 1..n : s[c + j] = t[a + j],
           Alike(After(t, a), After(s, c))
    PROVE  Alike(Parse(t), Parse(s))
<1> DEFINE T == {j \in 0..n : Alike(After(t, a + j), After(s, c + j))}
<1>1. 0 \in T /\ a + 0 = a /\ c + 0 = c
  OBVIOUS
<1>2. ASSUME NEW j \in 1..n, j - 1 \in T PROVE j \in T
  <2>1. /\ a + j \in 1..Len(t) /\ (a + j) - 1 = a + (j - 1) /\ j \in 0..n
        /\ c + j \in 1..Len(s) /\ (c + j) - 1 = c + (j - 1)
    OBVIOUS
  <2>2. /\ After(t, a + j) = ReadPiece(After(t, a + (j - 1)), t[a + j])
        /\ After(s, c + j) = ReadPiece(After(s, c + (j - 1)), t[a + j])
    BY <2>1, PieceByPiece
  <2>3. Alike(After(t, a + (j - 1)), After(s, c + (j - 1)))
    BY <1>2
  <2>4. t[a + j] \in Pieces
    BY <2>1, ElementOfSeq
  <2>5. Alike(After(t, a + j), After(s, c + j))
    BY <2>2, <2>3, <2>4, StayAlike
  <2> QED
    BY <2>1, <2>5
<1>3. \A j \in 0..n : j \in T
  <2> HIDE DEF T
  <2> QED
    BY <1>1, <1>2, IntervalInduction
<1>4. Alike(After(t, a + n), After(s, c + n))
  BY <1>3
<1> QED
  BY <1>4, PieceByPiece

LEMMA EndIs ==
    ASSUME NEW t \in Seq(Pieces), NEW b \in 1..Len(t), NEW e \in b..Len(t),
           Depth(t, b, e) = 0, \A i \in b..(e - 1) : Depth(t, b, i) # 0
    PROVE  EndOfList(t, b) = e
<1> DEFINE ends == {i \in b..Len(t) : Depth(t, b, i) = 0}
<1>1. e \in ends /\ ends \in SUBSET Int
  OBVIOUS
<1>2. \A i \in ends : e <= i
  <2> SUFFICES ASSUME NEW i \in b..Len(t), Depth(t, b, i) = 0, ~(e <= i)
               PROVE  FALSE
    OBVIOUS
  <2>1. i \in b..(e - 1)
    OBVIOUS
  <2> QED
    BY <2>1
<1>3. EndOfList(t, b) = CHOOSE i \in ends : \A j \in ends : i <= j
  <2>1. ends # {}
    BY <1>1
  <2> QED
    BY <2>1 DEF EndOfList
<1> HIDE DEF ends
<1> DEFINE c == CHOOSE i \in ends : \A j \in ends : i <= j
<1>4. c \in ends /\ \A j \in ends : c <= j
  BY <1>1, <1>2
<1>5. c \in Int /\ e \in Int /\ c <= e /\ e <= c
  BY <1>1, <1>2, <1>4
<1> HIDE DEF c
<1>6. c = e
  BY <1>5
<1> QED
  BY <1>3, <1>6 DEF c

\* The brackets of a list of names: one, until its end.
LEMMA DepthOfList ==
    ASSUME NEW t \in Seq(Pieces), NEW k, NEW m, OneList(t, k, m)
    PROVE  /\ \A i \in k..(k + m) : Depth(t, k, i) = 1
           /\ Depth(t, k, k + m + 1) = 0
<1> DEFINE O == {Watch, Exclude, RemarkOpen}
           C == {Close, RemarkClose}
<1>1. /\ \A p \in Patterns : p \notin O /\ p \notin C
      /\ Watch \in O /\ Watch \notin C /\ Close \in C /\ Close \notin O
  BY PieceAssumption DEF Remarks, Watch, Exclude, Close, Key, RemarkOpen,
     RemarkClose
<1>2. /\ k \in Nat /\ m \in Nat /\ t[k] = Watch /\ t[k + m + 1] = Close
      /\ \A i \in (k + 1)..(k + m) : t[i] \in Patterns
  BY DEF OneList
<1> HIDE DEF O, C
<1>3. ASSUME NEW i \in k..(k + m + 1) PROVE {j \in k..i : t[j] \in O} = {k}
  <2>1. ASSUME NEW j \in k..i PROVE t[j] \in O <=> j = k
    <3>1. j = k \/ j \in (k + 1)..(k + m) \/ j = k + m + 1
      BY <1>2
    <3>2. k + m + 1 # k
      BY <1>2
    <3> QED
      BY <1>1, <1>2, <3>1, <3>2
  <2>2. k \in k..i
    BY <1>2
  <2> QED
    BY <2>1, <2>2
<1>4. ASSUME NEW i \in k..(k + m + 1)
      PROVE  {j \in k..i : t[j] \in C} = IF i = k + m + 1 THEN {i} ELSE {}
  <2>1. ASSUME NEW j \in k..i PROVE t[j] \in C <=> j = k + m + 1
    <3>1. j = k \/ j \in (k + 1)..(k + m) \/ j = k + m + 1
      BY <1>2
    <3>2. k + m + 1 # k
      BY <1>2
    <3> QED
      BY <1>1, <1>2, <3>1, <3>2
  <2>2. i \in k..i /\ (k + m + 1 \in k..i <=> i = k + m + 1)
    BY <1>2
  <2> QED
    BY <2>1, <2>2
<1>5. Cardinality({}) = 0 /\ \A x : Cardinality({x}) = 1
  BY FS_EmptySet, FS_Singleton
<1>6. \A i : Depth(t, k, i) = Cardinality({j \in k..i : t[j] \in O})
                                - Cardinality({j \in k..i : t[j] \in C})
  BY DEF Depth, O, C
<1>7. ASSUME NEW i \in k..(k + m) PROVE Depth(t, k, i) = 1
  <2>1. i \in k..(k + m + 1) /\ i # k + m + 1
    BY <1>2
  <2>2. Depth(t, k, i) = Cardinality({k}) - Cardinality({})
    BY <1>3, <1>4, <1>6, <2>1
  <2> DEFINE a == Cardinality({k})
             c == Cardinality({})
  <2>3. a = 1 /\ c = 0 /\ Depth(t, k, i) = a - c
    BY <1>5, <2>2
  <2> HIDE DEF a, c
  <2> QED
    BY <2>3
<1>8. Depth(t, k, k + m + 1) = 0
  <2> DEFINE i == k + m + 1
  <2>1. i \in k..(k + m + 1)
    BY <1>2
  <2>2. Depth(t, k, i) = Cardinality({k}) - Cardinality({i})
    BY <1>3, <1>4, <1>6, <2>1
  <2> HIDE DEF i
  <2> DEFINE a == Cardinality({k})
             c == Cardinality({i})
  <2>3. a = 1 /\ c = 1 /\ Depth(t, k, i) = a - c
    BY <1>5, <2>2
  <2> HIDE DEF a, c
  <2>4. Depth(t, k, i) = 0
    BY <2>3
  <2> QED
    BY <2>4 DEF i
<1> QED
  BY <1>7, <1>8

\* The next scan finds the list that the last one has written.
LEMMA ListFound ==
    ASSUME NEW t, NEW pre \in Seq(Pieces), NEW post \in Seq(Pieces), NEW units,
           NEW m, NEW k, k = Len(pre) + 1, ListAt(t, pre, units, post, k, m)
    PROVE  /\ After(t, Len(pre)) = Parse(pre)
           /\ Around(t) = pre \o post
<1> DEFINE e == k + m + 1
<1>1. /\ t \in Seq(Pieces) /\ m \in Nat /\ OneList(t, k, m)
      /\ Len(t) = k + m + 1 + Len(post)
      /\ \A i \in 1..(k - 1) : t[i] = pre[i]
      /\ \A j \in 1..Len(post) : t[k + m + 1 + j] = post[j]
  BY DEF ListAt
<1>2. /\ Len(pre) \in Nat /\ Len(post) \in Nat /\ k \in Nat /\ k - 1 = Len(pre)
      /\ DOMAIN t = 1..Len(t) /\ e \in Nat /\ Len(t) \in Nat
  BY <1>1
<1>3. /\ k \in 1..Len(t) /\ t[k] = Watch /\ k <= e /\ e <= Len(t)
      /\ \A i \in 1..(k - 1) : t[i] # Watch
  BY <1>1, <1>2 DEF OneList
<1>4. Begins(t) # {} /\ First(t) = k
  <2>1. k \in Begins(t) /\ Begins(t) \in SUBSET Nat
    BY <1>2, <1>3 DEF Begins
  <2>2. \A i \in Begins(t) : k <= i
    <3> SUFFICES ASSUME NEW i \in 1..Len(t), t[i] = Watch, ~(k <= i)
                 PROVE  FALSE
      BY <1>2 DEF Begins
    <3>1. i \in 1..(k - 1)
      BY <1>2
    <3> QED
      BY <1>3, <3>1
  <2> DEFINE c == CHOOSE i \in Begins(t) : \A j \in Begins(t) : i <= j
  <2>3. c \in Begins(t) /\ \A j \in Begins(t) : c <= j
    BY <2>1, <2>2
  <2>4. First(t) = c
    BY DEF First
  <2> HIDE DEF c
  <2>5. c = k
    BY <1>2, <2>1, <2>2, <2>3
  <2> QED
    BY <2>1, <2>4, <2>5
<1>5. EndOfList(t, k) = e
  <2>1. /\ \A i \in k..(k + m) : Depth(t, k, i) = 1
        /\ Depth(t, k, k + m + 1) = 0
    <3>1. t \in Seq(Pieces) /\ OneList(t, k, m)
      BY <1>1
    <3> HIDE DEF e
    <3> QED
      BY <3>1, DepthOfList
  <2>2. e \in k..Len(t) /\ e - 1 = k + m
    BY <1>1, <1>2, <1>3
  <2>3. \A i \in k..(e - 1) : Depth(t, k, i) # 0
    BY <2>1, <2>2
  <2>4. Depth(t, k, e) = 0
    BY <2>1
  <2>5. t \in Seq(Pieces) /\ k \in 1..Len(t)
    BY <1>1, <1>3
  <2> HIDE DEF e
  <2> QED
    BY <2>2, <2>3, <2>4, <2>5, EndIs
<1>6. SubSeq(t, 1, k - 1) = pre
  <2>1. k - 1 \in 0..Len(t)
    BY <1>2, <1>3
  <2> DEFINE s == SubSeq(t, 1, k - 1)
  <2>2. /\ s \in Seq(Pieces) /\ Len(s) = k - 1
        /\ \A i \in 1..(k - 1) : s[i] = t[i]
    BY <1>1, <2>1, FirstPieces
  <2> HIDE DEF s
  <2>3. Len(s) = Len(pre) /\ \A i \in 1..Len(s) : s[i] = pre[i]
    BY <1>1, <1>2, <2>2
  <2>4. s = pre
    BY <2>2, <2>3, SeqEqual
  <2> QED
    BY <2>4 DEF s
<1>7. SubSeq(t, e + 1, Len(t)) = post
  <2> DEFINE s == SubSeq(t, e + 1, Len(t))
             l == Len(t)
  <2>1. /\ l \in Int /\ e + 1 \in Int /\ \A i \in (e + 1)..l : t[i] \in Pieces
    BY <1>1, <1>2
  <2>2. l = e + Len(post)
    BY <1>1, <1>2
  <2> HIDE DEF e, l
  <2>3. /\ s \in Seq(Pieces)
        /\ Len(s) = IF e + 1 <= l THEN l - (e + 1) + 1 ELSE 0
        /\ \A i \in 1..(l - (e + 1) + 1) : s[i] = t[(e + 1) + i - 1]
    BY <2>1, SubSeqProperties DEF l
  <2> HIDE DEF s
  <2>4. Len(s) = Len(post)
    BY <1>2, <2>2, <2>3
  <2>5. ASSUME NEW i \in 1..Len(post) PROVE s[i] = post[i]
    <3>1. i \in 1..(l - (e + 1) + 1) /\ (e + 1) + i - 1 = e + i
      BY <1>2, <2>2
    <3>2. s[i] = t[e + i]
      BY <2>3, <3>1
    <3> QED
      BY <1>1, <3>2 DEF e
  <2>6. s = post
    BY <2>3, <2>4, <2>5, SeqEqual
  <2> QED
    BY <2>6 DEF s, l
<1>8. Around(t) = SubSeq(t, 1, k - 1) \o SubSeq(t, e + 1, Len(t))
  <2> HIDE DEF e
  <2> QED
    BY <1>4, <1>5 DEF Around
<1> HIDE DEF e
<1>9. After(t, Len(pre)) = Parse(pre)
  BY <1>2, <1>6 DEF After
<1> QED
  BY <1>6, <1>7, <1>8, <1>9

\* A list written after a text that is read to its top level is read.
LEMMA ListIsRead ==
    ASSUME NEW t, NEW pre \in Seq(Pieces), NEW post \in Seq(Pieces), NEW units,
           NEW m, NEW k, k = Len(pre) + 1, ListAt(t, pre, units, post, k, m),
           Parse(pre) \in Reading, Parse(pre).at = "top",
           Watch \notin Parse(pre).seen
    PROVE  Closed(Parse(pre), After(t, k + m + 1), Watch)
<1>1. /\ t \in Seq(Pieces) /\ m \in Nat /\ k \in 1..Len(t)
      /\ k + m + 1 \in 1..Len(t) /\ k < k + m + 1
      /\ t[k] = Watch /\ t[k + m + 1] = Close
      /\ \A i \in (k + 1)..(k + m) : t[i] \in Patterns
  BY DEF ListAt, OneList
<1>2. After(t, k - 1) = Parse(pre)
  <2>1. After(t, Len(pre)) = Parse(pre)
    BY ListFound
  <2>2. k - 1 = Len(pre)
    OBVIOUS
  <2> QED
    BY <2>1, <2>2
<1> DEFINE e == k + m + 1
           r == Parse(pre)
<1>3. e - 1 = k + m
  BY <1>1
<1>4. \A i \in (k + 1)..(e - 1) : t[i] \in Patterns \cup Remarks
  BY <1>1, <1>3
<1>5. e \in 1..Len(t) /\ k < e /\ t[e] = Close
  BY <1>1
<1>6. r \in Reading /\ r.at = "top" /\ Watch \notin r.seen /\ r = After(t, k - 1)
  BY <1>2
<1> HIDE DEF e, r
<1>7. Closed(r, After(t, e), Watch)
  BY <1>1, <1>4, <1>5, <1>6, ReadingAList
<1> QED
  BY <1>7 DEF e, r

LEMMA OpensAtTop ==
    ASSUME NEW r \in Reading, ReadPiece(r, Watch) # Rejected
    PROVE  r.at = "top" /\ Watch \notin r.seen
<1>1. /\ Watch \notin Remarks \cup Patterns /\ Watch # Close
      /\ Watch \notin {Exclude, "top"}
  BY PieceKinds
<1>2. r # Rejected
  BY RejectedReads
<1> QED
  BY <1>1, <1>2 DEF ReadPiece

\* The list of a text that loads is read to the end that scan finds, if the
\* brackets in its remarks match.
LEMMA OldListIsRead ==
    ASSUME NEW t \in Seq(Pieces), Begins(t) # {}, Parse(t) # Rejected,
           Balanced(t), NEW b, b = First(t), NEW e, e = EndOfList(t, b)
    PROVE  /\ b \in 1..Len(t) /\ e \in b..Len(t)
           /\ After(t, b - 1) \in Reading /\ After(t, b - 1).at = "top"
           /\ Watch \notin After(t, b - 1).seen
           /\ Closed(After(t, b - 1), After(t, e), Watch)
<1>1. /\ b \in 1..Len(t) /\ t[b] = Watch /\ Len(t) \in Nat
      /\ Watch # Close
  <2>1. b \in 1..Len(t)
    BY ListEnds
  <2>2. b \in Begins(t)
    <3>1. Begins(t) \in SUBSET (1..Len(t)) /\ IsFiniteSet(1..Len(t))
      BY FS_Interval DEF Begins
    <3>2. Begins(t) \in SUBSET Int /\ IsFiniteSet(Begins(t))
      BY <3>1, FS_Subset
    <3>3. \E i \in Begins(t) : \A j \in Begins(t) : i <= j
      BY <3>2, MinOfFinite
    <3> QED
      BY <3>3 DEF First
  <2> QED
    BY <2>1, <2>2, PieceKinds DEF Begins
<1>2. PICK end \in b..Len(t) :
          /\ t[end] = Close /\ Depth(t, b, end) = 0
          /\ \A i \in b..(end - 1) : t[i] # Close /\ Depth(t, b, i) > 0
  BY NoFileIsNoText DEF Balanced, Exists
<1>3. e = end
  <2>1. \A i \in b..(end - 1) : Depth(t, b, i) # 0
    <3> TAKE i \in b..(end - 1)
    <3> DEFINE d == Depth(t, b, i)
    <3>1. d > 0
      BY <1>2
    <3> HIDE DEF d
    <3>2. d # 0
      BY <3>1
    <3> QED
      BY <3>2 DEF d
  <2> QED
    BY <1>1, <1>2, <2>1, EndIs
<1>4. e \in b..Len(t) /\ e \in 1..Len(t) /\ b < e /\ b - 1 \in 0..Len(t)
      /\ t[e] = Close
  BY <1>1, <1>2, <1>3
<1> DEFINE r == After(t, b - 1)
<1>5. r \in Reading /\ \A i \in 0..Len(t) : After(t, i) # Rejected
  BY <1>4, ReadsOn, RejectedReads
<1>6. r.at = "top" /\ Watch \notin r.seen
  <2>1. After(t, b) = ReadPiece(r, Watch)
    BY <1>1, PieceByPiece
  <2>2. b \in 0..Len(t)
    BY <1>1
  <2>3. ReadPiece(r, Watch) # Rejected
    BY <1>5, <2>1, <2>2
  <2> HIDE DEF r
  <2> QED
    BY <1>5, <2>3, OpensAtTop
<1>7. \A i \in (b + 1)..(e - 1) : After(t, i) # Rejected /\ t[i] # Close
  <2> TAKE i \in (b + 1)..(e - 1)
  <2>1. i \in 0..Len(t) /\ i \in b..(end - 1)
    BY <1>1, <1>3, <1>4
  <2> QED
    BY <1>2, <1>5, <2>1
<1>8. Closed(r, After(t, e), Watch)
  <2>1. r = After(t, b - 1)
    OBVIOUS
  <2> HIDE DEF r
  <2> QED
    BY <1>1, <1>4, <1>5, <1>6, <1>7, <2>1, ReadingAList
<1> QED
  BY <1>1, <1>4, <1>5, <1>6, <1>8

\* What the rewriting of a text in the list's place keeps.
LEMMA ListReplaced ==
    ASSUME NEW t \in Seq(Pieces), Begins(t) # {}, Valid(t), Balanced(t),
           NEW units \in SUBSET Services, NEW n, n = NewText(t, units)
    PROVE  /\ n \in Seq(Pieces) /\ Valid(n)
           /\ Parse(n).exclude = Parse(t).exclude /\ Around(n) = Around(t)
<1> DEFINE b == First(t)
           e == EndOfList(t, b)
           pre == SubSeq(t, 1, b - 1)
           post == SubSeq(t, e + 1, Len(t))
           m == Cardinality(units)
           k == Len(pre) + 1
           r == After(t, b - 1)
<1>1. Parse(t) # Rejected /\ Parse(t).at = "top" /\ b = First(t)
      /\ e = EndOfList(t, b)
  BY DEF Valid
<1>2. Exists(t)
  BY NoFileIsNoText DEF Exists
<1>3. n = Between(pre, units, post) /\ Around(t) = pre \o post
  BY <1>2 DEF NewText, Between, Around
<1>4. \A i \in 1..(b - 1) : t[i] # Watch
  BY ListEnds
<1> HIDE DEF b, e
<1>5. /\ b \in 1..Len(t) /\ e \in b..Len(t)
      /\ r \in Reading /\ r.at = "top" /\ Watch \notin r.seen
      /\ Closed(r, After(t, e), Watch)
  BY <1>1, OldListIsRead
<1>6. b - 1 \in 0..Len(t) /\ Len(t) \in Nat /\ e \in Nat
  BY <1>5
<1>7. /\ pre \in Seq(Pieces) /\ Len(pre) = b - 1
      /\ \A i \in 1..(b - 1) : pre[i] = t[i]
  BY <1>6, FirstPieces
<1>8. /\ post \in Seq(Pieces) /\ Len(t) = e + Len(post)
      /\ \A j \in 1..Len(post) : post[j] = t[e + j]
  <2> DEFINE l == Len(t)
  <2>1. l \in Int /\ e + 1 \in Int /\ \A i \in (e + 1)..l : t[i] \in Pieces
    BY <1>5, <1>6
  <2>2. e \in 0..l /\ l \in Nat
    BY <1>5, <1>6
  <2> HIDE DEF l
  <2>3. /\ SubSeq(t, e + 1, l) \in Seq(Pieces)
        /\ Len(SubSeq(t, e + 1, l)) = IF e + 1 <= l THEN l - (e + 1) + 1 ELSE 0
        /\ \A i \in 1..(l - (e + 1) + 1) :
              SubSeq(t, e + 1, l)[i] = t[(e + 1) + i - 1]
    BY <2>1, SubSeqProperties
  <2>4. post = SubSeq(t, e + 1, l)
    BY DEF l
  <2> HIDE DEF post
  <2>5. post \in Seq(Pieces) /\ Len(post) = l - e
    BY <1>6, <2>2, <2>3, <2>4
  <2>6. ASSUME NEW j \in 1..Len(post) PROVE post[j] = t[e + j]
    <3>1. j \in 1..(l - (e + 1) + 1) /\ (e + 1) + j - 1 = e + j
      BY <1>6, <2>2, <2>5
    <3> QED
      BY <2>3, <2>4, <3>1
  <2>7. l = e + Len(post)
    BY <1>6, <2>2, <2>5
  <2> QED
    BY <2>5, <2>6, <2>7 DEF l
<1>9. Parse(pre) = r
  BY DEF After
<1> HIDE DEF pre, post, m, r
<1>10. \A i \in 1..Len(pre) : pre[i] # Watch
  BY <1>4, <1>7
<1>11. ListAt(n, pre, units, post, k, m)
  BY <1>3, <1>7, <1>8, <1>10, OneListBetween DEF m
<1>12. k = Len(pre) + 1
  OBVIOUS
<1> HIDE DEF k
<1>13. /\ n \in Seq(Pieces) /\ Len(n) = k + m + 1 + Len(post) /\ m \in Nat
       /\ \A j \in 1..Len(post) : n[k + m + 1 + j] = post[j]
  BY <1>11 DEF ListAt
<1>14. Around(n) = Around(t)
  <2>1. Around(n) = pre \o post
    BY <1>7, <1>8, <1>11, <1>12, ListFound
  <2> QED
    BY <1>3, <2>1
<1> DEFINE c == k + m + 1
<1>15. Closed(r, After(n, c), Watch)
  BY <1>5, <1>7, <1>8, <1>9, <1>11, <1>12, ListIsRead
<1>16. c \in Nat /\ Len(n) = c + Len(post) /\ Len(post) \in Nat
       /\ \A j \in 1..Len(post) : n[c + j] = t[e + j]
  <2>1. k \in Nat
    BY <1>6, <1>7, <1>12
  <2> QED
    BY <1>8, <1>13, <2>1
<1> HIDE DEF c
<1>17. Alike(After(t, e), After(n, c))
  <2>1. Watch # "top"
    BY PieceKinds
  <2> QED
    BY <1>5, <1>15, <2>1 DEF Closed, Alike
<1>18. Alike(Parse(t), Parse(n))
  BY <1>6, <1>8, <1>13, <1>16, <1>17, SameEnd
<1>19. /\ Parse(n) \in Reading /\ Parse(n).at = "top"
       /\ Parse(n).exclude = Parse(t).exclude
  BY <1>1, <1>18 DEF Alike
<1>20. Valid(n)
  BY <1>19, RejectedReads DEF Valid
<1> QED
  BY <1>13, <1>14, <1>19, <1>20

LEMMA ListAppended ==
    ASSUME NEW t \in Seq(Pieces), Begins(t) = {}, Valid(t),
           NEW units \in SUBSET Services, NEW n, n = NewText(t, units)
    PROVE  /\ n \in Seq(Pieces) /\ Valid(n)
           /\ Parse(n).exclude = Parse(t).exclude /\ Around(n) = Around(t)
<1> DEFINE post == <<>>
           m == Cardinality(units)
           k == Len(t) + 1
           a == FormatWatchUnits(units)
           r == Parse(t)
<1>1. r # Rejected /\ r.at = "top" /\ r \in Readers
  BY ParseType DEF Valid
<1>2. r \in Reading
  BY <1>1 DEF Readers
<1>3. Exists(t)
  BY NoFileIsNoText DEF Exists
<1>4. post \in Seq(Pieces) /\ Len(post) = 0 /\ a \in Seq(Pieces)
  BY ListOf
<1>5. t \o a \in Seq(Pieces)
  <2> HIDE DEF a
  <2> QED
    BY <1>4, ConcatProperties
<1>6. (t \o a) \o post = t \o a /\ t \o post = t
  <2> HIDE DEF a
  <2> QED
    BY <1>4, <1>5, ConcatEmptySeq
<1>7. n = Between(t, units, post)
  <2>1. n = t \o a
    BY <1>3 DEF NewText
  <2>2. Between(t, units, post) = (t \o a) \o post
    BY DEF Between
  <2> QED
    BY <1>6, <2>1, <2>2
<1>8. \A i \in 1..Len(t) : t[i] # Watch
  BY DEF Begins
<1> HIDE DEF post, a, m, r
<1>9. ListAt(n, t, units, post, k, m)
  BY <1>4, <1>7, <1>8, OneListBetween DEF m
<1>10. k = Len(t) + 1
  OBVIOUS
<1> HIDE DEF k
<1>11. Around(n) = Around(t)
  <2>1. Around(n) = t \o post
    BY <1>4, <1>9, <1>10, ListFound
  <2>2. Around(t) = t
    BY DEF Around
  <2> QED
    BY <1>6, <2>1, <2>2
<1>12. /\ n \in Seq(Pieces) /\ OneList(n, k, m) /\ m \in Nat
       /\ Len(n) = k + m + 1 + Len(post)
  BY <1>9 DEF ListAt
<1>13. k \in Nat /\ k - 1 = Len(t) /\ k - 1 \in 0..Len(n) /\ k - 1 < k
       /\ Len(n) = k + m + 1
  BY <1>4, <1>10, <1>12
<1>14. Watch \notin r.seen
  <2> DEFINE j == k - 1
  <2>1. After(n, j) = r
    <3>1. After(n, Len(t)) = Parse(t)
      BY <1>4, <1>9, <1>10, ListFound
    <3> QED
      BY <1>13, <3>1 DEF r
  <2>2. j \in 0..Len(n) /\ j < k /\ ~(j \in k..(k + m)) /\ ~(j > k + m)
    BY <1>12, <1>13
  <2> HIDE DEF j
  <2>3. NoList(r)
    BY <1>1, <1>12, <2>1, <2>2, ReadingOneList
  <2> QED
    BY <2>3 DEF NoList
<1>15. Closed(r, After(n, k + m + 1), Watch)
  BY <1>1, <1>2, <1>4, <1>9, <1>10, <1>14, ListIsRead DEF r
<1>16. After(n, k + m + 1) = Parse(n)
  BY <1>12, <1>13, PieceByPiece
<1>17. /\ Parse(n) \in Reading /\ Parse(n).at = "top"
       /\ Parse(n).exclude = r.exclude
  BY <1>15, <1>16 DEF Closed
<1>18. Valid(n)
  BY <1>17, RejectedReads DEF Valid
<1> QED
  BY <1>11, <1>12, <1>17, <1>18 DEF r

\* The template that scan fills in when there is no file.
LEMMA TemplateLoads ==
    ASSUME NEW units \in SUBSET Services, NEW n, n = NewText(NoFile, units)
    PROVE  n \in Seq(Pieces) /\ Valid(n)
<1> DEFINE pre == <<Key>>
           x == SetToSeq(Excluded)
           post == (<<Exclude>> \o x) \o <<Close>>
           m == Cardinality(units)
           k == Len(pre) + 1
           a == FormatWatchUnits(units)
           r == Parse(pre)
           l == Len(x)
<1>1. /\ x \in Seq(Pieces) /\ x \in Seq(Patterns) /\ l \in Nat
  <2>1. x \in Seq(Excluded) /\ Excluded \subseteq Patterns
    <3>1. IsFiniteSet(Excluded) /\ Excluded \subseteq Patterns
      BY GlobAssumption, FS_Subset DEF Patterns
    <3> HIDE DEF x
    <3> QED
      BY <3>1, SeqOfSet DEF x
  <2> HIDE DEF x
  <2>2. x \in Seq(Patterns)
    BY <2>1, SeqMonotonic
  <2>3. x \in Seq(Pieces)
    BY ExcludedSeq DEF x
  <2> QED
    BY <2>2, <2>3, LenProperties
<1>2. /\ pre \in Seq(Pieces) /\ <<Exclude>> \in Seq(Pieces) /\ Len(pre) = 1
      /\ <<Close>> \in Seq(Pieces) /\ pre[1] = Key
  BY DEF Pieces
<1>3. /\ post \in Seq(Pieces) /\ Len(post) = l + 2
      /\ post[1] = Exclude /\ post[l + 2] = Close
      /\ \A j \in 2..(l + 1) : post[j] \in Patterns
  <2> DEFINE h == <<Exclude>> \o x
  <2>1. \A j \in 1..l : x[j] \in Patterns
    BY <1>1, ElementOfSeq
  <2> HIDE DEF x
  <2>2. /\ h \in Seq(Pieces) /\ Len(h) = l + 1 /\ h[1] = Exclude
        /\ \A j \in 1..l : h[j + 1] = x[j]
    BY <1>1, <1>2
  <2>3. \A j \in 2..(l + 1) : h[j] \in Patterns
    <3> TAKE j \in 2..(l + 1)
    <3>1. j - 1 \in 1..l /\ (j - 1) + 1 = j
      BY <1>1
    <3> QED
      BY <2>1, <2>2, <3>1
  <2> HIDE DEF h, l
  <2>4. /\ h \o <<Close>> \in Seq(Pieces) /\ Len(h \o <<Close>>) = l + 2
        /\ (h \o <<Close>>)[l + 2] = Close
        /\ \A j \in 1..(l + 1) : (h \o <<Close>>)[j] = h[j]
    BY <1>1, <1>2, <2>2
  <2>5. post = h \o <<Close>>
    BY DEF h
  <2> HIDE DEF post
  <2>6. \A j \in 2..(l + 1) : j \in 1..(l + 1)
    BY <1>1
  <2>7. 1 \in 1..(l + 1)
    BY <1>1
  <2> QED
    BY <2>2, <2>3, <2>4, <2>5, <2>6, <2>7
<1>4. n = Between(pre, units, post)
  <2>1. n = Template(a)
    BY DEF NewText, Exists
  <2>2. a \in Seq(Pieces)
    BY ListOf
  <2> HIDE DEF a
  <2>3. Template(a) = (pre \o a) \o post
    BY <2>2, TemplateIs
  <2> QED
    BY <2>1, <2>3 DEF Between, a
<1>5. r \in Reading /\ r.at = "top" /\ r.seen = {Key}
  <2> HIDE DEF pre
  <2>1. Parse(pre) = After(pre, 1) /\ After(pre, 1) = ReadPiece(Reader0, Key)
    BY <1>2, PieceByPiece
  <2>2. Key \notin Remarks /\ Reader0 # Rejected
    BY PieceAssumption, ReaderTypes, RejectedReads
       DEF Key, Remarks, RemarkOpen, RemarkClose
  <2>3. ReadPiece(Reader0, Key) = [Reader0 EXCEPT !.seen = @ \cup {Key},
                                                  !.at = "top"]
    <3>1. Reader0.at = "top" /\ Reader0.seen = {}
      BY DEF Reader0
    <3>2. Key \in {Watch, Exclude, Key} \ Reader0.seen
      BY <3>1
    <3>3. Key \notin Patterns /\ Key # Close /\ Watch # "top" /\ Exclude # "top"
      BY PieceAssumption, PieceKinds DEF Key, Close
    <3> DEFINE o == Reader0
    <3>4. /\ o # Rejected /\ o.at = "top"
          /\ Key \in {Watch, Exclude, Key} \ o.seen
      BY <2>2, <3>1, <3>2
    <3> HIDE DEF o
    <3>5. ReadPiece(o, Key) = [o EXCEPT !.seen = @ \cup {Key}, !.at = "top"]
      BY <2>2, <3>3, <3>4 DEF ReadPiece
    <3> QED
      BY <3>5 DEF o
  <2>4. Parse(pre) = [at |-> "top", seen |-> {Key}, watch |-> {}, exclude |-> {}]
    BY <2>1, <2>3 DEF Reader0
  <2> QED
    BY <2>4 DEF Reading
<1>6. Key # Watch /\ Key # Exclude /\ Watch # Exclude /\ Exclude # Close
  BY DEF Key, Watch, Exclude, Close
<1>7. \A i \in 1..Len(pre) : pre[i] # Watch
  BY <1>2, <1>6
<1> HIDE DEF pre, post, x, m, a, r, l
<1>8. ListAt(n, pre, units, post, k, m)
  BY <1>2, <1>3, <1>4, <1>7, OneListBetween DEF m
<1>9. k = Len(pre) + 1 /\ k = 2
  BY <1>2
<1> HIDE DEF k
<1> DEFINE c == k + m + 1
           q == After(n, c)
<1>10. Closed(r, q, Watch)
  BY <1>2, <1>3, <1>5, <1>6, <1>8, <1>9, ListIsRead DEF r
<1>11. /\ n \in Seq(Pieces) /\ Len(n) = c + l + 2 /\ c \in Nat
       /\ \A j \in 1..(l + 2) : n[c + j] = post[j]
  BY <1>1, <1>3, <1>8, <1>9 DEF ListAt
<1>12. q \in Reading /\ q.at = "top" /\ Exclude \notin q.seen
  BY <1>5, <1>6, <1>10 DEF Closed
<1> HIDE DEF c
<1> DEFINE b == c + 1
           e == c + l + 2
<1>13. /\ b \in 1..Len(n) /\ e \in 1..Len(n) /\ b < e /\ b - 1 = c
       /\ e = Len(n)
  BY <1>1, <1>11
<1>14. n[b] = Exclude /\ n[e] = Close
  <2>1. 1 \in 1..(l + 2) /\ l + 2 \in 1..(l + 2) /\ e = c + (l + 2)
    BY <1>1, <1>11
  <2> QED
    BY <1>3, <1>11, <2>1
<1>15. \A i \in (b + 1)..(e - 1) : n[i] \in Patterns \cup Remarks
  <2> TAKE i \in (b + 1)..(e - 1)
  <2>1. i - c \in 2..(l + 1) /\ i - c \in 1..(l + 2) /\ c + (i - c) = i
    BY <1>1, <1>11
  <2> QED
    BY <1>3, <1>11, <2>1
<1>16. q = After(n, b - 1)
  BY <1>13
<1> HIDE DEF b, e, q
<1>17. Closed(q, After(n, e), Exclude)
  BY <1>11, <1>12, <1>13, <1>14, <1>15, <1>16, ReadingAList
<1>18. Parse(n) \in Reading /\ Parse(n).at = "top"
  BY <1>11, <1>13, <1>17, PieceByPiece DEF Closed
<1> QED
  BY <1>11, <1>18, RejectedReads DEF Valid

----------------------------------------------------------------------------
(* The theorems. *)

\* Whatever the user writes, wherever the scans die and whenever the daemon
\* starts, the file is a text or is missing, no scan has an empty list to
\* write, and a daemon that runs has a configuration that load has read.
THEOREM ConfigTypes == Spec => []TypeOK
<1>1. ConfigInv => TypeOK
  BY DEF ConfigInv
<1> QED
  BY ConfigInvariant, <1>1, PTL

LEMMA DaemonLoads ==
    ASSUME ConfigInv, daemon' = Load(file), daemon' # Rejected
    PROVE  daemon'.watch \in {{}} \cup ToSet(lists) \cup UserLists
<1>1. file \in Seq(Pieces) \cup {NoFile} /\ Whole(file, lists)
  BY DEF ConfigInv, TypeOK
<1>2. CASE ~Exists(file)
  BY <1>1, <1>2, Loads
<1>3. CASE Exists(file)
  <2>1. Valid(file) /\ Load(file).watch = Parse(file).watch
    BY <1>1, <1>3, Loads
  <2> QED
    BY <1>1, <1>3, <2>1 DEF Whole
<1> QED
  BY <1>2, <1>3

\* The rewriting of the file in place is no atomic step: write_text empties it
\* and fills it again, and the scan may be killed in between.  Still, whatever
\* part of its text is left, load reads in it the whole list, none or an error:
\* hblogd never runs on some of the units only.
THEOREM NeverPartOfAList == Spec => NoPartOfAList
<1>1. ConfigInv /\ [Next]_vars =>
        [daemon' # daemon /\ daemon' \notin {Down, Rejected} =>
           daemon'.watch \in {{}} \cup ToSet(lists)
                             \cup {Load(t).watch : t \in
                                      {t \in UserTexts : Load(t) # Rejected}}]_vars
  <2> SUFFICES ASSUME ConfigInv, Next,
                      daemon' # daemon, daemon' \notin {Down, Rejected}
               PROVE  daemon'.watch \in {{}} \cup ToSet(lists) \cup UserLists
    BY DEF UserLists
  <2>1. StartDaemon
    BY DEF Next, ScanStep, StartScan, ReadText, Truncate, WriteMore, ScanDies,
       Edit, StopDaemon
  <2> QED
    BY <2>1, DaemonLoads DEF StartDaemon
<1> QED
  BY ConfigInvariant, <1>1, PTL DEF Spec, NoPartOfAList

LEMMA ListWatched ==
    ASSUME NEW c, c.watch \subseteq Services, c.watch # {},
           NEW u \in Services
    PROVE  UnitIsWatched(c, u) <=>
               /\ u \in c.watch
               /\ ~\E p \in c.exclude : Matches(p, u)
<1>1. \A p \in c.watch : Matches(p, u) <=> p = u
  BY GlobAssumption DEF Matches
<1> QED
  BY <1>1 DEF UnitIsWatched

LEMMA FinishedScan ==
    ASSUME ConfigInv, Finished, Load(file') # Rejected
    PROVE  /\ Load(file').watch = services
           /\ services \subseteq Services /\ services # {}
<1>1. TypeOK /\ lists # <<>>
  BY DEF ConfigInv, Finished
<1> DEFINE new == NewText(text, services)
<1>2. /\ new \in Seq(Pieces)
      /\ Valid(new) => Parse(new).watch = services
  BY <1>1, BeginningsWhole
<1>3. file' = new
  BY DEF Finished
<1> HIDE DEF new
<1>4. Exists(new)
  BY <1>2, NoFileIsNoText DEF Exists
<1>5. Valid(new) /\ Load(new).watch = Parse(new).watch
  BY <1>2, <1>3, <1>4, Loads
<1> QED
  BY <1>1, <1>2, <1>3, <1>5, ServicesFound

\* Of the file that a finished scan leaves, when it loads, unit_is_watched
\* accepts the services the scan found, less what the file excludes, and no
\* other unit: the list it writes is never the empty one that means all.
THEOREM ScansWatchWhatTheyFound == Spec => WatchesWhatWasFound
<1>1. ConfigInv /\ [Next]_vars =>
        [Finished /\ Load(file') # Rejected =>
           LET c == Load(file')
               e == [watch |-> {}, exclude |-> c.exclude]
           IN  {u \in Services : UnitIsWatched(c, u)}
                  = {u \in services : UnitIsWatched(e, u)}]_vars
  <2> SUFFICES ASSUME ConfigInv, Finished, Load(file') # Rejected
               PROVE  LET c == Load(file')
                          e == [watch |-> {}, exclude |-> c.exclude]
                      IN  {u \in Services : UnitIsWatched(c, u)}
                             = {u \in services : UnitIsWatched(e, u)}
    OBVIOUS
  <2> DEFINE c == Load(file')
             e == [watch |-> {}, exclude |-> c.exclude]
  <2>1. c.watch = services /\ services \subseteq Services /\ services # {}
    BY FinishedScan
  <2> HIDE DEF c
  <2>2. ASSUME NEW u \in Services
        PROVE  UnitIsWatched(c, u) <=>
                   u \in services /\ ~\E p \in c.exclude : Matches(p, u)
    BY <2>1, ListWatched
  <2>3. ASSUME NEW u \in Services
        PROVE  UnitIsWatched(e, u) <=> ~\E p \in c.exclude : Matches(p, u)
    BY DEF UnitIsWatched
  <2>4. {u \in Services : UnitIsWatched(c, u)}
            = {u \in services : UnitIsWatched(e, u)}
    BY <2>1, <2>2, <2>3
  <2> QED
    BY <2>4 DEF c
<1> QED
  BY ConfigInvariant, <1>1, PTL DEF Spec, WatchesWhatWasFound

\* A scan that comes to its end on a file that loads leaves one that loads, with
\* the services it found, and keeps everything around the list and the excludes
\* (write_watch_units and _replace_watch_units).
THEOREM RestIsKept == Spec => ScanKeepsTheRest
<1>1. ConfigInv /\ [Next]_vars =>
        [Finished /\ Load(text) # Rejected /\ Balanced(text) =>
           /\ Load(file') # Rejected
           /\ Load(file').watch = services
           /\ Exists(text) => /\ Load(file').exclude = Load(text).exclude
                              /\ Around(file') = Around(text)]_vars
  <2> SUFFICES ASSUME ConfigInv, Finished, Load(text) # Rejected, Balanced(text)
               PROVE  /\ Load(file') # Rejected
                      /\ Load(file').watch = services
                      /\ Exists(text) =>
                            /\ Load(file').exclude = Load(text).exclude
                            /\ Around(file') = Around(text)
    OBVIOUS
  <2> DEFINE n == NewText(text, services)
  <2>1. file' = n /\ text \in Seq(Pieces) \cup {NoFile} /\ n = NewText(text, services)
    BY DEF Finished, ConfigInv, TypeOK
  <2>2. services \in SUBSET Services
    BY ServicesFound DEF ConfigInv, Finished
  <2> HIDE DEF n
  <2>3. n \in Seq(Pieces) /\ Valid(n)
        /\ (Exists(text) => /\ Parse(n).exclude = Parse(text).exclude
                            /\ Around(n) = Around(text)
                            /\ Load(text).exclude = Parse(text).exclude)
    <3>1. CASE ~Exists(text)
      BY <2>1, <2>2, <3>1, TemplateLoads DEF Exists
    <3>2. CASE Exists(text)
      <4>1. text \in Seq(Pieces) /\ Valid(text)
            /\ Load(text).exclude = Parse(text).exclude
        BY <2>1, <3>2, Loads DEF Exists
      <4> QED
        BY <2>1, <2>2, <4>1, ListReplaced, ListAppended
    <3> QED
      BY <3>1, <3>2
  <2>4. Exists(n)
    BY <2>3, NoFileIsNoText DEF Exists
  <2>5. /\ Load(n) \in Config /\ Load(n).exclude = Parse(n).exclude
    BY <2>3, <2>4, Loads
  <2>6. Load(file') # Rejected
    BY <2>1, <2>5, ConfigKinds
  <2>7. Load(file').watch = services
    BY <2>6, FinishedScan
  <2> QED
    BY <2>1, <2>3, <2>5, <2>6, <2>7
<1> QED
  BY ConfigInvariant, <1>1, PTL DEF Spec, ScanKeepsTheRest
============================================================================
