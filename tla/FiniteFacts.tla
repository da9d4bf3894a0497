---------------------------- MODULE FiniteFacts ----------------------------
(***************************************************************************)
(* Facts about finite sets, and about the folds of the community modules,  *)
(* that the proofs about the daemon's tables rest on.                      *)
(*                                                                         *)
(* An induction over data is made here by way of the smallest              *)
(* counterexample, which exists because strict inclusion on finite sets is *)
(* well-founded: a fact that takes no operator as a parameter.             *)
(***************************************************************************)
EXTENDS FiniteSetsExt, Integers, FiniteSetTheorems, WellFoundedInduction, TLAPS

\* Among subsets of a finite set there is one none of the others is within.
LEMMA SmallestSubset ==
    ASSUME NEW S, IsFiniteSet(S), NEW F \in SUBSET (SUBSET S), F # {}
    PROVE  \E T \in F : \A U \in F : U \subseteq T => U = T
<1>1. F \subseteq FiniteSubsetsOf(S)
  BY FS_Subset DEF FiniteSubsetsOf
<1>2. IsWellFoundedOn(StrictSubsetOrdering(S), FiniteSubsetsOf(S))
  BY FS_StrictSubsetOrderingWellFounded
<1>3. PICK T \in F : \A U \in F : <<U, T>> \notin StrictSubsetOrdering(S)
  BY <1>1, <1>2, WFMin
<1>4. ASSUME NEW U \in F, U \subseteq T, U # T PROVE FALSE
  <2>1. <<U, T>> \in StrictSubsetOrdering(S)
    BY <1>4 DEF StrictSubsetOrdering
  <2> QED
    BY <1>3, <2>1
<1> QED
  BY <1>4

\* Among finitely many there is one with the largest value.
LEMMA LargestExists ==
    ASSUME NEW T, IsFiniteSet(T), T # {},
           NEW f, \A i \in T : f[i] \in Int
    PROVE  \E i \in T : \A j \in T : f[j] <= f[i]
<1> DEFINE above(i) == {j \in T : f[j] > f[i]}
           F == {above(i) : i \in T}
<1>1. F \in SUBSET (SUBSET T) /\ F # {}
  OBVIOUS
<1>2. \E U \in F : \A V \in F : V \subseteq U => V = U
  <2> HIDE DEF F
  <2> QED
    BY <1>1, SmallestSubset
<1>3. PICK i \in T : \A j \in T : above(j) \subseteq above(i) => above(j) = above(i)
  <2>1. PICK U \in F : \A V \in F : V \subseteq U => V = U
    BY <1>2
  <2>2. PICK i \in T : U = above(i)
    OBVIOUS
  <2>3. \A j \in T : above(j) \in F
    OBVIOUS
  <2> HIDE DEF above, F
  <2> QED
    BY <2>1, <2>2, <2>3
<1>4. ASSUME NEW j \in T, f[j] > f[i] PROVE FALSE
  <2>1. j \in above(i) /\ j \notin above(j)
    BY <1>4
  <2>2. above(j) \subseteq above(i)
    BY <1>4
  <2> QED
    BY <1>3, <2>1, <2>2
<1> QED
  BY <1>4

LEMMA MaxOfFinite ==
    ASSUME NEW S \in SUBSET Int, IsFiniteSet(S), S # {}
    PROVE  Max(S) \in S /\ \A x \in S : x <= Max(S)
<1> DEFINE f == [x \in S |-> x]
<1>1. \A x \in S : f[x] \in Int
  OBVIOUS
<1>2. \E x \in S : \A y \in S : f[y] <= f[x]
  <2> HIDE DEF f
  <2> QED
    BY <1>1, LargestExists
<1>3. \E x \in S : \A y \in S : x >= y
  BY <1>2
<1>4. Max(S) \in S /\ \A y \in S : Max(S) >= y
  BY <1>3 DEF Max
<1> QED
  BY <1>4

LEMMA MinOfFinite ==
    ASSUME NEW S \in SUBSET Int, IsFiniteSet(S), S # {}
    PROVE  Min(S) \in S /\ \A x \in S : Min(S) <= x
<1> DEFINE f == [x \in S |-> -x]
<1>1. \A x \in S : f[x] \in Int
  OBVIOUS
<1>2. \E x \in S : \A y \in S : f[y] <= f[x]
  <2> HIDE DEF f
  <2> QED
    BY <1>1, LargestExists
<1>3. \E x \in S : \A y \in S : x =< y
  BY <1>2
<1>4. Min(S) \in S /\ \A y \in S : Min(S) =< y
  BY <1>3 DEF Min
<1> QED
  BY <1>4

\* The maximum and the minimum, once known to be there, are determined.
LEMMA MaxIs ==
    ASSUME NEW S \in SUBSET Int, NEW m \in S, \A x \in S : x <= m
    PROVE  Max(S) = m
<1> DEFINE c == Max(S)
<1>1. c \in S /\ \A y \in S : c >= y
  BY DEF Max
<1> HIDE DEF c
<1>2. c \in Int /\ m \in Int /\ c >= m /\ c <= m
  BY <1>1
<1>3. c = m
  BY <1>2
<1> QED
  BY <1>3 DEF c

LEMMA MinIs ==
    ASSUME NEW S \in SUBSET Int, NEW m \in S, \A x \in S : m <= x
    PROVE  Min(S) = m
<1> DEFINE c == Min(S)
<1>1. c \in S /\ \A y \in S : c =< y
  BY DEF Min
<1> HIDE DEF c
<1>2. c \in Int /\ m \in Int /\ c >= m /\ c <= m
  BY <1>1
<1>3. c = m
  BY <1>2
<1> QED
  BY <1>3 DEF c

----------------------------------------------------------------------------
(* Recursion over the subsets of a finite set, taking out pick[s] first.   *)

Solves(g, base, pick, op, S) ==
    g = [s \in SUBSET S |->
           IF s = {} THEN base ELSE op[<<pick[s], g[s \ {pick[s]}]>>]]

LEMMA SolutionsAgree ==
    ASSUME NEW S, IsFiniteSet(S), NEW base, NEW pick, NEW op,
           \A s \in SUBSET S : s # {} => pick[s] \in s,
           NEW T \in SUBSET S, NEW U \in SUBSET S, NEW g, NEW h,
           Solves(g, base, pick, op, T), Solves(h, base, pick, op, U)
    PROVE  \A s \in SUBSET (T \cap U) : g[s] = h[s]
<1> SUFFICES ASSUME \E s \in SUBSET (T \cap U) : g[s] # h[s] PROVE FALSE
  OBVIOUS
<1> DEFINE F == {s \in SUBSET (T \cap U) : g[s] # h[s]}
<1>1. F # {} /\ F \in SUBSET (SUBSET S)
  OBVIOUS
<1>2. PICK s \in F : \A r \in F : r \subseteq s => r = s
  <2> HIDE DEF F
  <2> QED
    BY <1>1, SmallestSubset
<1>3. s \in SUBSET T /\ s \in SUBSET U /\ g[s] # h[s] /\ s \in SUBSET S
  OBVIOUS
<1>4. s # {}
  BY <1>3 DEF Solves
<1>5. pick[s] \in s
  BY <1>3, <1>4
<1> DEFINE r == s \ {pick[s]}
<1>6. r \subseteq s /\ r # s /\ r \in SUBSET (T \cap U)
  BY <1>5
<1>7. g[r] = h[r]
  BY <1>2, <1>6
<1>8. /\ g[s] = op[<<pick[s], g[r]>>]
      /\ h[s] = op[<<pick[s], h[r]>>]
  BY <1>3, <1>4 DEF Solves
<1> QED
  BY <1>3, <1>7, <1>8

LEMMA SolutionExists ==
    ASSUME NEW S, IsFiniteSet(S), NEW base, NEW pick, NEW op,
           \A s \in SUBSET S : s # {} => pick[s] \in s
    PROVE  \E g : Solves(g, base, pick, op, S)
<1> DEFINE F == {T \in SUBSET S : ~ \E g : Solves(g, base, pick, op, T)}
<1> SUFFICES ASSUME F # {} PROVE FALSE
  OBVIOUS
<1>1. PICK T \in F : \A U \in F : U \subseteq T => U = T
  <2>1. F \in SUBSET (SUBSET S)
    OBVIOUS
  <2> HIDE DEF F
  <2> QED
    BY <2>1, SmallestSubset
<1>2. T \in SUBSET S /\ ~ \E g : Solves(g, base, pick, op, T)
  OBVIOUS
<1> DEFINE sol(U) == CHOOSE g : Solves(g, base, pick, op, U)
           value(U) == sol(U)[U]
           G == [s \in SUBSET T |->
                   IF s = {} THEN base
                   ELSE op[<<pick[s], value(s \ {pick[s]})>>]]
<1>3. ASSUME NEW U \in SUBSET T, U # T
      PROVE  Solves(sol(U), base, pick, op, U)
  <2>1. U \in SUBSET S /\ U \notin F
    BY <1>1, <1>2, <1>3
  <2>2. \E g : Solves(g, base, pick, op, U)
    BY <2>1
  <2> QED
    BY <2>2
<1>4. ASSUME NEW s \in SUBSET T, s # T PROVE G[s] = value(s)
  <2>1. Solves(sol(s), base, pick, op, s)
    BY <1>3, <1>4
  <2> DEFINE g == sol(s)
  <2>2. Solves(g, base, pick, op, s)
    BY <2>1
  <2> HIDE DEF g
  <2>3. g = [r \in SUBSET s |->
               IF r = {} THEN base ELSE op[<<pick[r], g[r \ {pick[r]}]>>]]
    BY <2>2 DEF Solves
  <2>4. g[s] = IF s = {} THEN base ELSE op[<<pick[s], g[s \ {pick[s]}]>>]
    BY <2>3
  <2>5. CASE s = {}
    BY <2>4, <2>5 DEF g
  <2>6. CASE s # {}
    <3>1. pick[s] \in s
      BY <1>2, <2>6
    <3> DEFINE r == s \ {pick[s]}
    <3>2. r \in SUBSET T /\ r # T /\ r \in SUBSET s /\ r \in SUBSET S /\ s \in SUBSET S
      BY <1>2, <3>1
    <3>3. Solves(sol(r), base, pick, op, r)
      BY <1>3, <3>2
    <3> DEFINE h == sol(r)
    <3>4. Solves(h, base, pick, op, r)
      BY <3>3
    <3>5. g[r] = h[r]
      <4> HIDE DEF h, r
      <4>1. \A q \in SUBSET (s \cap r) : g[q] = h[q]
        BY <2>2, <3>2, <3>4, SolutionsAgree
      <4> QED
        BY <3>2, <4>1
    <3>6. g[r] = value(r)
      BY <3>5
    <3>7. G[s] = op[<<pick[s], value(r)>>]
      BY <2>6
    <3>8. g[s] = op[<<pick[s], g[r]>>]
      BY <2>4, <2>6
    <3>9. g[s] = G[s]
      BY <3>6, <3>7, <3>8
    <3> QED
      BY <3>9 DEF g
  <2> QED
    BY <2>5, <2>6
<1>5. \A s \in SUBSET T : s # {} => s \ {pick[s]} \in SUBSET T /\ s \ {pick[s]} # T
  BY <1>2
<1>6. Solves(G, base, pick, op, T)
  <2>1. \A s \in SUBSET T : s # {} => G[s \ {pick[s]}] = value(s \ {pick[s]})
    BY <1>4, <1>5
  <2> HIDE DEF value
  <2> QED
    BY <2>1 DEF Solves
<1> QED
  BY <1>2, <1>6

\* With values of a type, of a recursion that stays within the type.
LEMMA TypedSolution ==
    ASSUME NEW S, IsFiniteSet(S), NEW V, NEW base \in V, NEW pick,
           \A s \in SUBSET S : s # {} => pick[s] \in s,
           NEW op \in [S \X V -> V]
    PROVE  \E g : /\ Solves(g, base, pick, op, S)
                  /\ \A s \in SUBSET S : g[s] \in V
<1>1. PICK g : Solves(g, base, pick, op, S)
  BY SolutionExists
<1>2. g = [s \in SUBSET S |->
             IF s = {} THEN base ELSE op[<<pick[s], g[s \ {pick[s]}]>>]]
  BY <1>1 DEF Solves
<1>3. ASSUME \E s \in SUBSET S : g[s] \notin V PROVE FALSE
  <2> DEFINE F == {s \in SUBSET S : g[s] \notin V}
  <2>1. F # {} /\ F \in SUBSET (SUBSET S)
    BY <1>3
  <2>2. PICK s \in F : \A r \in F : r \subseteq s => r = s
    <3> HIDE DEF F
    <3> QED
      BY <2>1, SmallestSubset
  <2>3. s \in SUBSET S /\ g[s] \notin V
    OBVIOUS
  <2>4. s # {} /\ g[s] = op[<<pick[s], g[s \ {pick[s]}]>>]
    BY <1>2, <2>3
  <2>5. pick[s] \in s /\ pick[s] \in S
    BY <2>3, <2>4
  <2>6. g[s \ {pick[s]}] \in V
    BY <2>2, <2>3, <2>5
  <2> QED
    BY <2>3, <2>4, <2>5, <2>6
<1> QED
  BY <1>1, <1>3

----------------------------------------------------------------------------
(* Induction over an interval, of a set rather than of a predicate.        *)

LEMMA IntervalInduction ==
    ASSUME NEW n \in Nat, NEW S, 0 \in S,
           \A i \in 1..n : i - 1 \in S => i \in S
    PROVE  \A i \in 0..n : i \in S
<1> SUFFICES ASSUME \E i \in 0..n : i \notin S PROVE FALSE
  OBVIOUS
<1> DEFINE T == {i \in 0..n : i \notin S}
<1>1. T \in SUBSET Int /\ T # {}
  OBVIOUS
<1>2. IsFiniteSet(T)
  <2>1. IsFiniteSet(0..n) /\ T \subseteq 0..n
    BY FS_Interval
  <2> QED
    BY <2>1, FS_Subset
<1>3. \E m \in T : \A i \in T : m <= i
  <2> HIDE DEF T
  <2> QED
    BY <1>1, <1>2, MinOfFinite
<1>4. PICK m \in T : \A i \in T : m <= i
  BY <1>3
<1>5. m \in 1..n /\ m - 1 \in 0..n /\ m - 1 \notin T
  BY <1>4
<1> QED
  BY <1>4, <1>5

----------------------------------------------------------------------------
(* Sums over a finite set. *)

Sum(f, S) == MapThenSumSet(LAMBDA t : f[t], S)

\* The element that is taken out of a set first.
Picks(S) == [s \in SUBSET S |-> CHOOSE x \in s : TRUE]

\* The recursion that defines the sum has a solution.
SumsOver(g, f, S) ==
    g = [s \in SUBSET S |->
           IF s = {} THEN 0
           ELSE f[CHOOSE x \in s : TRUE] + g[s \ {CHOOSE x \in s : TRUE}]]

LEMMA SumSolves ==
    ASSUME NEW S, IsFiniteSet(S), NEW f, \A s \in S : f[s] \in Nat
    PROVE  \E g \in [SUBSET S -> Nat] : SumsOver(g, f, S)
<1> DEFINE pick == Picks(S)
           op == [p \in S \X Nat |-> f[p[1]] + p[2]]
<1>1. \A s \in SUBSET S : s # {} => pick[s] \in s
  BY DEF Picks
<1>2. PICK g : Solves(g, 0, pick, op, S)
  <2> HIDE DEF pick, op
  <2> QED
    BY <1>1, SolutionExists
<1>3. g = [s \in SUBSET S |->
             IF s = {} THEN 0 ELSE op[<<pick[s], g[s \ {pick[s]}]>>]]
  BY <1>2 DEF Solves
<1>4. \A s \in SUBSET S : g[s] \in Nat
  <2> SUFFICES ASSUME \E s \in SUBSET S : g[s] \notin Nat PROVE FALSE
    OBVIOUS
  <2> DEFINE F == {s \in SUBSET S : g[s] \notin Nat}
  <2>1. F # {} /\ F \in SUBSET (SUBSET S)
    OBVIOUS
  <2>2. PICK s \in F : \A r \in F : r \subseteq s => r = s
    <3> HIDE DEF F
    <3> QED
      BY <2>1, SmallestSubset
  <2>3. s \in SUBSET S /\ g[s] \notin Nat
    OBVIOUS
  <2> HIDE DEF pick, op
  <2>9. g[s] = IF s = {} THEN 0 ELSE op[<<pick[s], g[s \ {pick[s]}]>>]
    BY <1>3, <2>3
  <2>4. s # {} /\ g[s] = op[<<pick[s], g[s \ {pick[s]}]>>]
    <3>1. CASE s = {}
      BY <2>3, <2>9, <3>1
    <3>2. CASE s # {}
      BY <2>9, <3>2
    <3> QED
      BY <3>1, <3>2
  <2>5. pick[s] \in s /\ pick[s] \in S
    BY <1>1, <2>3, <2>4
  <2>6. g[s \ {pick[s]}] \in Nat
    BY <2>2, <2>3, <2>5
  <2>7. f[pick[s]] \in Nat
    BY <2>5
  <2>8. op[<<pick[s], g[s \ {pick[s]}]>>] = f[pick[s]] + g[s \ {pick[s]}]
    BY <2>5, <2>6 DEF op
  <2> QED
    BY <2>3, <2>4, <2>6, <2>7, <2>8
<1>5. ASSUME NEW s \in SUBSET S, s # {}
      PROVE  g[s] = f[CHOOSE x \in s : TRUE] + g[s \ {CHOOSE x \in s : TRUE}]
  <2>1. pick[s] = CHOOSE x \in s : TRUE
    BY DEF Picks
  <2>2. pick[s] \in S /\ g[s \ {pick[s]}] \in Nat
    BY <1>1, <1>4, <1>5
  <2>3. g[s] = op[<<pick[s], g[s \ {pick[s]}]>>]
    <3> HIDE DEF pick, op
    <3> QED
      BY <1>3, <1>5
  <2>4. g[s] = f[pick[s]] + g[s \ {pick[s]}]
    <3> HIDE DEF pick
    <3> QED
      BY <2>2, <2>3
  <2> QED
    BY <2>1, <2>4
<1> DEFINE rhs(s) == IF s = {} THEN 0
                     ELSE f[CHOOSE x \in s : TRUE]
                             + g[s \ {CHOOSE x \in s : TRUE}]
<1>6. g = [s \in SUBSET S |-> g[s]]
  BY <1>3
<1>7. \A s \in SUBSET S : g[s] = rhs(s)
  <2>1. g[{}] = 0
    BY <1>3
  <2> QED
    BY <1>5, <2>1
<1>8. g = [s \in SUBSET S |-> rhs(s)]
  <2> HIDE DEF rhs
  <2> QED
    BY <1>6, <1>7
<1>9. SumsOver(g, f, S)
  BY <1>8 DEF SumsOver
<1> QED
  BY <1>4, <1>6, <1>9

\* The sum of part of a set that is not all of it is that of the part.
LEMMA SumRecursion ==
    ASSUME NEW S, IsFiniteSet(S), NEW f, \A s \in S : f[s] \in Nat
    PROVE  /\ Sum(f, S) \in Nat
           /\ S = {} => Sum(f, S) = 0
           /\ S # {} => Sum(f, S) = f[CHOOSE x \in S : TRUE]
                                      + Sum(f, S \ {CHOOSE x \in S : TRUE})
<1> DEFINE Eq(g, T) ==
             g = [s \in SUBSET T |->
                    IF s = {} THEN 0
                    ELSE f[CHOOSE x \in s : TRUE]
                            + g[s \ {CHOOSE x \in s : TRUE}]]
           the(T) == CHOOSE g : Eq(g, T)
<1>1. \A T : Sum(f, T) = the(T)[T]
  BY DEF Sum, MapThenSumSet, MapThenFoldSet
<1>2. ASSUME NEW T \in SUBSET S
      PROVE  /\ Eq(the(T), T)
             /\ \A g : Eq(g, T) => \A s \in SUBSET T : g[s] \in Nat
             /\ \A g : Eq(g, S) => g[T] = the(T)[T]
  <2>1. IsFiniteSet(T) /\ \A s \in T : f[s] \in Nat
    BY FS_Subset
  <2>2. \E g : Eq(g, T)
    <3>1. \E g \in [SUBSET T -> Nat] : SumsOver(g, f, T)
      BY <2>1, SumSolves
    <3>2. \A g : SumsOver(g, f, T) <=> Eq(g, T)
      BY DEF SumsOver
    <3> HIDE DEF Eq
    <3> QED
      BY <3>1, <3>2
  <2>3. Eq(the(T), T)
    BY <2>2
  <2> HIDE DEF the
  <2>4. ASSUME NEW U \in SUBSET S, NEW g, NEW h, Eq(g, U), Eq(h, T), T \subseteq U
        PROVE  \A s \in SUBSET T : g[s] = h[s] /\ h[s] \in Nat
    <3> SUFFICES ASSUME \E s \in SUBSET T : ~(g[s] = h[s] /\ h[s] \in Nat)
                 PROVE  FALSE
      OBVIOUS
    <3> DEFINE F == {s \in SUBSET T : ~(g[s] = h[s] /\ h[s] \in Nat)}
    <3>1. F # {} /\ F \in SUBSET (SUBSET S)
      OBVIOUS
    <3>2. PICK s \in F : \A r \in F : r \subseteq s => r = s
      <4> HIDE DEF F
      <4> QED
        BY <3>1, SmallestSubset
    <3>3. s \in SUBSET T /\ s \in SUBSET U /\ ~(g[s] = h[s] /\ h[s] \in Nat)
      BY <2>4
    <3>4. CASE s = {}
      BY <2>4, <3>3, <3>4
    <3>5. CASE s # {}
      <4> DEFINE x == CHOOSE y \in s : TRUE
                 r == s \ {x}
      <4>1. x \in s /\ f[x] \in Nat
        BY <3>3, <3>5
      <4>2. r \in SUBSET T /\ r \subseteq s /\ r # s
        BY <3>3, <4>1
      <4>3. g[r] = h[r] /\ h[r] \in Nat
        BY <3>2, <4>2
      <4>4. g[s] = f[x] + g[r] /\ h[s] = f[x] + h[r]
        BY <2>4, <3>3, <3>5
      <4> QED
        BY <3>3, <4>1, <4>3, <4>4
    <3> QED
      BY <3>4, <3>5
  <2>5. \A g : Eq(g, T) => \A s \in SUBSET T : g[s] \in Nat
    <3> HIDE DEF Eq
    <3> QED
      BY <2>4
  <2>6. \A g : Eq(g, S) => g[T] = the(T)[T]
    <3> HIDE DEF Eq
    <3> QED
      BY <2>3, <2>4
  <2> QED
    BY <2>3, <2>5, <2>6 DEF the
<1> HIDE DEF the
<1>3. Eq(the(S), S) /\ \A s \in SUBSET S : the(S)[s] \in Nat
  <2> HIDE DEF Eq
  <2> QED
    BY <1>2
<1>4. ASSUME NEW T \in SUBSET S PROVE Sum(f, T) = the(S)[T]
  <2> HIDE DEF Eq
  <2> QED
    BY <1>1, <1>2, <1>3
<1>5. S = {} => the(S)[S] = 0
  BY <1>3
<1>6. S # {} => the(S)[S] = f[CHOOSE x \in S : TRUE]
                              + the(S)[S \ {CHOOSE x \in S : TRUE}]
  BY <1>3
<1> QED
  BY <1>3, <1>4, <1>5, <1>6

\* Induction over a finite set, of a set of its subsets.
LEMMA SubsetInduction ==
    ASSUME NEW S, IsFiniteSet(S), NEW F, {} \in F,
           \A T \in SUBSET S, x \in S : T \in F /\ x \notin T => T \cup {x} \in F
    PROVE  S \in F
<1> SUFFICES ASSUME S \notin F PROVE FALSE
  OBVIOUS
<1> DEFINE G == {T \in SUBSET S : T \notin F}
<1>1. G # {} /\ G \in SUBSET (SUBSET S)
  OBVIOUS
<1>2. PICK T \in G : \A U \in G : U \subseteq T => U = T
  <2> HIDE DEF G
  <2> QED
    BY <1>1, SmallestSubset
<1>3. PICK x \in T : TRUE
  OBVIOUS
<1>4. T \ {x} \notin G
  BY <1>2, <1>3
<1>5. T \ {x} \in F /\ x \in S /\ T = (T \ {x}) \cup {x}
  BY <1>4
<1> QED
  BY <1>5

LEMMA SumType ==
    ASSUME NEW S, IsFiniteSet(S), NEW f, \A s \in S : f[s] \in Nat
    PROVE  Sum(f, S) \in Nat
  BY SumRecursion

LEMMA SumEmpty == ASSUME NEW f PROVE Sum(f, {}) = 0
<1>1. IsFiniteSet({}) /\ \A s \in {} : f[s] \in Nat
  BY FS_EmptySet
<1> QED
  BY <1>1, SumRecursion

\* Any element may be taken out of the sum, not only the one chosen first.
LEMMA SumTakeOut ==
    ASSUME NEW S, IsFiniteSet(S), NEW f, \A s \in S : f[s] \in Nat, NEW x \in S
    PROVE  Sum(f, S) = f[x] + Sum(f, S \ {x})
<1> DEFINE Bad == {T \in SUBSET S : \E y \in T : Sum(f, T) # f[y] + Sum(f, T \ {y})}
<1> SUFFICES ASSUME Bad # {} PROVE FALSE
  OBVIOUS
<1>1. PICK T \in Bad : \A U \in Bad : U \subseteq T => U = T
  <2>1. Bad \in SUBSET (SUBSET S)
    OBVIOUS
  <2> HIDE DEF Bad
  <2> QED
    BY <2>1, SmallestSubset
<1>2. PICK y \in T : Sum(f, T) # f[y] + Sum(f, T \ {y})
  OBVIOUS
<1> DEFINE z == CHOOSE x_1 \in T : TRUE
<1>3. T \in SUBSET S /\ z \in T
  OBVIOUS
<1>4. \A U \in SUBSET S : IsFiniteSet(U) /\ Sum(f, U) \in Nat
  BY FS_Subset, SumType
<1>5. Sum(f, T) = f[z] + Sum(f, T \ {z})
  BY <1>2, <1>3, <1>4, SumRecursion
<1> HIDE DEF z
<1>6. y # z
  BY <1>2, <1>5
<1>7. T \ {z} \notin Bad /\ T \ {y} \notin Bad
  BY <1>1, <1>3
<1>8. Sum(f, T \ {z}) = f[y] + Sum(f, (T \ {z}) \ {y})
  BY <1>3, <1>6, <1>7
<1>9. Sum(f, T \ {y}) = f[z] + Sum(f, (T \ {y}) \ {z})
  BY <1>3, <1>6, <1>7
<1> DEFINE r == Sum(f, (T \ {z}) \ {y})
<1>10. (T \ {z}) \ {y} = (T \ {y}) \ {z}
  OBVIOUS
<1>11. r \in Nat /\ f[y] \in Nat /\ f[z] \in Nat
  BY <1>3, <1>4
<1>12. Sum(f, T) = f[z] + (f[y] + r) /\ Sum(f, T \ {y}) = f[z] + r
  BY <1>5, <1>8, <1>9, <1>10
<1> HIDE DEF r
<1> QED
  BY <1>2, <1>11, <1>12

LEMMA SumAdd ==
    ASSUME NEW S, IsFiniteSet(S), NEW f, NEW x, x \notin S,
           \A s \in S \cup {x} : f[s] \in Nat
    PROVE  Sum(f, S \cup {x}) = Sum(f, S) + f[x]
<1>1. IsFiniteSet(S \cup {x}) /\ x \in S \cup {x} /\ (S \cup {x}) \ {x} = S
  BY FS_AddElement
<1>2. Sum(f, S \cup {x}) = f[x] + Sum(f, S)
  BY <1>1, SumTakeOut
<1>3. Sum(f, S) \in Nat /\ f[x] \in Nat
  BY SumType
<1> QED
  BY <1>2, <1>3

\* A larger set, and larger values, have no smaller sum.
LEMMA SumMonotone ==
    ASSUME NEW S, IsFiniteSet(S), NEW R \in SUBSET S, NEW f, NEW h,
           \A s \in S : f[s] \in Nat /\ h[s] \in Nat,
           \A s \in R : h[s] <= f[s]
    PROVE  Sum(h, R) <= Sum(f, S)
<1> DEFINE F == {T \in SUBSET S : Sum(h, R \cap T) <= Sum(f, T)}
<1>1. {} \in F
  BY SumEmpty
<1>2. ASSUME NEW T \in SUBSET S, NEW x \in S, T \in F, x \notin T
      PROVE  T \cup {x} \in F
  <2>1. IsFiniteSet(T) /\ IsFiniteSet(R \cap T)
    BY FS_Subset
  <2>2. /\ Sum(f, T) \in Nat /\ Sum(h, R \cap T) \in Nat
        /\ f[x] \in Nat /\ h[x] \in Nat /\ Sum(h, R \cap T) <= Sum(f, T)
    BY <1>2, <2>1, SumType
  <2>3. Sum(f, T \cup {x}) = Sum(f, T) + f[x]
    BY <1>2, <2>1, SumAdd
  <2>4. CASE x \in R
    <3>1. R \cap (T \cup {x}) = (R \cap T) \cup {x} /\ h[x] <= f[x]
      BY <2>4
    <3>2. Sum(h, (R \cap T) \cup {x}) = Sum(h, R \cap T) + h[x]
      BY <1>2, <2>1, SumAdd
    <3>3. Sum(h, R \cap (T \cup {x})) = Sum(h, R \cap T) + h[x]
      BY <3>1, <3>2
    <3>4. Sum(h, R \cap (T \cup {x})) <= Sum(f, T \cup {x})
      BY <2>2, <2>3, <3>1, <3>3
    <3> QED
      BY <3>4
  <2>5. CASE x \notin R
    <3>1. R \cap (T \cup {x}) = R \cap T
      BY <2>5
    <3>2. Sum(h, R \cap (T \cup {x})) = Sum(h, R \cap T)
      BY <3>1
    <3>3. Sum(h, R \cap (T \cup {x})) <= Sum(f, T \cup {x})
      BY <2>2, <2>3, <3>2
    <3> QED
      BY <3>3
  <2> QED
    BY <2>4, <2>5
<1>3. S \in F
  <2> HIDE DEF F
  <2> QED
    BY <1>1, <1>2, SubsetInduction
<1>4. R \cap S = R
  OBVIOUS
<1> QED
  BY <1>3, <1>4

\* The sum depends on the values over the set alone.
LEMMA SumSame ==
    ASSUME NEW S, IsFiniteSet(S), NEW f, NEW h,
           \A s \in S : f[s] \in Nat /\ h[s] = f[s]
    PROVE  Sum(h, S) = Sum(f, S)
<1>1. \A s \in S : f[s] <= h[s] /\ h[s] <= f[s] /\ h[s] \in Nat
  OBVIOUS
<1>2. Sum(h, S) <= Sum(f, S) /\ Sum(f, S) <= Sum(h, S)
  BY <1>1, SumMonotone
<1>3. Sum(h, S) \in Nat /\ Sum(f, S) \in Nat
  BY <1>1, SumType
<1> QED
  BY <1>2, <1>3

LEMMA SumUnion ==
    ASSUME NEW S, IsFiniteSet(S), NEW R, IsFiniteSet(R), R \cap S = {}, NEW f,
           \A s \in R \cup S : f[s] \in Nat
    PROVE  Sum(f, R \cup S) = Sum(f, R) + Sum(f, S)
<1> DEFINE F == {T \in SUBSET S : Sum(f, R \cup T) = Sum(f, R) + Sum(f, T)}
<1>1. {} \in F
  <2>1. R \cup {} = R /\ Sum(f, R) \in Nat
    BY SumType
  <2> QED
    BY <2>1, SumEmpty
<1>2. ASSUME NEW T \in SUBSET S, NEW x \in S, T \in F, x \notin T
      PROVE  T \cup {x} \in F
  <2>1. IsFiniteSet(T) /\ IsFiniteSet(R \cup T) /\ x \notin R \cup T
    BY <1>2, FS_Subset, FS_Union
  <2>2. /\ Sum(f, T) \in Nat /\ Sum(f, R) \in Nat /\ f[x] \in Nat
        /\ Sum(f, R \cup T) = Sum(f, R) + Sum(f, T)
    BY <1>2, <2>1, SumType
  <2>3. Sum(f, T \cup {x}) = Sum(f, T) + f[x]
    BY <1>2, <2>1, SumAdd
  <2>4. Sum(f, (R \cup T) \cup {x}) = Sum(f, R \cup T) + f[x]
    BY <2>1, SumAdd
  <2>5. (R \cup T) \cup {x} = R \cup (T \cup {x})
    OBVIOUS
  <2>6. Sum(f, R \cup (T \cup {x})) = Sum(f, R \cup T) + f[x]
    BY <2>4, <2>5
  <2>7. Sum(f, R \cup (T \cup {x})) = Sum(f, R) + Sum(f, T \cup {x})
    BY <2>2, <2>3, <2>6
  <2> QED
    BY <2>7
<1>3. S \in F
  <2> HIDE DEF F
  <2> QED
    BY <1>1, <1>2, SubsetInduction
<1> QED
  BY <1>3

\* What one value more or less makes to the sum.
LEMMA SumChange ==
    ASSUME NEW S, IsFiniteSet(S), NEW f, NEW h, NEW x \in S,
           \A s \in S : f[s] \in Nat /\ h[s] \in Nat,
           \A s \in S \ {x} : h[s] = f[s]
    PROVE  Sum(h, S) + f[x] = Sum(f, S) + h[x]
<1>1. IsFiniteSet(S \ {x})
  BY FS_RemoveElement
<1>2. Sum(f, S) = f[x] + Sum(f, S \ {x}) /\ Sum(h, S) = h[x] + Sum(h, S \ {x})
  BY SumTakeOut
<1>3. Sum(h, S \ {x}) = Sum(f, S \ {x}) /\ Sum(f, S \ {x}) \in Nat
  BY <1>1, SumSame, SumType
<1>4. f[x] \in Nat /\ h[x] \in Nat
  OBVIOUS
<1> QED
  BY <1>2, <1>3, <1>4

LEMMA SumBoundsEach ==
    ASSUME NEW S, IsFiniteSet(S), NEW f, NEW x \in S, \A s \in S : f[s] \in Nat
    PROVE  f[x] <= Sum(f, S)
<1>1. IsFiniteSet(S \ {x})
  BY FS_RemoveElement
<1>2. Sum(f, S) = f[x] + Sum(f, S \ {x}) /\ Sum(f, S \ {x}) \in Nat
  BY <1>1, SumTakeOut, SumType
<1> QED
  BY <1>2
============================================================================
