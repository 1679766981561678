--------------------------- MODULE StatisticsProofs ---------------------------
(***************************************************************************)
(* Proofs about what is computed from the records of a group, as the       *)
(* instance Stats that GroupPages makes of Statistics, for any games,      *)
(* players, items and values: the pages of a day, of the rankings and of a *)
(* player add the same rows up, shares, percentiles and averages are those *)
(* of a whole up to their rounding, and streaks are parts of one record.   *)
(*                                                                         *)
(* The one invariant needed is that only who is on a side has rows: the    *)
(* rest is arithmetic of sums over finite sets, of sorted lists and of     *)
(* rounding, which is why most of the module is about those.               *)
(***************************************************************************)
EXTENDS PagesProofs

-----------------------------------------------------------------------------
(* Sums.                                                                   *)

\* The sum of a function over a finite set, and the function by which the library adds up.
Total(F, S) == Stats!Sum(LAMBDA x : F[x], S)
Pick(s)     == CHOOSE x \in s : TRUE
AddsUp(h, F, S) ==
    h = [s \in SUBSET S |-> IF s = {} THEN 0 ELSE F[Pick(s)] + h[s \ {Pick(s)}]]

\* A set of sets that has every subset of S whose proper subsets it has, has them all.
LEMMA SubsetsInduct ==
    ASSUME NEW S, IsFiniteSet(S), NEW U,
           \A T \in SUBSET S : (\A R \in SUBSET T : R # T => R \in U) => T \in U
    PROVE  \A T \in SUBSET S : T \in U
  <1> DEFINE N == {Cardinality(T) : T \in (SUBSET S) \ U}
  <1>1. \A T \in SUBSET S : IsFiniteSet(T) /\ Cardinality(T) \in Nat
    BY FS_Subset, FS_CardinalityType
  <1> SUFFICES ASSUME NEW W \in SUBSET S, W \notin U PROVE FALSE
    OBVIOUS
  <1>2. N \subseteq Nat /\ N # {}
    BY <1>1
  <1>3. PICK n \in N : \A m \in N : n <= m
    BY <1>2, LeastOf
  <1>4. PICK T \in (SUBSET S) \ U : n = Cardinality(T)
    BY <1>3
  <1>5. ASSUME NEW R \in SUBSET T, R # T PROVE R \in U
    <2>2. IsFiniteSet(T) /\ R \in SUBSET S /\ Cardinality(R) \in Nat /\ Cardinality(T) \in Nat
      BY <1>1
    <2>3. Cardinality(R) <= Cardinality(T) /\ Cardinality(R) # Cardinality(T)
      BY <2>2, <1>5, FS_Subset
    <2>1. R \in SUBSET S /\ Cardinality(R) < Cardinality(T)
      BY <2>2, <2>3
    <2>4. R \notin U => Cardinality(R) \in N
      BY <2>1
    <2>5. ~(n <= Cardinality(R))
      BY <1>4, <2>1, <2>2
    <2> HIDE DEF N
    <2> QED  BY <1>3, <2>4, <2>5
  <1> QED  BY <1>4, <1>5

\* What is picked is there, and less is left.
LEMMA PickIn == ASSUME NEW s, s # {} PROVE Pick(s) \in s /\ s \ {Pick(s)} \in SUBSET s /\ s \ {Pick(s)} # s
  BY DEF Pick

\* There is one function that adds up.
LEMMA AddsUpOnce ==
    ASSUME NEW S, IsFiniteSet(S), NEW F, NEW h, NEW k, AddsUp(h, F, S), AddsUp(k, F, S)
    PROVE  h = k
  <1> DEFINE U == {T \in SUBSET S : h[T] = k[T]}
  <1>1. ASSUME NEW T \in SUBSET S, \A R \in SUBSET T : R # T => R \in U PROVE T \in U
    <2>1. /\ h[T] = IF T = {} THEN 0 ELSE F[Pick(T)] + h[T \ {Pick(T)}]
          /\ k[T] = IF T = {} THEN 0 ELSE F[Pick(T)] + k[T \ {Pick(T)}]
      BY DEF AddsUp
    <2>2. T # {} => h[T \ {Pick(T)}] = k[T \ {Pick(T)}]
      BY <1>1, PickIn
    <2> QED  BY <2>1, <2>2
  <1>2. \A T \in SUBSET S : T \in U
    BY <1>1, SubsetsInduct
  <1> QED  BY <1>2 DEF AddsUp

\* There is such a function.
LEMMA SomeAddsUp ==
    ASSUME NEW S, IsFiniteSet(S), NEW F
    PROVE  \E h : AddsUp(h, F, S)
  <1> DEFINE Next1(h, T) == IF T = {} THEN 0 ELSE F[Pick(T)] + h[T \ {Pick(T)}]
             AddsTo(h, n)  == \A T \in SUBSET S : Cardinality(T) <= n => h[T] = Next1(h, T)
             Bad  == {n \in Nat : \A h : ~AddsTo(h, n)}
  <1>1. \A T \in SUBSET S : IsFiniteSet(T) /\ Cardinality(T) \in Nat
    BY FS_Subset, FS_CardinalityType
  <1>2. \A T \in SUBSET S : T # {} => T \ {Pick(T)} \in SUBSET S /\ Cardinality(T \ {Pick(T)}) = Cardinality(T) - 1
    BY <1>1, PickIn, FS_RemoveElement
  <1>3. Bad = {}
    <2> SUFFICES ASSUME Bad # {} PROVE FALSE
      OBVIOUS
    <2>1. Bad \subseteq Nat
      OBVIOUS
    <2>2. PICK n \in Bad : \A m \in Bad : n <= m
      BY <2>1, LeastOf
    <2>3. CASE n = 0
      <3> DEFINE h == [T \in SUBSET S |-> 0]
      <3>1. \A T \in SUBSET S : Cardinality(T) <= 0 => T = {}
        BY <1>1, FS_EmptySet
      <3>2. AddsTo(h, 0)
        BY <3>1
      <3> QED  BY <2>3, <3>2
    <2>4. CASE n # 0
      <3>0. n \in Nat
        BY <2>1, <2>2
      <3>1. n - 1 \in Nat /\ n - 1 \notin Bad
        <4> HIDE DEF Bad
        <4>1. n - 1 \in Nat /\ ~(n <= n - 1)
          BY <3>0, <2>4
        <4> QED  BY <4>1, <2>2
      <3>2. PICK h : AddsTo(h, n - 1)
        BY <3>1
      <3> DEFINE k == [T \in SUBSET S |-> Next1(h, T)]
      <3>3. ASSUME NEW T \in SUBSET S, Cardinality(T) <= n PROVE k[T] = Next1(k, T)
        <4>1. CASE T = {}
          BY <4>1
        <4>2. CASE T # {}
          <5> DEFINE R == T \ {Pick(T)}
          <5>1. R \in SUBSET S /\ Cardinality(R) <= n - 1
            BY <1>1, <1>2, <3>3, <4>2, <2>1
          <5>2. h[R] = Next1(h, R)
            BY <3>2, <5>1
          <5>3. k[R] = Next1(h, R)
            BY <5>1
          <5>4. k[T] = F[Pick(T)] + h[R]
            BY <4>2
          <5> QED  BY <4>2, <5>2, <5>3, <5>4
        <4> QED  BY <4>1, <4>2
      <3> HIDE DEF k
      <3>4. AddsTo(k, n)
        BY <3>3
      <3> QED  BY <2>2, <3>4
    <2> QED  BY <2>3, <2>4
  <1>4. Cardinality(S) \in Nat /\ Cardinality(S) \notin Bad
    BY <1>1, <1>3
  <1>5. PICK h : AddsTo(h, Cardinality(S))
    BY <1>4
  <1>6. \A T \in SUBSET S : h[T] = Next1(h, T)
    BY <1>5, FS_Subset
  <1> DEFINE k == [T \in SUBSET S |-> h[T]]
  <1>7. \A T \in SUBSET S : k[T] = Next1(k, T)
    <2> TAKE T \in SUBSET S
    <2>1. k[T] = h[T] /\ (T # {} => k[T \ {Pick(T)}] = h[T \ {Pick(T)}])
      BY <1>2
    <2> QED  BY <2>1, <1>6
  <1>8. k = [T \in SUBSET S |-> k[T]]
    OBVIOUS
  <1> HIDE DEF k
  <1>9. AddsUp(k, F, S)
    BY <1>7, <1>8 DEF AddsUp
  <1> QED  BY <1>9

\* The function that adds up over S, and the sum, by its value at S.
LEMMA TotalIs ==
    ASSUME NEW S, IsFiniteSet(S), NEW F, NEW h, AddsUp(h, F, S)
    PROVE  Total(F, S) = h[S]
  <1>1. Total(F, S) = (CHOOSE k : AddsUp(k, F, S))[S]
    BY DEF Total, AddsUp, Pick, Stats!Sum, Stats!MapThenSumSet, Stats!MapThenFoldSet
  <1>2. AddsUp(CHOOSE k : AddsUp(k, F, S), F, S)
    <2> DEFINE P(k) == AddsUp(k, F, S)
    <2>1. P(h)
      OBVIOUS
    <2> HIDE DEF P
    <2>2. P(CHOOSE k : P(k))
      BY <2>1
    <2> QED  BY <2>2 DEF P
  <1> QED  BY <1>1, <1>2, AddsUpOnce

\* What adds up over S adds up over its subsets.
LEMMA TotalOfPart ==
    ASSUME NEW S, IsFiniteSet(S), NEW F, NEW h, AddsUp(h, F, S), NEW T \in SUBSET S
    PROVE  Total(F, T) = h[T]
  <1> DEFINE k == [R \in SUBSET T |-> h[R]]
  <1>1. \A R \in SUBSET T : k[R] = IF R = {} THEN 0 ELSE F[Pick(R)] + k[R \ {Pick(R)}]
    <2> TAKE R \in SUBSET T
    <2>1. R \in SUBSET S /\ (R # {} => R \ {Pick(R)} \in SUBSET T)
      BY PickIn
    <2>2. h[R] = IF R = {} THEN 0 ELSE F[Pick(R)] + h[R \ {Pick(R)}]
      BY <2>1 DEF AddsUp
    <2> QED  BY <2>1, <2>2
  <1>2. k = [R \in SUBSET T |-> k[R]] /\ k[T] = h[T]
    OBVIOUS
  <1> HIDE DEF k
  <1>3. AddsUp(k, F, T)
    BY <1>1, <1>2 DEF AddsUp
  <1>4. IsFiniteSet(T)
    BY FS_Subset
  <1> QED  BY <1>2, <1>3, <1>4, TotalIs

\* A sum is 0, or that of one element and of the others.
LEMMA TotalSteps ==
    ASSUME NEW S, IsFiniteSet(S), NEW F
    PROVE  /\ Total(F, {}) = 0
           /\ S # {} => Total(F, S) = F[Pick(S)] + Total(F, S \ {Pick(S)})
  <1>1. PICK h : AddsUp(h, F, S)
    BY SomeAddsUp
  <1>2. h[{}] = 0 /\ (S # {} => h[S] = F[Pick(S)] + h[S \ {Pick(S)}])
    BY <1>1 DEF AddsUp
  <1>3. \A T \in SUBSET S : Total(F, T) = h[T]
    BY <1>1, TotalOfPart
  <1> QED  BY <1>2, <1>3, PickIn

\* Sums of integers are integers, and any element may come first.
LEMMA TotalType ==
    ASSUME NEW S, IsFiniteSet(S), NEW F, \A x \in S : F[x] \in Int
    PROVE  Total(F, S) \in Int
  <1> DEFINE U == {T \in SUBSET S : Total(F, T) \in Int}
  <1>1. ASSUME NEW T \in SUBSET S, \A R \in SUBSET T : R # T => R \in U PROVE T \in U
    <2>1. IsFiniteSet(T)
      BY FS_Subset
    <2>2. CASE T = {}
      <3>1. Total(F, {}) = 0
        BY <2>1, TotalSteps
      <3> QED  BY <2>2, <3>1
    <2>3. CASE T # {}
      <3>1. Pick(T) \in T /\ T \ {Pick(T)} \in U
        BY <1>1, <2>3, PickIn
      <3>2. F[Pick(T)] \in Int /\ Total(F, T \ {Pick(T)}) \in Int
        BY <3>1
      <3>3. Total(F, T) = F[Pick(T)] + Total(F, T \ {Pick(T)})
        BY <2>1, <2>3, TotalSteps
      <3> QED  BY <3>2, <3>3
    <2> QED  BY <2>2, <2>3
  <1> HIDE DEF U
  <1>2. \A T \in SUBSET S : T \in U
    BY <1>1, SubsetsInduct
  <1> QED  BY <1>2 DEF U

\* A sum is one of the numbers and the sum of the others.
LEMMA TotalWith ==
    ASSUME NEW S, IsFiniteSet(S), NEW F, \A x \in S : F[x] \in Int
    PROVE  \A x \in S : Total(F, S) = F[x] + Total(F, S \ {x})
  <1> DEFINE U == {T \in SUBSET S : \A x \in T : Total(F, T) = F[x] + Total(F, T \ {x})}
  <1>0. \A T \in SUBSET S : IsFiniteSet(T) /\ Total(F, T) \in Int
    BY FS_Subset, TotalType
  <1>1. ASSUME NEW T \in SUBSET S, \A R \in SUBSET T : R # T => R \in U PROVE T \in U
    <2> SUFFICES ASSUME NEW x \in T PROVE Total(F, T) = F[x] + Total(F, T \ {x})
      OBVIOUS
    <2>1. PICK p \in T : Total(F, T) = F[p] + Total(F, T \ {p})
      BY <1>0, TotalSteps, PickIn
    <2>2. CASE x = p
      BY <2>1, <2>2
    <2>3. CASE x # p
      <3>1. T \ {p} \in U /\ T \ {x} \in U
        BY <1>1
      <3>2. Total(F, T \ {p}) = F[x] + Total(F, (T \ {p}) \ {x})
        BY <2>3, <3>1
      <3>3. Total(F, T \ {x}) = F[p] + Total(F, (T \ {x}) \ {p})
        BY <2>3, <3>1
      <3>4. (T \ {p}) \ {x} = (T \ {x}) \ {p}
        OBVIOUS
      <3>5. PICK n \in Int : n = Total(F, (T \ {p}) \ {x})
        BY <1>0
      <3>6. F[x] \in Int /\ F[p] \in Int
        OBVIOUS
      <3>7. Total(F, T) = F[p] + (F[x] + n) /\ F[x] + Total(F, T \ {x}) = F[x] + (F[p] + n)
        BY <2>1, <3>2, <3>3, <3>4, <3>5
      <3> QED  BY <3>5, <3>6, <3>7
    <2> QED  BY <2>2, <2>3
  <1> HIDE DEF U
  <1>2. S \in U
    BY <1>1, SubsetsInduct
  <1> QED  BY <1>2 DEF U

\* A set of sets that has the empty one and grows by each element has S.
LEMMA Grow ==
    ASSUME NEW S, IsFiniteSet(S), NEW U, {} \in U,
           \A T \in SUBSET S, x \in S : x \notin T /\ T \in U => T \cup {x} \in U
    PROVE  S \in U
  <1>1. ASSUME NEW T \in SUBSET S, \A R \in SUBSET T : R # T => R \in U PROVE T \in U
    <2>1. CASE T # {}
      <3>1. PICK x \in T : TRUE
        BY <2>1
      <3>2. T \ {x} \in U
        BY <1>1
      <3>3. T \ {x} \in SUBSET S /\ x \in S /\ x \notin T \ {x} /\ (T \ {x}) \cup {x} = T
        OBVIOUS
      <3> QED  BY <3>2, <3>3
    <2> QED  BY <2>1
  <1> QED  BY <1>1, SubsetsInduct

\* The sum of one element more.
LEMMA TotalAnd ==
    ASSUME NEW S, IsFiniteSet(S), NEW F, \A x \in S : F[x] \in Int,
           NEW T \in SUBSET S, NEW x \in S, x \notin T
    PROVE  /\ Total(F, T \cup {x}) = F[x] + Total(F, T)
           /\ F[x] \in Int /\ Total(F, T) \in Int
  <1>1. IsFiniteSet(T \cup {x}) /\ IsFiniteSet(T)
    BY FS_Subset
  <1>2. (T \cup {x}) \ {x} = T /\ x \in T \cup {x} /\ \A y \in T \cup {x} : F[y] \in Int
    OBVIOUS
  <1>3. Total(F, T \cup {x}) = F[x] + Total(F, (T \cup {x}) \ {x})
    BY <1>1, <1>2, TotalWith
  <1>4. Total(F, T) \in Int
    BY <1>1, TotalType
  <1> QED  BY <1>2, <1>3, <1>4

\* Nothing adds up to nothing.
LEMMA TotalOfNone == ASSUME NEW F PROVE Total(F, {}) = 0
  BY TotalSteps, FS_EmptySet

\* Functions that agree have one sum.
LEMMA TotalSame ==
    ASSUME NEW S, IsFiniteSet(S), NEW F, NEW G, \A x \in S : F[x] = G[x]
    PROVE  Total(F, S) = Total(G, S)
  <1> DEFINE U == {T \in SUBSET S : Total(F, T) = Total(G, T)}
  <1>1. ASSUME NEW T \in SUBSET S, \A R \in SUBSET T : R # T => R \in U PROVE T \in U
    <2>1. CASE T # {}
      <3>1. Pick(T) \in T /\ T \ {Pick(T)} \in U
        BY <1>1, <2>1, PickIn
      <3>2. IsFiniteSet(T)
        BY FS_Subset
      <3>3. /\ Total(F, T) = F[Pick(T)] + Total(F, T \ {Pick(T)})
            /\ Total(G, T) = G[Pick(T)] + Total(G, T \ {Pick(T)})
        BY <2>1, <3>2, TotalSteps
      <3> QED  BY <3>1, <3>3
    <2> QED  BY <2>1, TotalOfNone
  <1> HIDE DEF U
  <1>2. S \in U
    BY <1>1, SubsetsInduct
  <1> QED  BY <1>2 DEF U

\* What is 0 does not count.
LEMMA TotalOfCounted ==
    ASSUME NEW S, IsFiniteSet(S), NEW F, \A x \in S : F[x] \in Int,
           NEW R \in SUBSET S, \A x \in S \ R : F[x] = 0
    PROVE  Total(F, S) = Total(F, R)
  <1> DEFINE U == {T \in SUBSET S : Total(F, T) = Total(F, T \cap R)}
  <1>5. \A W \in SUBSET S, x \in S : x \notin W => Total(F, W \cup {x}) = F[x] + Total(F, W)
    BY TotalAnd
  <1>1. ASSUME NEW T \in SUBSET S, NEW x \in S, x \notin T, T \in U PROVE T \cup {x} \in U
    <2>1. /\ Total(F, T \cup {x}) = F[x] + Total(F, T)
          /\ F[x] \in Int /\ Total(F, T) \in Int
      BY <1>1, TotalAnd
    <2>2. CASE x \in R
      <3>1. Total(F, (T \cap R) \cup {x}) = F[x] + Total(F, T \cap R)
        <4>1. PICK W \in SUBSET S : W = T \cap R /\ x \notin W
          BY <1>1
        <4>2. Total(F, W \cup {x}) = F[x] + Total(F, W)
          BY <1>5, <4>1
        <4> QED  BY <4>1, <4>2
      <3>2. (T \cap R) \cup {x} = (T \cup {x}) \cap R
        BY <2>2
      <3> QED  BY <1>1, <2>1, <3>1, <3>2
    <2>3. CASE x \notin R
      <3>1. F[x] = 0 /\ (T \cup {x}) \cap R = T \cap R
        BY <2>3
      <3>2. Total(F, T \cup {x}) = Total(F, T)
        BY <2>1, <3>1
      <3> QED  BY <1>1, <3>1, <3>2
    <2> QED  BY <2>2, <2>3
  <1>2. {} \in U
    <2>1. {} \cap R = {}
      OBVIOUS
    <2> QED  BY <2>1
  <1> HIDE DEF U
  <1>3. S \in U
    BY <1>1, <1>2, Grow
  <1>4. S \cap R = R
    OBVIOUS
  <1> QED  BY <1>3, <1>4 DEF U

\* The sum of sums.
LEMMA TotalPlus ==
    ASSUME NEW S, IsFiniteSet(S), NEW F, NEW G, NEW H,
           \A x \in S : F[x] \in Int /\ G[x] \in Int /\ H[x] = F[x] + G[x]
    PROVE  Total(H, S) = Total(F, S) + Total(G, S)
  <1> DEFINE U == {T \in SUBSET S : Total(H, T) = Total(F, T) + Total(G, T)}
  <1>0. \A x \in S : H[x] \in Int
    OBVIOUS
  <1>1. ASSUME NEW T \in SUBSET S, NEW x \in S, x \notin T, T \in U PROVE T \cup {x} \in U
    <2>1. /\ Total(F, T \cup {x}) = F[x] + Total(F, T)
          /\ F[x] \in Int /\ Total(F, T) \in Int
      BY <1>1, TotalAnd
    <2>2. /\ Total(G, T \cup {x}) = G[x] + Total(G, T)
          /\ G[x] \in Int /\ Total(G, T) \in Int
      BY <1>1, TotalAnd
    <2>3. /\ Total(H, T \cup {x}) = H[x] + Total(H, T)
          /\ H[x] \in Int /\ Total(H, T) \in Int
      BY <1>0, <1>1, TotalAnd
    <2>4. H[x] = F[x] + G[x] /\ Total(H, T) = Total(F, T) + Total(G, T)
      BY <1>1
    <2>5. Total(H, T \cup {x}) = Total(F, T \cup {x}) + Total(G, T \cup {x})
      BY <2>1, <2>2, <2>3, <2>4
    <2> QED  BY <2>5
  <1>2. {} \in U
    BY TotalOfNone
  <1> HIDE DEF U
  <1>3. S \in U
    BY <1>1, <1>2, Grow
  <1> QED  BY <1>3 DEF U

\* The sum of multiples.
LEMMA TotalTimes ==
    ASSUME NEW S, IsFiniteSet(S), NEW F, NEW G, NEW n \in Int,
           \A x \in S : F[x] \in Int /\ G[x] = n * F[x]
    PROVE  Total(G, S) = n * Total(F, S)
  <1> DEFINE U == {T \in SUBSET S : Total(G, T) = n * Total(F, T)}
  <1>0. \A x \in S : G[x] \in Int
    OBVIOUS
  <1>1. ASSUME NEW T \in SUBSET S, NEW x \in S, x \notin T, T \in U PROVE T \cup {x} \in U
    <2>1. /\ Total(F, T \cup {x}) = F[x] + Total(F, T)
          /\ F[x] \in Int /\ Total(F, T) \in Int
      BY <1>1, TotalAnd
    <2>2. /\ Total(G, T \cup {x}) = G[x] + Total(G, T)
          /\ G[x] \in Int /\ Total(G, T) \in Int
      BY <1>0, <1>1, TotalAnd
    <2>4. G[x] = n * F[x] /\ Total(G, T) = n * Total(F, T)
      BY <1>1
    <2>5. \A a, b \in Int : n * a + n * b = n * (a + b)
      OBVIOUS
    <2>6. Total(G, T \cup {x}) = n * Total(F, T \cup {x})
      BY <2>1, <2>2, <2>4, <2>5
    <2> QED  BY <2>6
  <1>2. {} \in U
    BY TotalOfNone
  <1> HIDE DEF U
  <1>3. S \in U
    BY <1>1, <1>2, Grow
  <1> QED  BY <1>3 DEF U

\* Rows first or columns first.
LEMMA TotalSwaps ==
    ASSUME NEW S, IsFiniteSet(S), NEW R, IsFiniteSet(R), NEW M,
           \A x \in S, y \in R : M[x][y] \in Int
    PROVE  Total([x \in S |-> Total(M[x], R)], S)
             = Total([y \in R |-> Total([x \in S |-> M[x][y]], S)], R)
  <1> DEFINE Row(x) == M[x]
             F      == [x \in S |-> Total(M[x], R)]
             Col(y) == [x \in S |-> M[x][y]]
             G(T)   == [y \in R |-> Total(Col(y), T)]
             U      == {T \in SUBSET S : Total(F, T) = Total(G(T), R)}
  <1>0. /\ \A x \in S : F[x] \in Int /\ F[x] = Total(M[x], R)
        /\ \A y \in R : \A x \in S : Col(y)[x] \in Int /\ Col(y)[x] = M[x][y]
    BY TotalType
  <1>1. ASSUME NEW T \in SUBSET S, NEW x \in S, x \notin T, T \in U PROVE T \cup {x} \in U
    <2>1. /\ Total(F, T \cup {x}) = F[x] + Total(F, T)
          /\ F[x] \in Int /\ Total(F, T) \in Int
      BY <1>0, <1>1, TotalAnd
    <2>2. ASSUME NEW y \in R
          PROVE  /\ G(T \cup {x})[y] = M[x][y] + G(T)[y]
                 /\ M[x][y] \in Int /\ G(T)[y] \in Int
      <3> DEFINE C == Col(y)
      <3>1. /\ Total(C, T \cup {x}) = C[x] + Total(C, T)
            /\ C[x] \in Int /\ Total(C, T) \in Int
        <4>1. \A z \in S : C[z] \in Int
          BY <1>0
        <4> HIDE DEF C
        <4> QED  BY <1>1, <4>1, TotalAnd
      <3>2. C[x] = M[x][y] /\ G(T \cup {x})[y] = Total(C, T \cup {x}) /\ G(T)[y] = Total(C, T)
        OBVIOUS
      <3> HIDE DEF C, G
      <3> QED  BY <3>1, <3>2
    <2>3. Total(G(T \cup {x}), R) = Total(M[x], R) + Total(G(T), R)
      <3> HIDE DEF G
      <3> QED  BY <2>2, TotalPlus
    <2>4. F[x] = Total(M[x], R) /\ Total(F, T) = Total(G(T), R)
      BY <1>0, <1>1
    <2>5. Total(F, T \cup {x}) = Total(G(T \cup {x}), R)
      <3> HIDE DEF F, G
      <3> QED  BY <2>1, <2>3, <2>4
    <2> QED  BY <2>5
  <1>2. {} \in U
    <2>1. \A y \in R : G({})[y] = 0
      BY TotalOfNone
    <2> HIDE DEF G
    <2>2. Total(G({}), R) = Total(G({}), {})
      BY <2>1, TotalOfCounted
    <2> QED  BY <2>2, TotalOfNone
  <1> HIDE DEF U
  <1>3. S \in U
    BY <1>1, <1>2, Grow
  <1> QED  BY <1>3 DEF U

\* Sums of natural numbers are natural numbers.
LEMMA TotalNat ==
    ASSUME NEW S, IsFiniteSet(S), NEW F, \A x \in S : F[x] \in Nat
    PROVE  Total(F, S) \in Nat
  <1> DEFINE U == {T \in SUBSET S : Total(F, T) \in Nat}
  <1>0. \A x \in S : F[x] \in Int
    OBVIOUS
  <1>1. ASSUME NEW T \in SUBSET S, NEW x \in S, x \notin T, T \in U PROVE T \cup {x} \in U
    <2>1. Total(F, T \cup {x}) = F[x] + Total(F, T)
      BY <1>0, <1>1, TotalAnd
    <2>2. F[x] \in Nat /\ Total(F, T) \in Nat
      BY <1>1
    <2>3. Total(F, T \cup {x}) \in Nat
      BY <2>1, <2>2
    <2> QED  BY <2>3
  <1>2. {} \in U
    BY TotalOfNone
  <1> HIDE DEF U
  <1>3. S \in U
    BY <1>1, <1>2, Grow
  <1> QED  BY <1>3 DEF U

\* The points of some items in a game.
LEMMA ValuesAddUp ==
    ASSUME NEW g, NEW p, NEW S, IsFiniteSet(S)
    PROVE  Stats!Sum(LAMBDA i : Value[i] * count[g][p][i], S) = Total([i \in S |-> Value[i] * count[g][p][i]], S)
  <1> DEFINE F    == [i \in S |-> Value[i] * count[g][p][i]]
             P(k) == k = [s \in SUBSET S |-> IF s = {} THEN 0 ELSE Value[Pick(s)] * count[g][p][Pick(s)] + k[s \ {Pick(s)}]]
  <1>1. Stats!Sum(LAMBDA i : Value[i] * count[g][p][i], S) = (CHOOSE k : P(k))[S]
    BY DEF Pick, Stats!Sum, Stats!MapThenSumSet, Stats!MapThenFoldSet
  <1>2. \A k : P(k) <=> AddsUp(k, F, S)
    <2>1. \A s \in SUBSET S : s # {} => F[Pick(s)] = Value[Pick(s)] * count[g][p][Pick(s)]
      BY PickIn
    <2> HIDE DEF F
    <2> QED  BY <2>1 DEF AddsUp
  <1> HIDE DEF P, F
  <1>3. \E k : P(k)
    BY <1>2, SomeAddsUp
  <1>4. P(CHOOSE k : P(k))
    BY <1>3
  <1>5. Total(F, S) = (CHOOSE k : P(k))[S]
    BY <1>2, <1>4, TotalIs
  <1> QED  BY <1>1, <1>5 DEF F

\* The points of some players in a game.
LEMMA PointsAddUp ==
    ASSUME NEW g, NEW S, IsFiniteSet(S)
    PROVE  Stats!Sum(LAMBDA p : Stats!PointsIn(g, p), S) = Total([p \in S |-> Stats!PointsIn(g, p)], S)
  <1> DEFINE F    == [p \in S |-> Stats!PointsIn(g, p)]
             P(k) == k = [s \in SUBSET S |-> IF s = {} THEN 0 ELSE Stats!PointsIn(g, Pick(s)) + k[s \ {Pick(s)}]]
  <1>1. Stats!Sum(LAMBDA p : Stats!PointsIn(g, p), S) = (CHOOSE k : P(k))[S]
    BY DEF Pick, Stats!Sum, Stats!MapThenSumSet, Stats!MapThenFoldSet
  <1>2. \A k : P(k) <=> AddsUp(k, F, S)
    <2>1. \A s \in SUBSET S : s # {} => F[Pick(s)] = Stats!PointsIn(g, Pick(s))
      BY PickIn
    <2> HIDE DEF F
    <2> QED  BY <2>1 DEF AddsUp
  <1> HIDE DEF P, F
  <1>3. \E k : P(k)
    BY <1>2, SomeAddsUp
  <1>4. P(CHOOSE k : P(k))
    BY <1>3
  <1>5. Total(F, S) = (CHOOSE k : P(k))[S]
    BY <1>2, <1>4, TotalIs
  <1> QED  BY <1>1, <1>5 DEF F

\* The points of a player in some games.
LEMMA GamesAddUp ==
    ASSUME NEW p, NEW S, IsFiniteSet(S)
    PROVE  Stats!Sum(LAMBDA g : Stats!PointsIn(g, p), S) = Total([g \in S |-> Stats!PointsIn(g, p)], S)
  <1> DEFINE F    == [g \in S |-> Stats!PointsIn(g, p)]
             P(k) == k = [s \in SUBSET S |-> IF s = {} THEN 0 ELSE Stats!PointsIn(Pick(s), p) + k[s \ {Pick(s)}]]
  <1>1. Stats!Sum(LAMBDA g : Stats!PointsIn(g, p), S) = (CHOOSE k : P(k))[S]
    BY DEF Pick, Stats!Sum, Stats!MapThenSumSet, Stats!MapThenFoldSet
  <1>2. \A k : P(k) <=> AddsUp(k, F, S)
    <2>1. \A s \in SUBSET S : s # {} => F[Pick(s)] = Stats!PointsIn(Pick(s), p)
      BY PickIn
    <2> HIDE DEF F
    <2> QED  BY <2>1 DEF AddsUp
  <1> HIDE DEF P, F
  <1>3. \E k : P(k)
    BY <1>2, SomeAddsUp
  <1>4. P(CHOOSE k : P(k))
    BY <1>3
  <1>5. Total(F, S) = (CHOOSE k : P(k))[S]
    BY <1>2, <1>4, TotalIs
  <1> QED  BY <1>1, <1>5 DEF F

\* The rows of a player and an item in some games.
LEMMA CountsAddUp ==
    ASSUME NEW p, NEW i, NEW S, IsFiniteSet(S)
    PROVE  Stats!Sum(LAMBDA g : count[g][p][i], S) = Total([g \in S |-> count[g][p][i]], S)
  <1> DEFINE F    == [g \in S |-> count[g][p][i]]
             P(k) == k = [s \in SUBSET S |-> IF s = {} THEN 0 ELSE count[Pick(s)][p][i] + k[s \ {Pick(s)}]]
  <1>1. Stats!Sum(LAMBDA g : count[g][p][i], S) = (CHOOSE k : P(k))[S]
    BY DEF Pick, Stats!Sum, Stats!MapThenSumSet, Stats!MapThenFoldSet
  <1>2. \A k : P(k) <=> AddsUp(k, F, S)
    <2>1. \A s \in SUBSET S : s # {} => F[Pick(s)] = count[Pick(s)][p][i]
      BY PickIn
    <2> HIDE DEF F
    <2> QED  BY <2>1 DEF AddsUp
  <1> HIDE DEF P, F
  <1>3. \E k : P(k)
    BY <1>2, SomeAddsUp
  <1>4. P(CHOOSE k : P(k))
    BY <1>3
  <1>5. Total(F, S) = (CHOOSE k : P(k))[S]
    BY <1>2, <1>4, TotalIs
  <1> QED  BY <1>1, <1>5 DEF F

\* The points of some items in some games.
LEMMA ItemsAddUp ==
    ASSUME NEW p, NEW scope, NEW S, IsFiniteSet(S)
    PROVE  Stats!Sum(LAMBDA i : Value[i] * Stats!ItemCount(p, i, scope), S) = Total([i \in S |-> Value[i] * Stats!ItemCount(p, i, scope)], S)
  <1> DEFINE F    == [i \in S |-> Value[i] * Stats!ItemCount(p, i, scope)]
             P(k) == k = [s \in SUBSET S |-> IF s = {} THEN 0 ELSE Value[Pick(s)] * Stats!ItemCount(p, Pick(s), scope) + k[s \ {Pick(s)}]]
  <1>1. Stats!Sum(LAMBDA i : Value[i] * Stats!ItemCount(p, i, scope), S) = (CHOOSE k : P(k))[S]
    BY DEF Pick, Stats!Sum, Stats!MapThenSumSet, Stats!MapThenFoldSet
  <1>2. \A k : P(k) <=> AddsUp(k, F, S)
    <2>1. \A s \in SUBSET S : s # {} => F[Pick(s)] = Value[Pick(s)] * Stats!ItemCount(p, Pick(s), scope)
      BY PickIn
    <2> HIDE DEF F
    <2> QED  BY <2>1 DEF AddsUp
  <1> HIDE DEF P, F
  <1>3. \E k : P(k)
    BY <1>2, SomeAddsUp
  <1>4. P(CHOOSE k : P(k))
    BY <1>3
  <1>5. Total(F, S) = (CHOOSE k : P(k))[S]
    BY <1>2, <1>4, TotalIs
  <1> QED  BY <1>1, <1>5 DEF F

\* The values of a summary.
LEMMA RowAddsUp ==
    ASSUME NEW row, NEW S, IsFiniteSet(S)
    PROVE  Stats!Sum(LAMBDA i : row[i].value, S) = Total([i \in S |-> row[i].value], S)
  <1> DEFINE F    == [i \in S |-> row[i].value]
             P(k) == k = [s \in SUBSET S |-> IF s = {} THEN 0 ELSE row[Pick(s)].value + k[s \ {Pick(s)}]]
  <1>1. Stats!Sum(LAMBDA i : row[i].value, S) = (CHOOSE k : P(k))[S]
    BY DEF Pick, Stats!Sum, Stats!MapThenSumSet, Stats!MapThenFoldSet
  <1>2. \A k : P(k) <=> AddsUp(k, F, S)
    <2>1. \A s \in SUBSET S : s # {} => F[Pick(s)] = row[Pick(s)].value
      BY PickIn
    <2> HIDE DEF F
    <2> QED  BY <2>1 DEF AddsUp
  <1> HIDE DEF P, F
  <1>3. \E k : P(k)
    BY <1>2, SomeAddsUp
  <1>4. P(CHOOSE k : P(k))
    BY <1>3
  <1>5. Total(F, S) = (CHOOSE k : P(k))[S]
    BY <1>2, <1>4, TotalIs
  <1> QED  BY <1>1, <1>5 DEF F

\* Rows are of players who are in the game.
StatInv ==
    /\ Stats!TypeOK
    /\ \A g \in Games, p \in Players, i \in Items : count[g][p][i] # 0 => Side[g][p] # "out"

\* There are no rows at first.
LEMMA StatsBegin == Stats!Init => StatInv
  BY DEF Stats!Init, StatInv, Stats!TypeOK

\* Only a player of a side gets a row.
LEMMA StatsKeep == StatInv /\ [Stats!Next]_(Stats!vars) => StatInv'
  <1> SUFFICES ASSUME StatInv, [Stats!Next]_(Stats!vars) PROVE StatInv'
    OBVIOUS
  <1>1. CASE UNCHANGED Stats!vars
    BY <1>1 DEF Stats!vars, StatInv, Stats!TypeOK
  <1>2. ASSUME NEW g \in Games, NEW p \in Players, NEW i \in Items, Stats!RecordLog(g, p, i)
        PROVE  StatInv'
    <2>1. /\ count' = [count EXCEPT ![g][p][i] = @ + 1] /\ UNCHANGED <<gameStatus, deleted>>
          /\ Side[g][p] # "out"
      BY <1>2 DEF Stats!RecordLog
    <2>2. count \in [Games -> [Players -> [Items -> Nat]]]
      BY DEF StatInv, Stats!TypeOK
    <2>3. count' \in [Games -> [Players -> [Items -> Nat]]]
      BY <2>1, <2>2
    <2>4. \A h \in Games, q \in Players, j \in Items :
             count'[h][q][j] = IF h = g /\ q = p /\ j = i THEN count[g][p][i] + 1 ELSE count[h][q][j]
      BY <2>1, <2>2
    <2> QED  BY <2>1, <2>3, <2>4 DEF StatInv, Stats!TypeOK
  <1>3. ASSUME NEW g \in Games, NEW s \in {"IN_PROGRESS", "FINISHED", "DELETED"}, Stats!UpdateGameStatus(g, s)
        PROVE  StatInv'
    BY <1>3 DEF Stats!UpdateGameStatus, StatInv, Stats!TypeOK
  <1>4. ASSUME NEW p \in Players, Stats!DeletePlayer(p) PROVE StatInv'
    BY <1>4 DEF Stats!DeletePlayer, StatInv, Stats!TypeOK
  <1> QED  BY <1>1, <1>2, <1>3, <1>4 DEF Stats!Next

\* The points of a player in a game.
LEMMA PointsInIs ==
    ASSUME StatBounds, StatInv, NEW g \in Games, NEW p \in Players
    PROVE  /\ Stats!PointsIn(g, p) = Total([i \in Items |-> Value[i] * count[g][p][i]], Items)
           /\ \A i \in Items : Value[i] \in Int /\ count[g][p][i] \in Nat
           /\ Stats!PointsIn(g, p) \in Int
           /\ Side[g][p] = "out" => Stats!PointsIn(g, p) = 0
  <1> DEFINE F == [i \in Items |-> Value[i] * count[g][p][i]]
  <1>1. IsFiniteSet(Items) /\ \A i \in Items : Value[i] \in Int /\ count[g][p][i] \in Nat
    BY DEF StatBounds, StatInv, Stats!TypeOK
  <1>2. Stats!PointsIn(g, p) = Total(F, Items)
    BY <1>1, ValuesAddUp DEF Stats!PointsIn
  <1>3. \A i \in Items : F[i] \in Int /\ (Side[g][p] = "out" => F[i] = 0)
    <2> SUFFICES ASSUME NEW i \in Items PROVE F[i] \in Int /\ (Side[g][p] = "out" => F[i] = 0)
      OBVIOUS
    <2>1. Side[g][p] = "out" => count[g][p][i] = 0
      BY DEF StatInv
    <2>2. \A n \in Int : n * 0 = 0
      OBVIOUS
    <2>3. F[i] = Value[i] * count[g][p][i]
      OBVIOUS
    <2> QED  BY <1>1, <2>1, <2>2, <2>3
  <1> HIDE DEF F
  <1>4. Total(F, Items) \in Int
    BY <1>1, <1>3, TotalType
  <1>5. Side[g][p] = "out" => Total(F, Items) = 0
    <2> SUFFICES ASSUME Side[g][p] = "out" PROVE Total(F, Items) = 0
      OBVIOUS
    <2>1. Total(F, Items) = Total(F, {})
      BY <1>1, <1>3, TotalOfCounted
    <2> QED  BY <2>1, TotalOfNone
  <1> QED  BY <1>1, <1>2, <1>4, <1>5 DEF F

\* The points of some players.
LEMMA SumOfPlayers ==
    ASSUME StatBounds, StatInv, NEW g \in Games, NEW P \in SUBSET Players
    PROVE  /\ IsFiniteSet(P)
           /\ Stats!Sum(LAMBDA p : Stats!PointsIn(g, p), P) = Total([p \in P |-> Stats!PointsIn(g, p)], P)
           /\ Stats!Sum(LAMBDA p : Stats!PointsIn(g, p), P) \in Int
           /\ \A R \in SUBSET P : (\A p \in P \ R : Stats!PointsIn(g, p) = 0)
                => Stats!Sum(LAMBDA p : Stats!PointsIn(g, p), P) = Stats!Sum(LAMBDA p : Stats!PointsIn(g, p), R)
  <1>1. IsFiniteSet(P)
    BY FS_Subset DEF StatBounds
  <1> DEFINE F(R) == [p \in R |-> Stats!PointsIn(g, p)]
  <1>2. \A R \in SUBSET P : IsFiniteSet(R) /\ Stats!Sum(LAMBDA p : Stats!PointsIn(g, p), R) = Total(F(R), R)
    BY <1>1, FS_Subset, PointsAddUp
  <1>3. \A p \in P : F(P)[p] \in Int
    BY PointsInIs
  <1>4. Total(F(P), P) \in Int
    <2> HIDE DEF F
    <2> QED  BY <1>1, <1>3, TotalType
  <1>5. ASSUME NEW R \in SUBSET P, \A p \in P \ R : Stats!PointsIn(g, p) = 0
        PROVE  Total(F(P), P) = Total(F(R), R)
    <2>1. \A p \in P \ R : F(P)[p] = 0
      BY <1>5
    <2>2. \A p \in R : F(P)[p] = F(R)[p]
      OBVIOUS
    <2> HIDE DEF F
    <2>3. Total(F(P), P) = Total(F(P), R)
      BY <1>1, <1>3, <2>1, TotalOfCounted
    <2>4. Total(F(P), R) = Total(F(R), R)
      BY <1>2, <2>2, TotalSame
    <2> QED  BY <2>3, <2>4
  <1>6. P \in SUBSET P
    OBVIOUS
  <1> HIDE DEF F
  <1> QED  BY <1>1, <1>2, <1>4, <1>5, <1>6 DEF F

\* Finite sets of an instance are those of the library.
LEMMA StatsFiniteSets ==
    \A S : /\ Stats!IsFiniteSet(S) <=> IsFiniteSet(S)
           /\ Stats!Cardinality(S) = Cardinality(S)
  BY DEF Stats!IsFiniteSet, IsFiniteSet, Stats!Cardinality, Cardinality

\* The values of some players' summaries in a game.
LEMMA SummariesAddUp ==
    ASSUME NEW g, NEW S, IsFiniteSet(S)
    PROVE  Stats!Sum(LAMBDA p : (LET row == Stats!LogSummary(g, p) IN Stats!Sum(LAMBDA i : row[i].value, DOMAIN row)), S) = Total([p \in S |-> (LET row == Stats!LogSummary(g, p) IN Stats!Sum(LAMBDA i : row[i].value, DOMAIN row))], S)
  <1> DEFINE F    == [p \in S |-> (LET row == Stats!LogSummary(g, p) IN Stats!Sum(LAMBDA i : row[i].value, DOMAIN row))]
             P(k) == k = [s \in SUBSET S |-> IF s = {} THEN 0 ELSE (LET row == Stats!LogSummary(g, Pick(s)) IN Stats!Sum(LAMBDA i : row[i].value, DOMAIN row)) + k[s \ {Pick(s)}]]
  <1>1. Stats!Sum(LAMBDA p : (LET row == Stats!LogSummary(g, p) IN Stats!Sum(LAMBDA i : row[i].value, DOMAIN row)), S) = (CHOOSE k : P(k))[S]
    BY DEF Pick, Stats!Sum, Stats!MapThenSumSet, Stats!MapThenFoldSet
  <1>2. \A k : P(k) <=> AddsUp(k, F, S)
    <2>1. \A s \in SUBSET S : s # {} => F[Pick(s)] = (LET row == Stats!LogSummary(g, Pick(s)) IN Stats!Sum(LAMBDA i : row[i].value, DOMAIN row))
      BY PickIn
    <2> HIDE DEF F
    <2> QED  BY <2>1 DEF AddsUp
  <1> HIDE DEF P, F
  <1>3. \E k : P(k)
    BY <1>2, SomeAddsUp
  <1>4. P(CHOOSE k : P(k))
    BY <1>3
  <1>5. Total(F, S) = (CHOOSE k : P(k))[S]
    BY <1>2, <1>4, TotalIs
  <1> QED  BY <1>1, <1>5 DEF F

\* The values of a summary, for all of its items.
Worth(row) == Stats!Sum(LAMBDA i : row[i].value, DOMAIN row)

\* It is a sum.
LEMMA WorthIs ==
    ASSUME NEW row, IsFiniteSet(DOMAIN row)
    PROVE  Worth(row) = Total([i \in DOMAIN row |-> row[i].value], DOMAIN row)
  BY RowAddsUp DEF Worth

\* A summary of a player's rows is worth the points of the rows.
LEMMA SummaryIsPoints ==
    ASSUME StatBounds, StatInv, NEW g \in Games, NEW p \in Players, NEW row, row = Stats!LogSummary(g, p)
    PROVE  Worth(row) = Stats!PointsIn(g, p)
  <1> DEFINE D == {i \in Items : count[g][p][i] > 0}
             F == [i \in Items |-> Value[i] * count[g][p][i]]
             G == [i \in D |-> row[i].value]
  <1>1. IsFiniteSet(Items) /\ (\A i \in Items : Value[i] \in Int /\ count[g][p][i] \in Nat)
        /\ Stats!PointsIn(g, p) = Total(F, Items)
    BY PointsInIs DEF StatBounds
  <1>2. DOMAIN row = D /\ \A i \in D : row[i].value = count[g][p][i] * Value[i]
    BY DEF Stats!LogSummary
  <1>3. \A i \in D : G[i] = F[i]
    BY <1>1, <1>2
  <1>4. \A i \in Items \ D : count[g][p][i] = 0
    BY <1>1
  <1>5. \A i \in Items : F[i] \in Int
    BY <1>1
  <1>6. \A i \in Items \ D : F[i] = 0
    <2>1. \A n \in Int : n * 0 = 0
      OBVIOUS
    <2> QED  BY <1>1, <1>4, <2>1
  <1>7. D \in SUBSET Items /\ IsFiniteSet(D)
    BY <1>1, FS_Subset
  <1>8. Worth(row) = Total(G, D)
    <2>1. IsFiniteSet(DOMAIN row)
      BY <1>2, <1>7
    <2>2. Worth(row) = Total([i \in DOMAIN row |-> row[i].value], DOMAIN row)
      BY <2>1, WorthIs
    <2> QED  BY <1>2, <2>2
  <1> HIDE DEF D, F, G
  <1>9. Total(F, Items) = Total(F, D) /\ Total(G, D) = Total(F, D)
    BY <1>1, <1>3, <1>5, <1>6, <1>7, TotalOfCounted, TotalSame
  <1> QED  BY <1>1, <1>8, <1>9

\* The cards of the first page count what is listed on them.
LEMMA CardsAddUp ==
    ASSUME StatBounds, StatInv, NEW g \in Games, NEW t \in {"home", "away"}
    PROVE  Stats!CardScore(g)[t] = Stats!Sum(LAMBDA p : (LET row == Stats!LogSummary(g, p) IN
               Stats!Sum(LAMBDA i : row[i].value, DOMAIN row)), Stats!CardPlayers(g, t))
  <1> DEFINE P == Stats!CardPlayers(g, t)
             F == [p \in P |-> Stats!PointsIn(g, p)]
             G == [p \in P |-> (LET row == Stats!LogSummary(g, p) IN Stats!Sum(LAMBDA i : row[i].value, DOMAIN row))]
  <1>1. P \in SUBSET Players
    BY DEF Stats!CardPlayers, Stats!Live
  <1>2. \A p \in P : F[p] = G[p]
    <2> TAKE p \in P
    <2>1. PICK row : row = Stats!LogSummary(g, p)
      OBVIOUS
    <2>3. p \in Players
      BY <1>1
    <2> HIDE DEF P
    <2>2. Worth(row) = Stats!PointsIn(g, p)
      BY <2>1, <2>3, SummaryIsPoints
    <2>4. F[p] = Stats!PointsIn(g, p)
      OBVIOUS
    <2>5. G[p] = Worth(Stats!LogSummary(g, p))
      BY DEF Worth
    <2> HIDE DEF F, G
    <2> QED  BY <2>1, <2>2, <2>4, <2>5
  <1>3. IsFiniteSet(P) /\ Stats!Sum(LAMBDA p : Stats!PointsIn(g, p), P) = Total(F, P)
    BY <1>1, SumOfPlayers
  <1>4. Stats!CardScore(g)[t] = Total(F, P)
    BY <1>3 DEF Stats!CardScore
  <1>5. Stats!Sum(LAMBDA p : (LET row == Stats!LogSummary(g, p) IN
               Stats!Sum(LAMBDA i : row[i].value, DOMAIN row)), P) = Total(G, P)
    BY <1>3, SummariesAddUp
  <1> HIDE DEF F, G
  <1>6. Total(F, P) = Total(G, P)
    BY <1>2, <1>3, TotalSame
  <1> QED  BY <1>4, <1>5, <1>6

\* A team scores a number.
LEMMA TeamScores ==
    ASSUME StatBounds, StatInv, NEW g \in Games, NEW t
    PROVE  Stats!TeamScore(g, t) \in Int
  <1>1. {p \in Stats!Live : Side[g][p] = t} \in SUBSET Players
    BY DEF Stats!Live
  <1> QED  BY <1>1, SumOfPlayers DEF Stats!TeamScore

\* A game is won on its card if and only if it is won for the impact of a player.
LEMMA ResultsAreThoseOfCards ==
    ASSUME StatBounds, StatInv, NEW p \in Players, NEW g \in Games, Side[g][p] # "out"
    PROVE  Stats!Letter(Stats!Margin(g, p))
             = [win |-> "W", lose |-> "L", draw |-> "D"][Stats!CardResult(g, Side[g][p])]
  <1>1. PICK t \in {"home", "away"} : t = Side[g][p]
    BY DEF StatBounds
  <1>2. PICK u \in {"home", "away"} : u = Stats!Opponent(t)
    BY DEF Stats!Opponent
  <1>3. Stats!CardScore(g)[t] = Stats!TeamScore(g, t) /\ Stats!CardScore(g)[u] = Stats!TeamScore(g, u)
    BY DEF Stats!CardScore, Stats!CardPlayers, Stats!TeamScore
  <1>4. PICK a \in Int : a = Stats!TeamScore(g, t)
    BY TeamScores
  <1>5. PICK b \in Int : b = Stats!TeamScore(g, u)
    BY TeamScores
  <1>6. Stats!Letter(Stats!Margin(g, p)) = IF a - b > 0 THEN "W" ELSE IF a - b < 0 THEN "L" ELSE "D"
    BY <1>1, <1>2, <1>4, <1>5 DEF Stats!Letter, Stats!Margin
  <1>7. Stats!CardResult(g, Side[g][p]) = IF a > b THEN "win" ELSE IF a < b THEN "lose" ELSE "draw"
    BY <1>1, <1>2, <1>3, <1>4, <1>5 DEF Stats!CardResult
  <1>8. (a - b > 0 <=> a > b) /\ (a - b < 0 <=> a < b)
    OBVIOUS
  <1>9. CASE a > b
    BY <1>6, <1>7, <1>8, <1>9
  <1>10. CASE a < b
    <2>1. ~(a > b)
      BY <1>10
    <2> QED  BY <1>6, <1>7, <1>8, <1>10, <2>1
  <1>11. CASE ~(a > b) /\ ~(a < b)
    BY <1>6, <1>7, <1>8, <1>11
  <1> QED  BY <1>9, <1>10, <1>11

\* The record page counts who is not a home player for the other side, and is right
\* unless one of them is deleted and has scored.
LEMMA ScoreboardsAgree ==
    ASSUME StatBounds, StatInv, NEW g \in Games, \A p \in deleted : Stats!PointsIn(g, p) = 0
    PROVE  Stats!Scoreboard(g) = Stats!DailyScore(g)
  <1> DEFINE H == Stats!HomePlayers(g)
             A == {p \in Stats!Live : Side[g][p] = "away"}
             N == Players \ H
  <1>1. H \in SUBSET Players /\ N \in SUBSET Players /\ A \in SUBSET N
    BY DEF Stats!HomePlayers, Stats!Live
  <1>2. \A p \in N \ A : Stats!PointsIn(g, p) = 0
    <2> TAKE p \in N \ A
    <2>1. CASE p \in deleted
      BY <2>1
    <2>2. CASE p \notin deleted
      <3>1. Side[g][p] = "out"
        BY <2>2 DEF Stats!HomePlayers, Stats!Live, StatBounds
      <3> QED  BY <3>1, PointsInIs
    <2> QED  BY <2>1, <2>2
  <1>3. Stats!Sum(LAMBDA p : Stats!PointsIn(g, p), N) = Stats!Sum(LAMBDA p : Stats!PointsIn(g, p), A)
    BY <1>1, <1>2, SumOfPlayers
  <1> DEFINE x == Stats!Sum(LAMBDA p : Stats!PointsIn(g, p), H)
             y == Stats!Sum(LAMBDA p : Stats!PointsIn(g, p), A)
  <1>4. Stats!Scoreboard(g) = [home |-> x, away |-> y]
    BY <1>3 DEF Stats!Scoreboard
  <1>5. Stats!DailyScore(g) = [t \in {"home", "away"} |-> IF t = "home" THEN x ELSE y]
    BY DEF Stats!DailyScore, Stats!HomePlayers
  <1> HIDE DEF x, y
  <1>6. [home |-> x, away |-> y] = [t \in {"home", "away"} |-> IF t = "home" THEN x ELSE y]
    OBVIOUS
  <1> QED  BY <1>4, <1>5, <1>6

\* The rows of a player and an item over some games.
LEMMA CountsOver ==
    ASSUME StatBounds, StatInv, NEW p \in Players, NEW i \in Items, NEW S \in SUBSET Games
    PROVE  /\ IsFiniteSet(S)
           /\ Stats!Sum(LAMBDA g : count[g][p][i], S) = Total([g \in S |-> count[g][p][i]], S)
           /\ Stats!Sum(LAMBDA g : count[g][p][i], S) \in Nat
           /\ \A g \in S : count[g][p][i] \in Nat
  <1> DEFINE F == [g \in S |-> count[g][p][i]]
  <1>1. IsFiniteSet(S)
    BY FS_Subset DEF StatBounds
  <1>2. Stats!Sum(LAMBDA g : count[g][p][i], S) = Total(F, S)
    BY <1>1, CountsAddUp
  <1>3. \A g \in S : F[g] = count[g][p][i] /\ F[g] \in Nat
    BY DEF StatInv, Stats!TypeOK
  <1> HIDE DEF F
  <1>4. Total(F, S) \in Nat
    BY <1>1, <1>3, TotalNat
  <1> QED  BY <1>1, <1>2, <1>3, <1>4 DEF F

\* Points by item are points by game.
LEMMA PointsByGame ==
    ASSUME StatBounds, StatInv, NEW p \in Players, NEW scope \in SUBSET Games
    PROVE  Stats!Points(p, scope)
             = Total([g \in scope \cap Stats!Counted |-> Stats!PointsIn(g, p)], scope \cap Stats!Counted)
  <1> DEFINE S == scope \cap Stats!Counted
             M == [i \in Items |-> [g \in S |-> Value[i] * count[g][p][i]]]
             C(i) == [g \in S |-> count[g][p][i]]
             V(g) == [i \in Items |-> Value[i] * count[g][p][i]]
             I == [i \in Items |-> Value[i] * Stats!ItemCount(p, i, scope)]
             R == [i \in Items |-> Total(M[i], S)]
             Q == [g \in S |-> Total([i \in Items |-> M[i][g]], Items)]
             P == [g \in S |-> Stats!PointsIn(g, p)]
  <1>1. IsFiniteSet(Items) /\ S \in SUBSET Games /\ IsFiniteSet(S)
    BY FS_Subset DEF StatBounds
  <1>2. \A i \in Items, g \in S : Value[i] \in Int /\ count[g][p][i] \in Nat /\ M[i][g] \in Int
    BY DEF StatBounds, StatInv, Stats!TypeOK
  <1>3. ASSUME NEW i \in Items PROVE I[i] = R[i]
    <2>1. Stats!ItemCount(p, i, scope) = Total(C(i), S)
      BY <1>1, CountsOver DEF Stats!ItemCount
    <2>2. \A g \in S : C(i)[g] \in Int /\ M[i][g] = Value[i] * C(i)[g]
      BY <1>2
    <2>3. Value[i] \in Int
      BY DEF StatBounds
    <2>4. Total(M[i], S) = Value[i] * Total(C(i), S)
      <3> HIDE DEF C, M, S
      <3> QED  BY <1>1, <2>2, <2>3, TotalTimes
    <2> QED  BY <2>1, <2>4
  <1>4. Stats!Points(p, scope) = Total(I, Items)
    BY <1>1, ItemsAddUp DEF Stats!Points
  <1>5. Total(I, Items) = Total(R, Items)
    <2> HIDE DEF I, R
    <2> QED  BY <1>1, <1>3, TotalSame
  <1>6. Total(R, Items) = Total(Q, S)
    <2> HIDE DEF S, M
    <2> QED  BY <1>1, <1>2, TotalSwaps
  <1>7. \A g \in S : Q[g] = P[g]
    <2> TAKE g \in S
    <2>1. [i \in Items |-> M[i][g]] = V(g)
      OBVIOUS
    <2>2. Stats!PointsIn(g, p) = Total(V(g), Items)
      BY <1>1, PointsInIs
    <2> QED  BY <2>1, <2>2
  <1>8. Total(Q, S) = Total(P, S)
    <2> HIDE DEF Q, P, S
    <2> QED  BY <1>1, <1>7, TotalSame
  <1> QED  BY <1>4, <1>5, <1>6, <1>8

\* A player's page shows the points of the rankings, unless deleted games had some.
LEMMA PageScoresAgree ==
    ASSUME StatBounds, StatInv, NEW p \in Players,
           \A g \in Games \ Stats!Counted : Stats!PointsIn(g, p) = 0
    PROVE  Stats!PageScore(p, Stats!AllGames) = Stats!Points(p, Stats!AllGames)
  <1> DEFINE S == Stats!PageGames(p, Games)
             T == Games \cap Stats!Counted
             F == [g \in Games |-> Stats!PointsIn(g, p)]
             FS == [g \in S |-> Stats!PointsIn(g, p)]
             FT == [g \in T |-> Stats!PointsIn(g, p)]
  <1>1. IsFiniteSet(Games) /\ S \in SUBSET Games /\ T \in SUBSET Games /\ IsFiniteSet(S) /\ IsFiniteSet(T)
    BY FS_Subset DEF StatBounds, Stats!PageGames
  <1>2. \A g \in Games : F[g] \in Int
    BY PointsInIs
  <1>3. \A g \in Games \ S : F[g] = 0
    <2> TAKE g \in Games \ S
    <2>1. \A i \in Items : ~(count[g][p][i] > 0)
      BY DEF Stats!PageGames
    <2>2. \A i \in Items : Value[i] \in Int /\ count[g][p][i] \in Nat
      BY PointsInIs
    <2>3. \A i \in Items : Value[i] * count[g][p][i] = 0
      <3> TAKE i \in Items
      <3>1. count[g][p][i] = 0 /\ Value[i] \in Int
        BY <2>1, <2>2
      <3>2. \A n \in Int : n * 0 = 0
        OBVIOUS
      <3> QED  BY <3>1, <3>2
    <2> DEFINE V == [i \in Items |-> Value[i] * count[g][p][i]]
    <2>4. \A i \in Items : V[i] = 0
      BY <2>3
    <2>5. Stats!PointsIn(g, p) = Total(V, Items)
      BY PointsInIs
    <2> HIDE DEF V
    <2>6. Total(V, Items) = 0
      <3>1. IsFiniteSet(Items)
        BY DEF StatBounds
      <3>2. Total(V, Items) = Total(V, {})
        BY <2>4, <3>1, TotalOfCounted
      <3> QED  BY <3>2, TotalOfNone
    <2> QED  BY <2>5, <2>6
  <1>4. \A g \in Games \ T : F[g] = 0
    OBVIOUS
  <1>5. (\A g \in S : F[g] = FS[g]) /\ (\A g \in T : F[g] = FT[g])
    BY <1>1
  <1>6. Stats!PageScore(p, Games) = Total(FS, S)
    BY <1>1, GamesAddUp DEF Stats!PageScore
  <1>7. Stats!Points(p, Games) = Total(FT, T)
    BY PointsByGame
  <1> HIDE DEF S, T, F, FS, FT
  <1>8. Total(F, Games) = Total(F, S) /\ Total(F, Games) = Total(F, T)
    BY <1>1, <1>2, <1>3, <1>4, TotalOfCounted
  <1>9. Total(F, S) = Total(FS, S) /\ Total(F, T) = Total(FT, T)
    BY <1>1, <1>5, TotalSame
  <1> QED  BY <1>6, <1>7, <1>8, <1>9 DEF Stats!AllGames

\* A rounded average does not grow with what it is divided by.
LEMMA RoundFalls ==
    ASSUME NEW a \in Nat, NEW b \in Nat \ {0}, NEW c \in Nat, b <= c
    PROVE  Stats!Round(a, b) >= Stats!Round(a, c)
  <1>1. PICK q \in Int, r \in Int : q = (2 * a + c) \div (2 * c) /\ 2 * a + c = (2 * c) * q + r /\ r >= 0
    OBVIOUS
  <1>2. PICK s \in Int, t \in Int : s = (2 * a + b) \div (2 * b) /\ 2 * a + b = (2 * b) * s + t /\ t >= 0 /\ t < 2 * b
    OBVIOUS
  <1>3. c * (2 * q - 1) <= 2 * a
    BY <1>1
  <1>4. b * (2 * q - 1) <= 2 * a
    <2>1. CASE 2 * q - 1 >= 0
      <3>1. b * (2 * q - 1) <= c * (2 * q - 1)
        BY <2>1
      <3> QED  BY <1>3, <3>1
    <2>2. CASE 2 * q - 1 < 0
      <3>1. b * (2 * q - 1) <= 0
        BY <2>2
      <3> QED  BY <3>1
    <2> QED  BY <2>1, <2>2
  <1>5. (2 * b) * q <= 2 * a + b
    BY <1>4
  <1>6. (2 * b) * q < (2 * b) * (s + 1)
    BY <1>2, <1>5
  <1>7. q < s + 1
    BY <1>6
  <1> QED  BY <1>1, <1>2, <1>7 DEF Stats!Round

\* A player's page divides by fewer games than the rankings.
LEMMA AveragesAgree ==
    ASSUME StatBounds, StatInv, NEW p \in Players, NEW i \in Items,
           Stats!PageGames(p, Games) \subseteq Stats!Counted
    PROVE  /\ Stats!TotalStats(p, i, Games) = Stats!ItemCount(p, i, Games)
           /\ Stats!ItemCount(p, i, Games) > 0 =>
                Stats!AverageStats(p, i, Games)
                  >= Stats!Round(10 * Stats!ItemCount(p, i, Games), Stats!GamesPlayed(p, Games))
  <1> DEFINE S == Stats!PageGames(p, Games)
             T == Games \cap Stats!Counted
             W == {g \in T : Side[g][p] # "out"}
             FS == [g \in S |-> count[g][p][i]]
             FT == [g \in T |-> count[g][p][i]]
  <1>1. S \in SUBSET T /\ T \in SUBSET Games /\ S \in SUBSET Games /\ W \in SUBSET T
    BY DEF Stats!PageGames
  <1>2. /\ IsFiniteSet(S) /\ IsFiniteSet(T)
        /\ \A g \in T : count[g][p][i] \in Nat
    BY <1>1, CountsOver
  <1>3. IsFiniteSet(W)
    BY <1>1, <1>2, FS_Subset
  <1>4. \A g \in T \ S : count[g][p][i] = 0
    BY <1>2 DEF Stats!PageGames
  <1>5. (\A g \in T \ S : FT[g] = 0) /\ (\A g \in S : FT[g] = FS[g]) /\ (\A g \in T : FT[g] \in Int)
    BY <1>1, <1>2, <1>4
  <1>6. Stats!TotalStats(p, i, Games) = Total(FS, S) /\ Stats!TotalStats(p, i, Games) \in Nat
    BY <1>1, CountsOver DEF Stats!TotalStats
  <1>7. Stats!ItemCount(p, i, Games) = Total(FT, T)
    BY <1>1, CountsOver DEF Stats!ItemCount
  <1>8. Total(FS, S) = Total(FT, T)
    <2> HIDE DEF S, T, FS, FT
    <2>1. Total(FT, T) = Total(FT, S)
      BY <1>1, <1>2, <1>5, TotalOfCounted
    <2>2. Total(FT, S) = Total(FS, S)
      BY <1>2, <1>5, TotalSame
    <2> QED  BY <2>1, <2>2
  <1>9. S \in SUBSET W
    <2> SUFFICES ASSUME NEW g \in S PROVE g \in T /\ Side[g][p] # "out"
      OBVIOUS
    <2>1. PICK j \in Items : count[g][p][j] > 0
      BY DEF Stats!PageGames
    <2>2. g \in T
      BY <1>1
    <2>3. g \in Games /\ ~(count[g][p][j] = 0)
      BY <2>1, <2>2
    <2>4. Side[g][p] # "out"
      BY <2>3 DEF StatInv
    <2> QED  BY <2>2, <2>4
  <1>10. ASSUME Stats!ItemCount(p, i, Games) > 0
         PROVE  Stats!AverageStats(p, i, Games)
                  >= Stats!Round(10 * Stats!ItemCount(p, i, Games), Stats!GamesPlayed(p, Games))
    <2>1. PICK a \in Nat : a = Stats!ItemCount(p, i, Games) /\ a = Stats!TotalStats(p, i, Games)
      BY <1>6, <1>7, <1>8
    <2>2. S # {}
      <3> SUFFICES ASSUME S = {} PROVE FALSE
        OBVIOUS
      <3>1. Total(FS, S) = 0
        <4>1. Total(FS, {}) = 0
          <5> HIDE DEF FS
          <5> QED  BY TotalOfNone
        <4> QED  BY <4>1
      <3> QED  BY <1>6, <1>10, <2>1, <3>1
    <2>3. PICK b \in Nat \ {0} : b = Cardinality(S)
      BY <1>2, <2>2, FS_CardinalityType, FS_EmptySet
    <2>4. PICK c \in Nat : c = Cardinality(W) /\ b <= c
      BY <1>3, <1>9, <2>3, FS_CardinalityType, FS_Subset
    <2>5. Stats!AverageStats(p, i, Games) = Stats!Round(10 * a, b)
      BY <2>1, <2>3, StatsFiniteSets DEF Stats!AverageStats
    <2>6. Stats!GamesPlayed(p, Games) = c
      BY <2>4, StatsFiniteSets DEF Stats!GamesPlayed
    <2>7. 10 * a \in Nat
      OBVIOUS
    <2>8. Stats!Round(10 * a, b) >= Stats!Round(10 * a, c)
      BY <2>4, <2>7, RoundFalls
    <2> QED  BY <2>1, <2>5, <2>6, <2>8
  <1> QED  BY <1>6, <1>7, <1>8, <1>10

\* The cards of the first page, the record page and a player's page agree with the day and
\* the rankings, deletions aside (home.service, game.service, player-stats).
LEMMA PagesOfStatsAgree ==
    ASSUME StatBounds, StatInv
    PROVE  Stats!PagesAgreeUnlessDeleted
  <1>1. ASSUME NEW g \in Games PROVE Stats!CardScore(g) = Stats!DailyScore(g)
    BY DEF Stats!CardScore, Stats!DailyScore, Stats!CardPlayers
  <1>2. ASSUME NEW p \in Stats!Live, NEW g \in Stats!FinishedGames(p, Stats!AllGames)
        PROVE  Stats!Letter(Stats!Margin(g, p))
                 = [win |-> "W", lose |-> "L", draw |-> "D"][Stats!CardResult(g, Side[g][p])]
    <2>1. p \in Players /\ g \in Games /\ Side[g][p] # "out"
      BY <1>2 DEF Stats!Live, Stats!FinishedGames, Stats!AllGames
    <2> QED  BY <2>1, ResultsAreThoseOfCards
  <1>3. Stats!Counted \subseteq Games /\ Stats!Live \subseteq Players /\ Stats!AllGames = Games
    BY DEF Stats!Counted, Stats!Live, Stats!AllGames
  <1>4. \A g \in Games, t \in {"home", "away"} : Stats!CardScore(g)[t] = Stats!Sum(LAMBDA p : (LET row == Stats!LogSummary(g, p) IN
               Stats!Sum(LAMBDA i : row[i].value, DOMAIN row)), Stats!CardPlayers(g, t))
    BY CardsAddUp
  <1>5. \A g \in Games : (\A p \in deleted : Stats!PointsIn(g, p) = 0) => Stats!Scoreboard(g) = Stats!DailyScore(g)
    BY ScoreboardsAgree
  <1>6. \A p \in Players : (\A g \in Games \ Stats!Counted : Stats!PointsIn(g, p) = 0)
                       => Stats!PageScore(p, Stats!AllGames) = Stats!Points(p, Stats!AllGames)
    BY PageScoresAgree
  <1>7. ASSUME NEW p \in Players, NEW i \in Items, Stats!PageGames(p, Stats!AllGames) \subseteq Stats!Counted
        PROVE  /\ Stats!TotalStats(p, i, Stats!AllGames) = Stats!ItemCount(p, i, Stats!AllGames)
               /\ Stats!ItemCount(p, i, Stats!AllGames) > 0 =>
                    Stats!AverageStats(p, i, Stats!AllGames)
                      >= Stats!Round(10 * Stats!ItemCount(p, i, Stats!AllGames), Stats!GamesPlayed(p, Stats!AllGames))
    BY <1>3, <1>7, AveragesAgree
  <1> QED  BY <1>1, <1>2, <1>3, <1>4, <1>5, <1>6, <1>7 DEF Stats!PagesAgreeUnlessDeleted

-----------------------------------------------------------------------------
(* Sorts.                                                                  *)

\* A comparator, as a relation: nobody is before each other, and who is not before is not
\* before either.
WeakOrder(R, S) ==
    /\ \A a, b \in S : <<a, b>> \in R => <<b, a>> \notin R
    /\ \A a, b, c \in S : <<a, b>> \notin R /\ <<b, c>> \notin R => <<a, c>> \notin R

\* A list of all of them in which nobody comes after whom they are before.
IsSorted(s, S, R) ==
    /\ s \in [1..Cardinality(S) -> S]
    /\ \A k, l \in 1..Cardinality(S) : k < l => s[k] # s[l] /\ <<s[l], s[k]>> \notin R

\* Someone is before nobody.
LEMMA LastOne ==
    ASSUME NEW T, IsFiniteSet(T), T # {}, NEW R, WeakOrder(R, T)
    PROVE  \E m \in T : \A z \in T : <<m, z>> \notin R
  <1> DEFINE B(m) == {z \in T : <<m, z>> \in R}
             N    == {Cardinality(B(m)) : m \in T}
  <1>1. \A m \in T : IsFiniteSet(B(m)) /\ Cardinality(B(m)) \in Nat
    <2> TAKE m \in T
    <2>1. B(m) \in SUBSET T
      OBVIOUS
    <2> HIDE DEF B
    <2> QED  BY <2>1, FS_Subset, FS_CardinalityType
  <1>2. N \subseteq Nat /\ N # {}
    BY <1>1
  <1>3. PICK n \in N : \A k \in N : n <= k
    BY <1>2, LeastOf
  <1>4. PICK m \in T : n = Cardinality(B(m))
    BY <1>3
  <1>5. ASSUME NEW z \in T, <<m, z>> \in R PROVE FALSE
    <2>1. B(z) \in SUBSET B(m) /\ z \in B(m) /\ z \notin B(z)
      BY <1>5 DEF WeakOrder
    <2>2. Cardinality(B(z)) \in N
      OBVIOUS
    <2> HIDE DEF B, N
    <2>3. Cardinality(B(z)) <= Cardinality(B(m)) /\ Cardinality(B(z)) # Cardinality(B(m))
      BY <1>1, <2>1, FS_Subset
    <2>4. Cardinality(B(m)) <= Cardinality(B(z))
      BY <1>3, <1>4, <2>2
    <2>5. Cardinality(B(z)) \in Nat /\ Cardinality(B(m)) \in Nat
      BY <1>1
    <2> QED  BY <2>3, <2>4, <2>5
  <1> QED  BY <1>5

\* A finite set can be sorted.
LEMMA SomeSort ==
    ASSUME NEW S, IsFiniteSet(S), NEW R, WeakOrder(R, S)
    PROVE  \E s : IsSorted(s, S, R)
  <1> DEFINE U == {T \in SUBSET S : \E s : IsSorted(s, T, R)}
  <1>1. ASSUME NEW T \in SUBSET S, \A Q \in SUBSET T : Q # T => Q \in U PROVE T \in U
    <2>0. IsFiniteSet(T) /\ WeakOrder(R, T)
      BY FS_Subset DEF WeakOrder
    <2>1. CASE T = {}
      <3> DEFINE s == [k \in 1..0 |-> 0]
      <3>1. Cardinality({}) = 0 /\ 1..0 = {}
        BY FS_EmptySet
      <3>2. IsSorted(s, {}, R)
        BY <3>1 DEF IsSorted
      <3> HIDE DEF s
      <3> QED  BY <2>1, <3>2
    <2>2. CASE T # {}
      <3>1. PICK m \in T : \A z \in T : <<m, z>> \notin R
        BY <2>0, <2>2, LastOne
      <3> DEFINE Q == T \ {m}
      <3>2. Q \in U
        BY <1>1
      <3>3. PICK s : IsSorted(s, Q, R)
        BY <3>2
      <3>4. PICK n \in Nat : n = Cardinality(Q)
        BY <2>0, FS_Subset, FS_CardinalityType
      <3>5. Cardinality(T) = n + 1
        <4>1. Cardinality(Q) = Cardinality(T) - 1
          BY <2>0, FS_RemoveElement
        <4>2. Cardinality(T) \in Nat
          BY <2>0, FS_CardinalityType
        <4> HIDE DEF Q
        <4> QED  BY <3>4, <4>1, <4>2
      <3> DEFINE t == [k \in 1..(n + 1) |-> IF k = n + 1 THEN m ELSE s[k]]
      <3>6. \A k \in 1..n : s[k] \in T /\ s[k] # m
        BY <3>3, <3>4 DEF IsSorted
      <3>7. t \in [1..(n + 1) -> T]
        BY <3>6
      <3>8. ASSUME NEW k \in 1..(n + 1), NEW l \in 1..(n + 1), k < l
            PROVE  t[k] # t[l] /\ <<t[l], t[k]>> \notin R
        <4>1. k \in 1..n /\ t[k] = s[k]
          BY <3>8
        <4>2. CASE l = n + 1
          BY <3>1, <3>6, <4>1, <4>2
        <4>3. CASE l # n + 1
          <5>1. l \in 1..n /\ t[l] = s[l]
            BY <4>3
          <5>2. s[k] # s[l] /\ <<s[l], s[k]>> \notin R
            BY <3>3, <3>4, <3>8, <4>1, <5>1 DEF IsSorted
          <5> QED  BY <4>1, <5>1, <5>2
        <4> QED  BY <4>2, <4>3
      <3> HIDE DEF t
      <3>9. IsSorted(t, T, R)
        BY <3>5, <3>7, <3>8 DEF IsSorted
      <3> QED  BY <3>9
    <2> QED  BY <2>1, <2>2
  <1> HIDE DEF U
  <1>2. S \in U
    BY <1>1, SubsetsInduct
  <1> QED  BY <1>2 DEF U

\* A sort has everyone once.
LEMMA SortHasAll ==
    ASSUME NEW S, IsFiniteSet(S), NEW R, NEW s, IsSorted(s, S, R)
    PROVE  /\ \A x \in S : \E k \in 1..Cardinality(S) : s[k] = x
           /\ \A k, l \in 1..Cardinality(S) : s[k] = s[l] => k = l
           /\ Len(s) = Cardinality(S) /\ s \in Seq(S) /\ DOMAIN s = 1..Cardinality(S)
  <1>1. PICK n \in Nat : n = Cardinality(S)
    BY FS_CardinalityType
  <1>2. ASSUME NEW k \in 1..n, NEW l \in 1..n, s[k] = s[l] PROVE k = l
    <2>1. ~(k < l) /\ ~(l < k)
      BY <1>1, <1>2 DEF IsSorted
    <2> QED  BY <2>1
  <1>3. s \in Injection(1..n, S)
    BY <1>1, <1>2 DEF IsSorted, Injection, IsInjective
  <1>4. IsFiniteSet(1..n) /\ Cardinality(1..n) = n
    BY FS_Interval
  <1>5. s \in Surjection(1..n, S)
    BY <1>1, <1>3, <1>4, FS_Injection
  <1>6. \A x \in S : \E k \in 1..n : s[k] = x
    BY <1>5 DEF Surjection
  <1>7. s \in [1..n -> S]
    BY <1>1 DEF IsSorted
  <1> QED  BY <1>1, <1>2, <1>6, <1>7

\* A sum of counts is positive when one of them is.
LEMMA TotalPositive ==
    ASSUME NEW S, IsFiniteSet(S), NEW F, \A x \in S : F[x] \in Nat
    PROVE  Total(F, S) > 0 <=> \E x \in S : F[x] > 0
  <1>1. ASSUME NEW x \in S, F[x] > 0 PROVE Total(F, S) > 0
    <2>1. Total(F, S) = F[x] + Total(F, S \ {x})
      BY TotalWith
    <2>2. Total(F, S \ {x}) \in Nat
      BY FS_Subset, TotalNat
    <2> QED  BY <1>1, <2>1, <2>2
  <1>2. ASSUME ~ \E x \in S : F[x] > 0 PROVE ~(Total(F, S) > 0)
    <2>1. \A x \in S \ {} : F[x] = 0
      BY <1>2
    <2>2. Total(F, S) = Total(F, {})
      BY <2>1, TotalOfCounted
    <2> QED  BY <2>2, TotalOfNone
  <1> QED  BY <1>1, <1>2

\* Places that come with all the places before them are the first ones.
LEMMA FirstPlaces ==
    ASSUME NEW n \in Nat, NEW P \in SUBSET (1..n), \A k \in P, l \in 1..n : l < k => l \in P
    PROVE  Cardinality(P) \in 0..n /\ P = 1..Cardinality(P)
  <1>1. CASE P = {}
    <2>1. Cardinality(P) = 0 /\ 1..0 = {}
      BY <1>1, FS_EmptySet
    <2> QED  BY <1>1, <2>1
  <1>2. CASE P # {}
    <2> DEFINE D == {n - k : k \in P}
    <2>0. \A k \in P : k \in 1..n
      OBVIOUS
    <2>1. D \in SUBSET Nat /\ D # {}
      <3>1. \A k \in P : n - k \in Nat
        BY <2>0
      <3> QED  BY <1>2, <3>1
    <2>2. PICK d \in D : \A e \in D : d <= e
      BY <2>1, LeastOf
    <2>3. PICK m \in P : d = n - m
      BY <2>2
    <2>4. \A k \in P : k <= m
      <3> TAKE k \in P
      <3>1. n - k \in D
        OBVIOUS
      <3>2. n - m <= n - k
        BY <2>2, <2>3, <3>1
      <3>3. k \in 1..n /\ m \in 1..n
        BY <2>0
      <3> HIDE DEF D
      <3> QED  BY <3>2, <3>3
    <2>5. P = 1..m
      <3>1. m \in Nat /\ m <= n
        BY <2>0
      <3>2. \A k \in P : k \in 1..m
        BY <2>0, <2>4, <3>1
      <3>3. \A k \in 1..m : k \in P
        <4> TAKE k \in 1..m
        <4>1. k \in 1..n /\ (k = m \/ k < m)
          BY <3>1
        <4> QED  BY <4>1
      <3>4. P \subseteq 1..m /\ 1..m \subseteq P
        BY <3>2, <3>3
      <3> HIDE DEF D
      <3> QED  BY <3>4, Zenon
    <2>6. Cardinality(1..m) = m
      BY FS_Interval
    <2> QED  BY <2>5, <2>6
  <1> QED  BY <1>1, <1>2

\* The greater key is before.
ByKey(K, S) == {x \in S \X S : K[x[1]] > K[x[2]]}

\* It is a weak order.
LEMMA KeysAreWeakOrders ==
    ASSUME NEW S, NEW K, \A x \in S : K[x] \in Int
    PROVE  WeakOrder(ByKey(K, S), S)
  BY DEF WeakOrder, ByKey

\* In a sort those above a value are the first ones.
LEMMA AboveComeFirst ==
    ASSUME NEW S, IsFiniteSet(S), NEW K, \A x \in S : K[x] \in Int, NEW v \in Int,
           NEW s, IsSorted(s, S, ByKey(K, S)), NEW c, c = Cardinality({x \in S : K[x] > v})
    PROVE  /\ c \in 0..Cardinality(S)
           /\ \A k \in 1..Cardinality(S) : K[s[k]] > v <=> k <= c
  <1>1. PICK n \in Nat : n = Cardinality(S)
    BY FS_CardinalityType
  <1> DEFINE P == {k \in 1..n : K[s[k]] > v}
             A == {x \in S : K[x] > v}
  <1>2. \A k \in 1..n : s[k] \in S
    BY <1>1 DEF IsSorted
  <1>3. ASSUME NEW k \in P, NEW l \in 1..n, l < k PROVE l \in P
    <2>1. <<s[k], s[l]>> \notin ByKey(K, S)
      BY <1>1, <1>3 DEF IsSorted
    <2>2. ~(K[s[k]] > K[s[l]])
      BY <1>2, <2>1 DEF ByKey
    <2>3. K[s[k]] \in Int /\ K[s[l]] \in Int /\ K[s[k]] > v
      BY <1>2
    <2> QED  BY <2>2, <2>3
  <1>4. Cardinality(P) \in 0..n /\ P = 1..Cardinality(P)
    <2> HIDE DEF P
    <2>1. P \in SUBSET (1..n)
      BY DEF P
    <2> QED  BY <1>3, <2>1, FirstPlaces
  <1>5. Cardinality(P) = Cardinality(A)
    <2> DEFINE f == [k \in P |-> s[k]]
    <2>1. f \in [P -> A]
      BY <1>2
    <2>2. \A k, l \in P : f[k] = f[l] => k = l
      BY <1>1, SortHasAll
    <2>3. \A x \in A : \E k \in P : f[k] = x
      BY <1>1, SortHasAll
    <2>4. f \in Bijection(P, A)
      BY <2>1, <2>2, <2>3 DEF Bijection, Injection, Surjection, IsInjective
    <2>5. IsFiniteSet(P)
      <3>1. P \in SUBSET (1..n) /\ IsFiniteSet(1..n)
        BY FS_Interval
      <3> QED  BY <3>1, FS_Subset
    <2> HIDE DEF P, A, f
    <2> QED  BY <2>4, <2>5, FS_Bijection DEF ExistsBijection
  <1>6. c = Cardinality(A)
    OBVIOUS
  <1> HIDE DEF A
  <1>7. PICK m \in 0..n : m = c /\ P = 1..m
    BY <1>4, <1>5, <1>6
  <1>8. \A k \in 1..n : K[s[k]] > v <=> k <= m
    BY <1>7
  <1> QED  BY <1>1, <1>7, <1>8

\* Sorts by one key agree in it.
LEMMA SortsAgree ==
    ASSUME NEW S, IsFiniteSet(S), NEW K, \A x \in S : K[x] \in Int,
           NEW s, IsSorted(s, S, ByKey(K, S)), NEW t, IsSorted(t, S, ByKey(K, S)),
           NEW k \in 1..Cardinality(S)
    PROVE  K[s[k]] = K[t[k]]
  <1>1. s[k] \in S /\ t[k] \in S
    BY DEF IsSorted
  <1>2. PICK a \in Int, b \in Int : a = K[s[k]] /\ b = K[t[k]]
    BY <1>1
  <1>3. \A v \in Int : a > v <=> b > v
    <2> TAKE v \in Int
    <2>1. PICK c : c = Cardinality({x \in S : K[x] > v})
      OBVIOUS
    <2>2. K[s[k]] > v <=> k <= c
      BY <2>1, AboveComeFirst
    <2>3. K[t[k]] > v <=> k <= c
      BY <2>1, AboveComeFirst
    <2> QED  BY <1>2, <2>2, <2>3
  <1> QED  BY <1>2, <1>3

\* Shared ranks: the first of those of one key gives all of them its place.
LEMMA SharedRanks ==
    ASSUME NEW S, IsFiniteSet(S), NEW K, \A x \in S : K[x] \in Int,
           NEW s, IsSorted(s, S, ByKey(K, S)), NEW f,
           \A k \in 1..Cardinality(S) :
              f[k] = IF k > 1 /\ K[s[k]] = K[s[k - 1]] THEN f[k - 1] ELSE k
    PROVE  \A k \in 1..Cardinality(S) : f[k] = 1 + Cardinality({x \in S : K[x] > K[s[k]]})
  <1>1. PICK n \in Nat : n = Cardinality(S)
    BY FS_CardinalityType
  <1>2. \A k \in 1..n : s[k] \in S /\ K[s[k]] \in Int
    BY <1>1 DEF IsSorted
  <1> DEFINE c(k) == Cardinality({x \in S : K[x] > K[s[k]]})
             Bad  == {k \in 1..n : f[k] # 1 + c(k)}
  <1>3. \A k \in 1..n : c(k) \in 0..n /\ \A l \in 1..n : K[s[l]] > K[s[k]] <=> l <= c(k)
    BY <1>1, <1>2, AboveComeFirst
  <1>4. Bad = {}
    <2> SUFFICES ASSUME Bad # {} PROVE FALSE
      OBVIOUS
    <2>1. Bad \in SUBSET Nat /\ Bad \in SUBSET (1..n)
      OBVIOUS
    <2>2. PICK k \in Bad : \A e \in Bad : k <= e
      BY <2>1, LeastOf
    <2>3. k \in 1..n /\ f[k] # 1 + c(k)
      OBVIOUS
    <2>4. c(k) < k
      <3> HIDE DEF c
      <3>1. c(k) \in 0..n /\ (K[s[k]] > K[s[k]] <=> k <= c(k))
        BY <1>3, <2>3
      <3> QED  BY <1>2, <2>3, <3>1
    <2>5. f[k] = IF k > 1 /\ K[s[k]] = K[s[k - 1]] THEN f[k - 1] ELSE k
      BY <1>1, <2>3
    <2>6. CASE k > 1
      <3>1. k - 1 \in 1..n /\ k - 1 \notin Bad
        <4>1. k - 1 \in 1..n /\ ~(k <= k - 1)
          BY <2>3, <2>6
        <4> HIDE DEF Bad
        <4> QED  BY <4>1, <2>2
      <3>2. f[k - 1] = 1 + c(k - 1)
        BY <3>1
      <3>3. CASE K[s[k]] = K[s[k - 1]]
        <4>1. c(k) = c(k - 1)
          BY <3>3
        <4> HIDE DEF c
        <4> QED  BY <2>3, <2>5, <2>6, <3>2, <3>3, <4>1
      <3>4. CASE K[s[k]] # K[s[k - 1]]
        <4>1. f[k] = k
          BY <2>5, <3>4
        <4>2. <<s[k], s[k - 1]>> \notin ByKey(K, S)
          <5>1. \A l \in 1..n : l < k => <<s[k], s[l]>> \notin ByKey(K, S)
            BY <1>1, <2>3 DEF IsSorted
          <5>2. k - 1 < k
            BY <2>3
          <5> QED  BY <3>1, <5>1, <5>2
        <4>3. ~(K[s[k]] > K[s[k - 1]])
          BY <1>2, <2>3, <3>1, <4>2 DEF ByKey
        <4> HIDE DEF c
        <4>4. K[s[k - 1]] > K[s[k]]
          BY <1>2, <2>3, <3>1, <3>4, <4>3
        <4>5. c(k) \in 0..n /\ k - 1 <= c(k)
          BY <1>3, <2>3, <3>1, <4>4
        <4> QED  BY <2>3, <2>4, <4>1, <4>5
      <3> QED  BY <3>3, <3>4
    <2>7. CASE ~(k > 1)
      <3>1. k = 1 /\ f[k] = k
        BY <2>3, <2>5, <2>7
      <3> HIDE DEF c
      <3>2. c(k) \in 0..n
        BY <1>3, <2>3
      <3> QED  BY <2>3, <2>4, <3>1, <3>2
    <2> QED  BY <2>6, <2>7
  <1> QED  BY <1>1, <1>4

\* The points of a day of some players.
LEMMA DayAddsUp ==
    ASSUME NEW S, IsFiniteSet(S)
    PROVE  Stats!Sum(LAMBDA p : Stats!DailyTotal[p], S) = Total([p \in S |-> Stats!DailyTotal[p]], S)
  <1> DEFINE F    == [p \in S |-> Stats!DailyTotal[p]]
             P(k) == k = [s \in SUBSET S |-> IF s = {} THEN 0 ELSE Stats!DailyTotal[Pick(s)] + k[s \ {Pick(s)}]]
  <1>1. Stats!Sum(LAMBDA p : Stats!DailyTotal[p], S) = (CHOOSE k : P(k))[S]
    BY DEF Pick, Stats!Sum, Stats!MapThenSumSet, Stats!MapThenFoldSet
  <1>2. \A k : P(k) <=> AddsUp(k, F, S)
    <2>1. \A s \in SUBSET S : s # {} => F[Pick(s)] = Stats!DailyTotal[Pick(s)]
      BY PickIn
    <2> HIDE DEF F
    <2> QED  BY <2>1 DEF AddsUp
  <1> HIDE DEF P, F
  <1>3. \E k : P(k)
    BY <1>2, SomeAddsUp
  <1>4. P(CHOOSE k : P(k))
    BY <1>3
  <1>5. Total(F, S) = (CHOOSE k : P(k))[S]
    BY <1>2, <1>4, TotalIs
  <1> QED  BY <1>1, <1>5 DEF F

\* The scores of some games.
LEMMA ScoresAddUp ==
    ASSUME NEW S, IsFiniteSet(S)
    PROVE  Stats!Sum(LAMBDA g : (Stats!DailyScore(g)["home"] + Stats!DailyScore(g)["away"]), S) = Total([g \in S |-> (Stats!DailyScore(g)["home"] + Stats!DailyScore(g)["away"])], S)
  <1> DEFINE F    == [g \in S |-> (Stats!DailyScore(g)["home"] + Stats!DailyScore(g)["away"])]
             P(k) == k = [s \in SUBSET S |-> IF s = {} THEN 0 ELSE (Stats!DailyScore(Pick(s))["home"] + Stats!DailyScore(Pick(s))["away"]) + k[s \ {Pick(s)}]]
  <1>1. Stats!Sum(LAMBDA g : (Stats!DailyScore(g)["home"] + Stats!DailyScore(g)["away"]), S) = (CHOOSE k : P(k))[S]
    BY DEF Pick, Stats!Sum, Stats!MapThenSumSet, Stats!MapThenFoldSet
  <1>2. \A k : P(k) <=> AddsUp(k, F, S)
    <2>1. \A s \in SUBSET S : s # {} => F[Pick(s)] = (Stats!DailyScore(Pick(s))["home"] + Stats!DailyScore(Pick(s))["away"])
      BY PickIn
    <2> HIDE DEF F
    <2> QED  BY <2>1 DEF AddsUp
  <1> HIDE DEF P, F
  <1>3. \E k : P(k)
    BY <1>2, SomeAddsUp
  <1>4. P(CHOOSE k : P(k))
    BY <1>3
  <1>5. Total(F, S) = (CHOOSE k : P(k))[S]
    BY <1>2, <1>4, TotalIs
  <1> QED  BY <1>1, <1>5 DEF F

\* The points of some players.
LEMMA RankedAddUp ==
    ASSUME NEW scope, NEW S, IsFiniteSet(S)
    PROVE  Stats!Sum(LAMBDA p : Stats!Points(p, scope), S) = Total([p \in S |-> Stats!Points(p, scope)], S)
  <1> DEFINE F    == [p \in S |-> Stats!Points(p, scope)]
             P(k) == k = [s \in SUBSET S |-> IF s = {} THEN 0 ELSE Stats!Points(Pick(s), scope) + k[s \ {Pick(s)}]]
  <1>1. Stats!Sum(LAMBDA p : Stats!Points(p, scope), S) = (CHOOSE k : P(k))[S]
    BY DEF Pick, Stats!Sum, Stats!MapThenSumSet, Stats!MapThenFoldSet
  <1>2. \A k : P(k) <=> AddsUp(k, F, S)
    <2>1. \A s \in SUBSET S : s # {} => F[Pick(s)] = Stats!Points(Pick(s), scope)
      BY PickIn
    <2> HIDE DEF F
    <2> QED  BY <2>1 DEF AddsUp
  <1> HIDE DEF P, F
  <1>3. \E k : P(k)
    BY <1>2, SomeAddsUp
  <1>4. P(CHOOSE k : P(k))
    BY <1>3
  <1>5. Total(F, S) = (CHOOSE k : P(k))[S]
    BY <1>2, <1>4, TotalIs
  <1> QED  BY <1>1, <1>5 DEF F

\* Points are numbers, and the players of a day those with a row that counts.
LEMMA DayOfRankings ==
    ASSUME StatBounds, StatInv
    PROVE  /\ IsFiniteSet(Stats!Live) /\ Stats!Live \subseteq Players
           /\ IsFiniteSet(Stats!Counted) /\ Stats!Counted \subseteq Games
           /\ Stats!DailyPlayers \subseteq Stats!Live /\ IsFiniteSet(Stats!DailyPlayers)
           /\ \A p \in Players : Stats!Points(p, Games) \in Int
           /\ \A p \in Stats!DailyPlayers : Stats!DailyTotal[p] = Stats!Points(p, Games)
           /\ \A p \in Players, i \in Items : /\ Stats!ItemCount(p, i, Games) \in Nat
                 /\ (Stats!ItemCount(p, i, Games) > 0 <=> \E g \in Stats!Counted : count[g][p][i] > 0)
  <1>1. /\ IsFiniteSet(Games) /\ IsFiniteSet(Players)
        /\ Stats!Live \subseteq Players /\ Stats!Counted \subseteq Games
        /\ Stats!DailyPlayers \subseteq Stats!Live
    BY DEF StatBounds, Stats!Live, Stats!Counted, Stats!DailyPlayers
  <1>2. IsFiniteSet(Stats!Live) /\ IsFiniteSet(Stats!Counted) /\ IsFiniteSet(Stats!DailyPlayers)
    BY <1>1, FS_Subset
  <1>3. Games \cap Stats!Counted = Stats!Counted
    BY <1>1
  <1>4. ASSUME NEW p \in Players
        PROVE  /\ Stats!Points(p, Games) = Total([g \in Stats!Counted |-> Stats!PointsIn(g, p)], Stats!Counted)
               /\ Stats!Points(p, Games) \in Int
    <2> DEFINE F == [g \in Stats!Counted |-> Stats!PointsIn(g, p)]
    <2>1. Stats!Points(p, Games) = Total(F, Stats!Counted)
      <3>1. Games \in SUBSET Games
        OBVIOUS
      <3> QED  BY <1>3, <3>1, PointsByGame
    <2>2. \A g \in Stats!Counted : F[g] \in Int
      BY <1>1, PointsInIs
    <2> HIDE DEF F
    <2>3. Total(F, Stats!Counted) \in Int
      BY <1>2, <2>2, TotalType
    <2> QED  BY <2>1, <2>3 DEF F
  <1>5. ASSUME NEW p \in Stats!DailyPlayers PROVE Stats!DailyTotal[p] = Stats!Points(p, Games)
    <2>1. Stats!DailyTotal[p] = Stats!Sum(LAMBDA g : Stats!PointsIn(g, p), Stats!Counted)
      BY DEF Stats!DailyTotal
    <2>2. p \in Players
      BY <1>1
    <2> QED  BY <1>2, <1>4, <2>1, <2>2, GamesAddUp
  <1>6. ASSUME NEW p \in Players, NEW i \in Items
        PROVE  /\ Stats!ItemCount(p, i, Games) \in Nat
               /\ Stats!ItemCount(p, i, Games) > 0 <=> \E g \in Stats!Counted : count[g][p][i] > 0
    <2> DEFINE F == [g \in Stats!Counted |-> count[g][p][i]]
    <2>1. Stats!ItemCount(p, i, Games) = Total(F, Stats!Counted)
      BY <1>1, <1>3, CountsOver DEF Stats!ItemCount
    <2>2. \A g \in Stats!Counted : F[g] \in Nat
      BY <1>1, CountsOver
    <2>3. \A g \in Stats!Counted : F[g] = count[g][p][i]
      OBVIOUS
    <2> HIDE DEF F
    <2>4. Total(F, Stats!Counted) \in Nat
          /\ (Total(F, Stats!Counted) > 0 <=> \E g \in Stats!Counted : F[g] > 0)
      BY <1>2, <2>2, TotalNat, TotalPositive
    <2> QED  BY <2>1, <2>3, <2>4
  <1> QED  BY <1>1, <1>2, <1>4, <1>5, <1>6

\* The table of a day is in the order of the points.
LEMMA TableIsSorted ==
    ASSUME StatBounds, StatInv
    PROVE  IsSorted(Stats!ByTotal, Stats!DailyPlayers, ByKey(Stats!DailyTotal, Stats!DailyPlayers))
  <1> DEFINE S    == Stats!DailyPlayers
             R    == ByKey(Stats!DailyTotal, Stats!DailyPlayers)
             P(s) == \A k, l \in 1..Stats!Cardinality(S) : k < l => s[k] # s[l] /\ ~(Stats!DailyTotal[s[l]] > Stats!DailyTotal[s[k]])
  <1>1. Stats!ByTotal = CHOOSE s \in [1..Stats!Cardinality(S) -> S] : P(s)
    BY DEF Stats!ByTotal, Stats!Sorted
  <1>2. IsFiniteSet(S) /\ WeakOrder(R, S)
    <2>1. \A p \in S : Stats!DailyTotal[p] \in Int
      BY DayOfRankings
    <2> QED  BY <2>1, DayOfRankings, KeysAreWeakOrders
  <1>3. Stats!Cardinality(S) = Cardinality(S)
    BY StatsFiniteSets
  <1>4. ASSUME NEW s \in [1..Cardinality(S) -> S] PROVE P(s) <=> IsSorted(s, S, R)
    <2>1. \A k \in 1..Cardinality(S) : s[k] \in S
      OBVIOUS
    <2>2. \A a, b \in S : <<a, b>> \in R <=> Stats!DailyTotal[a] > Stats!DailyTotal[b]
      BY DEF ByKey
    <2> HIDE DEF S, R
    <2> QED  BY <1>3, <2>1, <2>2 DEF IsSorted
  <1>5. \E s \in [1..Cardinality(S) -> S] : P(s)
    <2>1. PICK s : IsSorted(s, S, R)
      <3> HIDE DEF S, R
      <3> QED  BY <1>2, SomeSort
    <2>2. s \in [1..Cardinality(S) -> S]
      BY <2>1 DEF IsSorted
    <2> HIDE DEF P, S, R
    <2> QED  BY <1>4, <2>1, <2>2
  <1> HIDE DEF P, S, R
  <1>6. P(Stats!ByTotal) /\ Stats!ByTotal \in [1..Cardinality(S) -> S]
    BY <1>1, <1>3, <1>5
  <1> QED  BY <1>4, <1>6 DEF S, R

\* So is the card of points.
LEMMA CardIsSorted ==
    ASSUME NEW K, StatBounds, StatInv, NEW scope, K = [p \in Players |-> Stats!Points(p, scope)], \A p \in Players : K[p] \in Int
    PROVE  IsSorted(Stats!ScoringCard("total", scope), Stats!Scoring(scope), ByKey(K, Stats!Scoring(scope)))
  <1> DEFINE S    == Stats!Scoring(scope)
             R    == ByKey(K, Stats!Scoring(scope))
             P(s) == \A k, l \in 1..Stats!Cardinality(S) : k < l => s[k] # s[l] /\ ~(K[s[l]] > K[s[k]])
  <1>1. Stats!ScoringCard("total", scope) = CHOOSE s \in [1..Stats!Cardinality(S) -> S] : P(s)
    BY DEF Stats!ScoringCard, Stats!Sorted, Stats!Better, Stats!MoreOf
  <1>2. IsFiniteSet(S) /\ WeakOrder(R, S)
    <2>1. S \subseteq Players
      BY DEF Stats!Scoring, Stats!Live
    <2>2. \A p \in S : K[p] \in Int
      BY <2>1
    <2> HIDE DEF S
    <2>3. IsFiniteSet(S) /\ WeakOrder(ByKey(K, S), S)
      BY <2>1, <2>2, FS_Subset, KeysAreWeakOrders DEF StatBounds
    <2> QED  BY <2>3 DEF S
  <1>3. Stats!Cardinality(S) = Cardinality(S)
    BY StatsFiniteSets
  <1>4. ASSUME NEW s \in [1..Cardinality(S) -> S] PROVE P(s) <=> IsSorted(s, S, R)
    <2>1. \A k \in 1..Cardinality(S) : s[k] \in S
      OBVIOUS
    <2>2. \A a, b \in S : <<a, b>> \in R <=> K[a] > K[b]
      BY DEF ByKey
    <2> HIDE DEF S, R
    <2> QED  BY <1>3, <2>1, <2>2 DEF IsSorted
  <1>5. \E s \in [1..Cardinality(S) -> S] : P(s)
    <2>1. PICK s : IsSorted(s, S, R)
      <3> HIDE DEF S, R
      <3> QED  BY <1>2, SomeSort
    <2>2. s \in [1..Cardinality(S) -> S]
      BY <2>1 DEF IsSorted
    <2> HIDE DEF P, S, R
    <2> QED  BY <1>4, <2>1, <2>2
  <1> HIDE DEF P, S, R
  <1>6. P(Stats!ScoringCard("total", scope)) /\ Stats!ScoringCard("total", scope) \in [1..Cardinality(S) -> S]
    BY <1>1, <1>3, <1>5
  <1> QED  BY <1>4, <1>6 DEF S, R

\* A player without rows has no points.
LEMMA NoRowsNoPoints ==
    ASSUME StatBounds, StatInv, NEW g \in Games, NEW p \in Players,
           \A i \in Items : ~(count[g][p][i] > 0)
    PROVE  Stats!PointsIn(g, p) = 0
  <1> DEFINE F == [i \in Items |-> Value[i] * count[g][p][i]]
  <1>1. /\ IsFiniteSet(Items) /\ Stats!PointsIn(g, p) = Total(F, Items)
        /\ \A i \in Items : Value[i] \in Int /\ count[g][p][i] \in Nat
    BY PointsInIs DEF StatBounds
  <1>2. \A i \in Items : F[i] = 0
    <2> TAKE i \in Items
    <2>1. count[g][p][i] = 0
      BY <1>1
    <2>2. \A n \in Int : n * 0 = 0
      OBVIOUS
    <2> QED  BY <1>1, <2>1, <2>2
  <1> HIDE DEF F
  <1>3. \A i \in Items : F[i] \in Int
    BY <1>2
  <1>4. Total(F, Items) = Total(F, {})
    BY <1>1, <1>2, <1>3, TotalOfCounted
  <1> QED  BY <1>1, <1>4, TotalOfNone

\* The players who are in a game score for one of its sides.
LEMMA SidesScoreAll ==
    ASSUME StatBounds, StatInv, NEW g \in Games
    PROVE  Total([p \in Stats!Live |-> Stats!PointsIn(g, p)], Stats!Live)
             = Stats!DailyScore(g)["home"] + Stats!DailyScore(g)["away"]
  <1> DEFINE L    == Stats!Live
             F    == [p \in L |-> Stats!PointsIn(g, p)]
             T(t) == {p \in L : Side[g][p] = t}
             H(t) == [p \in L |-> IF Side[g][p] = t THEN Stats!PointsIn(g, p) ELSE 0]
             G(t) == [p \in T(t) |-> Stats!PointsIn(g, p)]
  <1>1. IsFiniteSet(L) /\ L \subseteq Players
    BY DayOfRankings
  <1>2. \A p \in L : /\ Stats!PointsIn(g, p) \in Int
                     /\ Side[g][p] \in {"home", "away", "out"}
                     /\ Side[g][p] = "out" => Stats!PointsIn(g, p) = 0
    BY <1>1, PointsInIs DEF StatBounds
  <1>3. \A t : /\ \A p \in L : H(t)[p] \in Int
               /\ \A p \in T(t) : H(t)[p] = G(t)[p]
               /\ \A p \in L \ T(t) : H(t)[p] = 0
               /\ T(t) \in SUBSET L
    BY <1>2
  <1>4. \A p \in L : F[p] = H("home")[p] + H("away")[p]
    <2> TAKE p \in L
    <2>1. F[p] = Stats!PointsIn(g, p)
      OBVIOUS
    <2>2. CASE Side[g][p] = "home"
      <3>1. H("home")[p] = Stats!PointsIn(g, p) /\ H("away")[p] = 0
        BY <2>2
      <3> QED  BY <1>2, <2>1, <3>1
    <2>3. CASE Side[g][p] = "away"
      <3>1. H("away")[p] = Stats!PointsIn(g, p) /\ H("home")[p] = 0
        BY <2>3
      <3> QED  BY <1>2, <2>1, <3>1
    <2>4. CASE Side[g][p] = "out"
      <3>1. H("away")[p] = 0 /\ H("home")[p] = 0 /\ F[p] = 0
        BY <1>2, <2>4
      <3> QED  BY <3>1
    <2> QED  BY <1>2, <2>2, <2>3, <2>4
  <1>5. ASSUME NEW t \in {"home", "away"} PROVE Total(H(t), L) = Stats!DailyScore(g)[t]
    <2>1. Stats!DailyScore(g)[t] = Stats!Sum(LAMBDA p : Stats!PointsIn(g, p), T(t))
      BY DEF Stats!DailyScore
    <2>2. IsFiniteSet(T(t))
      BY <1>1, <1>3, FS_Subset
    <2>3. Stats!Sum(LAMBDA p : Stats!PointsIn(g, p), T(t)) = Total(G(t), T(t))
      BY <2>2, PointsAddUp
    <2>4. Total(H(t), L) = Total(H(t), T(t))
      <3> HIDE DEF L, H, T
      <3> QED  BY <1>1, <1>3, TotalOfCounted
    <2>5. Total(H(t), T(t)) = Total(G(t), T(t))
      <3> HIDE DEF L, H, T, G
      <3> QED  BY <1>3, <2>2, TotalSame
    <2> QED  BY <2>1, <2>3, <2>4, <2>5
  <1>6. Total(F, L) = Total(H("home"), L) + Total(H("away"), L)
    <2> HIDE DEF L, H, F
    <2> QED  BY <1>1, <1>3, <1>4, TotalPlus
  <1>7. Total(H("home"), L) = Stats!DailyScore(g)["home"] /\ Total(H("away"), L) = Stats!DailyScore(g)["away"]
    <2> HIDE DEF L, H
    <2> QED  BY <1>5
  <1>8. Total(F, L) = Stats!DailyScore(g)["home"] + Stats!DailyScore(g)["away"]
    <2> HIDE DEF L, H, F
    <2> QED  BY <1>6, <1>7
  <1> QED  BY <1>8

\* The totals of the players of a day are the scores of its games.
LEMMA TotalsAreScores ==
    ASSUME StatBounds, StatInv
    PROVE  Stats!Sum(LAMBDA p : Stats!DailyTotal[p], Stats!DailyPlayers)
             = Stats!Sum(LAMBDA g : (Stats!DailyScore(g)["home"] + Stats!DailyScore(g)["away"]), Stats!DailyGames)
  <1> DEFINE L == Stats!Live
             C == Stats!Counted
             D == Stats!DailyPlayers
             E == Stats!DailyGames
             M == [p \in L |-> [g \in C |-> Stats!PointsIn(g, p)]]
             W == [p \in L |-> Total(M[p], C)]
             Y(g) == [p \in L |-> M[p][g]]
             V == [g \in C |-> Total(Y(g), L)]
             B == [p \in D |-> Stats!DailyTotal[p]]
             A == [g \in E |-> (Stats!DailyScore(g)["home"] + Stats!DailyScore(g)["away"])]
  <1>1. /\ IsFiniteSet(L) /\ IsFiniteSet(C) /\ IsFiniteSet(D) /\ D \in SUBSET L
        /\ L \subseteq Players /\ C \subseteq Games /\ E \in SUBSET C
    BY DayOfRankings DEF Stats!DailyGames
  <1>2. IsFiniteSet(E)
    BY <1>1, FS_Subset
  <1>3. \A p \in L, g \in C : M[p][g] = Stats!PointsIn(g, p) /\ M[p][g] \in Int
    BY <1>1, PointsInIs
  <1>4. \A p \in L : IsFiniteSet(C) /\ W[p] = Total(M[p], C) /\ Total(M[p], C) \in Int
    <2> HIDE DEF M
    <2>1. \A p \in L : Total(M[p], C) \in Int
      <3> HIDE DEF C
      <3> QED  BY <1>1, <1>3, TotalType
    <2> QED  BY <1>1, <2>1
  <1>5. \A p \in D : W[p] = B[p]
    <2> TAKE p \in D
    <2>1. B[p] = Stats!Sum(LAMBDA g : Stats!PointsIn(g, p), C)
      BY DEF Stats!DailyTotal
    <2>2. Stats!Sum(LAMBDA g : Stats!PointsIn(g, p), C) = Total([g \in C |-> Stats!PointsIn(g, p)], C)
      BY <1>1, GamesAddUp
    <2>3. p \in L /\ M[p] = [g \in C |-> Stats!PointsIn(g, p)]
      BY <1>1
    <2>4. W[p] = Total([g \in C |-> Stats!PointsIn(g, p)], C)
      <3> HIDE DEF C, L
      <3> QED  BY <2>3
    <2> QED  BY <2>1, <2>2, <2>4
  <1>6. ASSUME NEW p \in L \ D PROVE W[p] = 0
    <2>1. \A g \in C : M[p][g] = 0
      <3> TAKE g \in C
      <3>1. \A i \in Items : ~(count[g][p][i] > 0)
        BY DEF Stats!DailyPlayers
      <3>2. Stats!PointsIn(g, p) = 0
        BY <1>1, <3>1, NoRowsNoPoints
      <3> QED  BY <1>3, <3>2
    <2> HIDE DEF C, M
    <2>2. Total(M[p], C) = Total(M[p], {})
      BY <1>1, <2>1, TotalOfCounted
    <2> QED  BY <1>4, <2>2, TotalOfNone
  <1>7. Total(W, L) = Total(B, D)
    <2> HIDE DEF L, D, W, B
    <2>1. \A p \in L : W[p] \in Int
      BY <1>4
    <2>2. Total(W, L) = Total(W, D)
      BY <1>1, <1>6, <2>1, TotalOfCounted
    <2> QED  BY <1>1, <1>5, <2>2, TotalSame
  <1>8. Total(W, L) = Total(V, C)
    <2> HIDE DEF L, C, M
    <2> QED  BY <1>1, <1>3, TotalSwaps
  <1>9. \A g \in C : V[g] = Stats!DailyScore(g)["home"] + Stats!DailyScore(g)["away"]
    <2> TAKE g \in C
    <2>1. Y(g) = [p \in L |-> Stats!PointsIn(g, p)]
      BY <1>3
    <2>2. V[g] = Total(Y(g), L)
      OBVIOUS
    <2> HIDE DEF V, Y
    <2> QED  BY <1>1, <2>1, <2>2, SidesScoreAll
  <1>10. \A g \in C : V[g] \in Int
    <2> TAKE g \in C
    <2>1. \A p \in L : Y(g)[p] \in Int
      BY <1>3
    <2>2. V[g] = Total(Y(g), L)
      OBVIOUS
    <2> HIDE DEF V, Y, L
    <2> QED  BY <1>1, <2>1, <2>2, TotalType
  <1>11. ASSUME NEW g \in C \ E PROVE V[g] = 0
    <2>1. \A p \in L : Y(g)[p] = 0
      <3> TAKE p \in L
      <3>1. \A i \in Items : ~(count[g][p][i] > 0)
        BY <1>1 DEF Stats!DailyGames, Stats!Recorded
      <3>2. Stats!PointsIn(g, p) = 0
        BY <1>1, <3>1, NoRowsNoPoints
      <3> QED  BY <1>3, <3>2
    <2>2. V[g] = Total(Y(g), L)
      OBVIOUS
    <2> HIDE DEF L, V, Y
    <2>3. Total(Y(g), L) = Total(Y(g), {})
      BY <1>1, <2>1, TotalOfCounted
    <2> QED  BY <2>2, <2>3, TotalOfNone
  <1>12. Total(V, C) = Total(A, E)
    <2>1. \A g \in E : V[g] = A[g]
      BY <1>1, <1>9
    <2> HIDE DEF C, E, V, A
    <2>2. Total(V, C) = Total(V, E)
      BY <1>1, <1>10, <1>11, TotalOfCounted
    <2> QED  BY <1>2, <2>1, <2>2, TotalSame
  <1>13. Stats!Sum(LAMBDA p : Stats!DailyTotal[p], Stats!DailyPlayers) = Total(B, D)
    BY <1>1, DayAddsUp
  <1>14. Stats!Sum(LAMBDA g : (Stats!DailyScore(g)["home"] + Stats!DailyScore(g)["away"]), Stats!DailyGames) = Total(A, E)
    BY <1>2, ScoresAddUp
  <1> QED  BY <1>7, <1>8, <1>12, <1>13, <1>14

\* Who is ranked by points has records on the day.
LEMMA RankedAreOfTheDay ==
    ASSUME StatBounds, StatInv, Stats!HasScore(Games)
    PROVE  Stats!Scoring(Games) = Stats!DailyPlayers
  <1>1. \A p \in Stats!Live, i \in Items :
           Stats!ItemCount(p, i, Games) > 0 <=> \E g \in Stats!Counted : count[g][p][i] > 0
    <2> TAKE p \in Stats!Live, i \in Items
    <2>1. p \in Players
      BY DEF Stats!Live
    <2> QED  BY <2>1, DayOfRankings
  <1> QED  BY <1>1 DEF Stats!Scoring, Stats!DailyPlayers

\* Ranks of the table.
LEMMA TableRanks ==
    ASSUME StatBounds, StatInv
    PROVE  /\ DOMAIN Stats!ByTotal = 1..Cardinality(Stats!DailyPlayers)
           /\ \A k \in DOMAIN Stats!ByTotal :
                 Stats!DailyRank[k] = 1 + Cardinality({q \in Stats!DailyPlayers :
                     Stats!Points(q, Games) > Stats!Points(Stats!ByTotal[k], Games)})
  <1> DEFINE D == Stats!DailyPlayers
             s == Stats!ByTotal
             K == Stats!DailyTotal
             c(k) == 1 + Cardinality({q \in D : K[q] > K[s[k]]})
             Q(f) == f = [k \in DOMAIN s |-> IF k > 1 /\ K[s[k]] = K[s[k - 1]] THEN f[k - 1] ELSE k]
  <1>1. IsFiniteSet(D) /\ \A p \in D : K[p] \in Int /\ K[p] = Stats!Points(p, Games)
    BY DayOfRankings
  <1>2. IsSorted(s, D, ByKey(K, D))
    BY TableIsSorted
  <1>3. DOMAIN s = 1..Cardinality(D) /\ \A k \in DOMAIN s : s[k] \in D
    <2> HIDE DEF s, D, K
    <2> QED  BY <1>2 DEF IsSorted
  <1>4. Stats!DailyRank = CHOOSE f : Q(f)
    BY DEF Stats!DailyRank
  <1>5. \E f : Q(f)
    <2> DEFINE f == [k \in DOMAIN s |-> c(k)]
               g == [k \in DOMAIN s |-> IF k > 1 /\ K[s[k]] = K[s[k - 1]] THEN f[k - 1] ELSE k]
    <2>1. \A k \in DOMAIN s : f[k] = g[k]
      <3>1. PICK n \in Nat : n = Cardinality(D)
        BY <1>1, FS_CardinalityType
      <3> SUFFICES ASSUME NEW k \in 1..n PROVE f[k] = g[k]
        BY <1>3, <3>1
      <3> DEFINE a(j) == Cardinality({q \in D : K[q] > K[s[j]]})
      <3>2. \A j \in 1..n : s[j] \in D /\ K[s[j]] \in Int /\ f[j] = 1 + a(j)
        BY <1>1, <1>3, <3>1
      <3>3. \A j, l \in 1..n : a(j) \in 0..n /\ (K[s[l]] > K[s[j]] <=> l <= a(j))
        <4> HIDE DEF s, D, K
        <4> QED  BY <1>1, <1>2, <3>1, <3>2, AboveComeFirst
      <3>4. a(k) < k
        <4>1. a(k) \in 0..n /\ (K[s[k]] > K[s[k]] <=> k <= a(k)) /\ K[s[k]] \in Int
          BY <3>2, <3>3
        <4> HIDE DEF a, s, K
        <4>2. ~(K[s[k]] > K[s[k]])
          BY <4>1
        <4> QED  BY <4>1, <4>2
      <3>5. CASE k > 1 /\ K[s[k]] = K[s[k - 1]]
        <4>1. g[k] = f[k - 1] /\ k - 1 \in 1..n
          BY <1>3, <3>1, <3>5
        <4>2. a(k) = a(k - 1)
          BY <3>5
        <4> HIDE DEF a, f, g
        <4> QED  BY <3>2, <4>1, <4>2
      <3>6. CASE k > 1 /\ K[s[k]] # K[s[k - 1]]
        <4>1. g[k] = k /\ k - 1 \in 1..n
          BY <1>3, <3>1, <3>6
        <4>2. <<s[k], s[k - 1]>> \notin ByKey(K, D)
          <5> HIDE DEF s, K, D
          <5>1. \A l \in 1..n : l < k => <<s[k], s[l]>> \notin ByKey(K, D)
            BY <1>2, <3>1 DEF IsSorted
          <5>2. k - 1 < k
            OBVIOUS
          <5> QED  BY <4>1, <5>1, <5>2
        <4>3. ~(K[s[k]] > K[s[k - 1]])
          BY <3>2, <4>1, <4>2 DEF ByKey
        <4> HIDE DEF a, f, g, s, K
        <4>4. K[s[k - 1]] > K[s[k]]
          BY <3>2, <3>6, <4>1, <4>3
        <4>5. k - 1 <= a(k) /\ a(k) \in 0..n
          BY <3>3, <4>1, <4>4
        <4> QED  BY <3>2, <3>4, <4>1, <4>5
      <3>7. CASE ~(k > 1)
        <4>1. g[k] = k /\ k = 1
          BY <1>3, <3>1, <3>7
        <4> HIDE DEF a, f, g
        <4>2. a(k) \in 0..n
          BY <3>3
        <4> QED  BY <3>2, <3>4, <4>1, <4>2
      <3> QED  BY <3>5, <3>6, <3>7
    <2>2. f = g
      BY <2>1
    <2> QED  BY <2>2
  <1>6. Q(Stats!DailyRank)
    <2> HIDE DEF Q
    <2> QED  BY <1>4, <1>5
  <1>7. \A k \in 1..Cardinality(D) : Stats!DailyRank[k] = c(k)
    <2>1. \A k \in 1..Cardinality(D) : Stats!DailyRank[k]
             = IF k > 1 /\ K[s[k]] = K[s[k - 1]] THEN Stats!DailyRank[k - 1] ELSE k
      BY <1>3, <1>6
    <2> HIDE DEF D, K, s, Q
    <2> QED  BY <1>1, <1>2, <2>1, SharedRanks
  <1>8. \A k \in DOMAIN s : {q \in D : K[q] > K[s[k]]}
              = {q \in D : Stats!Points(q, Games) > Stats!Points(s[k], Games)}
    <2> HIDE DEF D, K, s
    <2> QED  BY <1>1, <1>3
  <1> QED  BY <1>3, <1>7, <1>8

\* The rankings and the daily page add up the same rows (log.service, the records table).
LEMMA DaysAgreeWithRankings ==
    ASSUME StatBounds, StatInv
    PROVE  Stats!DayAgreesWithRankings
  <1>1. Stats!AllGames = Games
    BY DEF Stats!AllGames
  <1>2. Stats!DayListed <=> Stats!DailyGames # {}
    BY DEF Stats!DayListed, Stats!DailyGames, Stats!Recorded
  <1>3. ASSUME Stats!HasScore(Stats!AllGames), NEW card, card = Stats!ScoringCard("total", Stats!AllGames)
        PROVE  /\ Stats!Sum(LAMBDA p : Stats!DailyTotal[p], Stats!DailyPlayers)
                    = Stats!Sum(LAMBDA p : Stats!Points(p, Stats!AllGames), Stats!Scoring(Stats!AllGames))
               /\ Stats!Len(card) = Stats!Len(Stats!ByTotal)
               /\ \A k \in DOMAIN card : Stats!DailyTotal[card[k]] = Stats!DailyTotal[Stats!ByTotal[k]]
    <2> DEFINE D == Stats!DailyPlayers
               K == [p \in Players |-> Stats!Points(p, Games)]
    <2>1. Stats!Scoring(Games) = D
      BY <1>1, <1>3, RankedAreOfTheDay
    <2>2. /\ IsFiniteSet(D) /\ D \subseteq Players /\ (\A p \in Players : K[p] \in Int)
          /\ \A p \in D : Stats!DailyTotal[p] = K[p] /\ K[p] = Stats!Points(p, Games)
      BY DayOfRankings
    <2>3. IsSorted(card, D, ByKey(K, D))
      BY <1>1, <1>3, <2>1, <2>2, CardIsSorted
    <2>4. ByKey(Stats!DailyTotal, D) = ByKey(K, D)
      <3> HIDE DEF D, K
      <3>1. \A x \in D \X D : x[1] \in D /\ x[2] \in D
        OBVIOUS
      <3> QED  BY <2>2, <3>1 DEF ByKey
    <2>5. IsSorted(Stats!ByTotal, D, ByKey(K, D))
      BY <2>4, TableIsSorted
    <2>6. Stats!Sum(LAMBDA p : Stats!DailyTotal[p], D) = Stats!Sum(LAMBDA p : Stats!Points(p, Games), D)
      <3>1. Stats!Sum(LAMBDA p : Stats!DailyTotal[p], D) = Total([p \in D |-> Stats!DailyTotal[p]], D)
        BY <2>2, DayAddsUp
      <3>2. Stats!Sum(LAMBDA p : Stats!Points(p, Games), D) = Total([p \in D |-> Stats!Points(p, Games)], D)
        BY <2>2, RankedAddUp
      <3>3. [p \in D |-> Stats!DailyTotal[p]] = [p \in D |-> Stats!Points(p, Games)]
        BY <2>2
      <3> QED  BY <3>1, <3>2, <3>3
    <2>7. \A s \in {card, Stats!ByTotal} : Len(s) = Cardinality(D) /\ DOMAIN s = 1..Cardinality(D)
      BY <2>2, <2>3, <2>5, SortHasAll
    <2>8. ASSUME NEW k \in 1..Cardinality(D)
          PROVE  Stats!DailyTotal[card[k]] = Stats!DailyTotal[Stats!ByTotal[k]]
      <3>1. card[k] \in D /\ Stats!ByTotal[k] \in D
        BY <2>3, <2>5 DEF IsSorted
      <3>2. K[card[k]] = K[Stats!ByTotal[k]]
        <4> HIDE DEF D, K
        <4> QED  BY <2>2, <2>3, <2>5, SortsAgree
      <3> QED  BY <2>2, <3>1, <3>2
    <2> QED  BY <2>1, <2>6, <2>7, <2>8 DEF Stats!AllGames
  <1>4. \A k \in DOMAIN Stats!ByTotal :
          Stats!DailyRank[k] = 1 + Stats!Cardinality({q \in Stats!DailyPlayers :
              Stats!Points(q, Stats!AllGames) > Stats!Points(Stats!ByTotal[k], Stats!AllGames)})
    BY TableRanks, StatsFiniteSets DEF Stats!AllGames
  <1>5. Stats!Sum(LAMBDA p : Stats!DailyTotal[p], Stats!DailyPlayers)
          = Stats!Sum(LAMBDA g : (Stats!DailyScore(g)["home"] + Stats!DailyScore(g)["away"]), Stats!DailyGames)
    BY TotalsAreScores
  <1> QED  BY <1>2, <1>3, <1>4, <1>5 DEF Stats!DayAgreesWithRankings

\* The sum over one.
LEMMA TotalOfOne ==
    ASSUME NEW x, NEW F, F[x] \in Int
    PROVE  Total(F, {x}) = F[x]
  <1>1. IsFiniteSet({x}) /\ {x} \ {x} = {}
    BY FS_Singleton
  <1>2. Total(F, {x}) = F[x] + Total(F, {x} \ {x})
    BY <1>1, TotalWith
  <1>3. Total(F, {x}) = F[x] + 0
    BY <1>1, <1>2, TotalOfNone
  <1> QED  BY <1>3

\* A smaller function has a smaller sum.
LEMMA TotalLeq ==
    ASSUME NEW S, IsFiniteSet(S), NEW F, NEW G,
           \A x \in S : F[x] \in Int /\ G[x] \in Int /\ F[x] <= G[x]
    PROVE  Total(F, S) <= Total(G, S)
  <1> DEFINE D == [x \in S |-> G[x] - F[x]]
  <1>1. \A x \in S : D[x] \in Nat /\ G[x] = F[x] + D[x]
    OBVIOUS
  <1> HIDE DEF D
  <1>2. Total(D, S) \in Nat
    BY <1>1, TotalNat
  <1>3. \A x \in S : F[x] \in Int /\ D[x] \in Int /\ G[x] = F[x] + D[x]
    BY <1>1
  <1>4. Total(G, S) = Total(F, S) + Total(D, S)
    BY <1>3, TotalPlus
  <1>5. Total(F, S) \in Int
    BY TotalType
  <1> QED  BY <1>2, <1>4, <1>5

\* A set is counted by a sum.
LEMMA CardIsTotal ==
    ASSUME NEW S, IsFiniteSet(S), NEW A \in SUBSET S
    PROVE  Total([x \in S |-> IF x \in A THEN 1 ELSE 0], S) = Cardinality(A)
  <1> DEFINE F == [x \in S |-> IF x \in A THEN 1 ELSE 0]
             U == {T \in SUBSET A : Total(F, T) = Cardinality(T)}
  <1>1. \A x \in S : F[x] \in Int
    OBVIOUS
  <1>2. IsFiniteSet(A)
    BY FS_Subset
  <1>3. {} \in U
    <2>1. Total(F, {}) = 0 /\ Cardinality({}) = 0
      BY TotalOfNone, FS_EmptySet
    <2> QED  BY <2>1
  <1>4. ASSUME NEW T \in SUBSET A, NEW x \in A, x \notin T, T \in U PROVE T \cup {x} \in U
    <2>1. F[x] = 1 /\ x \in S /\ T \in SUBSET S
      OBVIOUS
    <2>2. IsFiniteSet(T)
      BY <1>2, FS_Subset
    <2>3. Cardinality(T \cup {x}) = Cardinality(T) + 1 /\ Cardinality(T) \in Nat
      BY <1>4, <2>2, FS_AddElement, FS_CardinalityType
    <2>4. Total(F, T) = Cardinality(T) /\ T \cup {x} \in SUBSET A
      BY <1>4
    <2> HIDE DEF F
    <2>5. Total(F, T \cup {x}) = F[x] + Total(F, T)
      BY <1>1, <1>4, <2>1, TotalAnd
    <2>6. Total(F, T \cup {x}) = Cardinality(T \cup {x})
      BY <2>1, <2>3, <2>4, <2>5
    <2> QED  BY <2>4, <2>6
  <1> HIDE DEF U
  <1>5. A \in U
    BY <1>2, <1>3, <1>4, Grow
  <1>6. Total(F, A) = Cardinality(A)
    BY <1>5 DEF U
  <1>7. \A x \in S \ A : F[x] = 0
    OBVIOUS
  <1> HIDE DEF F
  <1>8. Total(F, S) = Total(F, A)
    BY <1>1, <1>7, TotalOfCounted
  <1> QED  BY <1>6, <1>8 DEF F

\* The sum of one number over a set.
LEMMA TotalOfSame ==
    ASSUME NEW S, IsFiniteSet(S), NEW F, NEW c \in Int, \A x \in S : F[x] = c
    PROVE  Total(F, S) = c * Cardinality(S)
  <1> DEFINE G == [x \in S |-> IF x \in S THEN 1 ELSE 0]
  <1>1. Total(G, S) = Cardinality(S)
    BY CardIsTotal
  <1>2. \A x \in S : G[x] = 1
    OBVIOUS
  <1>3. c * 1 = c
    OBVIOUS
  <1> HIDE DEF G
  <1>4. \A x \in S : G[x] \in Int /\ F[x] = c * G[x]
    BY <1>2, <1>3
  <1>5. Total(F, S) = c * Total(G, S)
    BY <1>4, TotalTimes
  <1> QED  BY <1>1, <1>5

\* Rounding moves by half at most.
LEMMA RoundBounds ==
    ASSUME NEW a \in Int, NEW b \in Nat \ {0}
    PROVE  /\ Stats!Round(a, b) \in Int
           /\ 2 * a - b <= (2 * b) * Stats!Round(a, b)
           /\ (2 * b) * Stats!Round(a, b) <= 2 * a + b
  <1>1. PICK x \in Int, y \in Nat \ {0} : x = 2 * a + b /\ y = 2 * b
    OBVIOUS
  <1>2. Stats!Round(a, b) = x \div y
    BY <1>1 DEF Stats!Round
  <1>3. PICK r \in Int : r = x \div y /\ y * r <= x /\ x < y * r + y
    OBVIOUS
  <1>4. PICK z \in Int : z = y * r
    OBVIOUS
  <1>5. 2 * a - b <= z /\ z <= 2 * a + b
    BY <1>1, <1>3, <1>4
  <1>6. (2 * b) * Stats!Round(a, b) = z
    BY <1>1, <1>2, <1>3, <1>4
  <1> QED  BY <1>2, <1>3, <1>5, <1>6

\* Roundings that add up: half for each.
LEMMA RoundsAddUp ==
    ASSUME NEW S, IsFiniteSet(S), NEW a, NEW r, NEW b \in Nat \ {0},
           \A x \in S : a[x] \in Int /\ r[x] = Stats!Round(a[x], b)
    PROVE  /\ Total(r, S) \in Int
           /\ 2 * Total(a, S) - b * Cardinality(S) <= (2 * b) * Total(r, S)
           /\ (2 * b) * Total(r, S) <= 2 * Total(a, S) + b * Cardinality(S)
  <1> DEFINE A  == [x \in S |-> 2 * a[x]]
             B  == [x \in S |-> b]
             M  == [x \in S |-> -b]
             L  == [x \in S |-> 2 * a[x] + (-b)]
             H  == [x \in S |-> 2 * a[x] + b]
             R  == [x \in S |-> (2 * b) * r[x]]
  <1>1. \A x \in S : a[x] \in Int /\ r[x] \in Int /\ 2 * a[x] - b <= (2 * b) * r[x] /\ (2 * b) * r[x] <= 2 * a[x] + b
    BY RoundBounds
  <1>2. \A x \in S : L[x] \in Int /\ H[x] \in Int /\ R[x] \in Int /\ A[x] \in Int /\ B[x] = b /\ M[x] = -b
    BY <1>1
  <1>3. \A x \in S : L[x] <= R[x] /\ R[x] <= H[x]
    BY <1>1
  <1>4. \A x \in S : A[x] = 2 * a[x] /\ R[x] = (2 * b) * r[x] /\ L[x] = A[x] + M[x] /\ H[x] = A[x] + B[x]
    BY <1>2
  <1> HIDE DEF A, B, M, L, H, R
  <1>5. Total(L, S) <= Total(R, S) /\ Total(R, S) <= Total(H, S)
    BY <1>2, <1>3, TotalLeq
  <1>6. Total(A, S) = 2 * Total(a, S)
    BY <1>1, <1>4, TotalTimes
  <1>7. 2 * b \in Int /\ -b \in Int
    OBVIOUS
  <1>8. Total(R, S) = (2 * b) * Total(r, S)
    BY <1>1, <1>4, <1>7, TotalTimes
  <1>9. Total(B, S) = b * Cardinality(S) /\ Total(M, S) = (-b) * Cardinality(S)
    BY <1>2, <1>7, TotalOfSame
  <1>10. Total(H, S) = Total(A, S) + Total(B, S) /\ Total(L, S) = Total(A, S) + Total(M, S)
    <2>1. \A x \in S : A[x] \in Int /\ B[x] \in Int /\ M[x] \in Int
      BY <1>2, <1>7
    <2> QED  BY <1>4, <2>1, TotalPlus
  <1>11. Total(a, S) \in Int /\ Total(r, S) \in Int /\ Cardinality(S) \in Int
    BY <1>1, TotalType, FS_CardinalityType
  <1>12. PICK c \in Int : c = b * Cardinality(S) /\ (-b) * Cardinality(S) = -c
    BY <1>11
  <1> QED  BY <1>5, <1>6, <1>8, <1>9, <1>10, <1>11, <1>12

\* Of two amounts over one number the greater is rounded to no less.
LEMMA RoundRises ==
    ASSUME NEW a \in Int, NEW c \in Int, a <= c, NEW b \in Nat \ {0}
    PROVE  Stats!Round(a, b) <= Stats!Round(c, b)
  <1>1. PICK x \in Int, z \in Int, y \in Nat \ {0} : x = 2 * a + b /\ z = 2 * c + b /\ y = 2 * b /\ x <= z
    OBVIOUS
  <1>2. PICK r \in Int : r = x \div y /\ y * r <= x
    OBVIOUS
  <1>3. PICK s \in Int : s = z \div y /\ z < y * s + y
    OBVIOUS
  <1>4. y * r < y * (s + 1)
    BY <1>1, <1>2, <1>3
  <1>5. r < s + 1
    BY <1>4
  <1> QED  BY <1>1, <1>2, <1>3, <1>5 DEF Stats!Round

\* Fractions are compared without dividing.
LEMMA TimesRises ==
    ASSUME NEW x \in Int, NEW y \in Int, NEW n \in Nat
    PROVE  /\ x <= y => x * n <= y * n
           /\ n # 0 /\ x * n <= y * n => x <= y
  OBVIOUS

\* So do fractions, by the middle one.
LEMMA FractionsFollow ==
    ASSUME NEW a \in Int, NEW b \in Int, NEW c \in Int,
           NEW k \in Nat \ {0}, NEW l \in Nat \ {0}, NEW m \in Nat \ {0},
           a * l <= b * k, b * m <= c * l
    PROVE  a * m <= c * k
  <1>1. (a * l) * m <= (b * k) * m
    BY TimesRises
  <1>2. (b * m) * k <= (c * l) * k
    BY TimesRises
  <1>3. (b * k) * m = (b * m) * k /\ (a * l) * m = (a * m) * l /\ (c * l) * k = (c * k) * l
    OBVIOUS
  <1>4. (a * m) * l <= (c * k) * l
    BY <1>1, <1>2, <1>3
  <1>5. a * m \in Int /\ c * k \in Int
    OBVIOUS
  <1> QED  BY <1>4, <1>5, TimesRises

-----------------------------------------------------------------------------
(* Percentiles.                                                            *)

\* Who comes after a player, and who is level, by a comparator.
After(p, R, S) == {q \in S : <<p, q>> \in R}
Level(p, R, S) == {q \in S : <<p, q>> \notin R /\ <<q, p>> \notin R}
Half(p, R, S)  == 2 * Cardinality(After(p, R, S)) + Cardinality(Level(p, R, S))

\* Halves count those after and those not before.
LEMMA HalfIs ==
    ASSUME NEW S, IsFiniteSet(S), NEW R, WeakOrder(R, S), NEW p \in S
    PROVE  /\ Cardinality(After(p, R, S)) \in Nat /\ Cardinality(Level(p, R, S)) \in Nat
           /\ Half(p, R, S) \in Nat
           /\ Half(p, R, S) = Cardinality(After(p, R, S)) + Cardinality({q \in S : <<q, p>> \notin R})
  <1> DEFINE A == After(p, R, S)
             L == Level(p, R, S)
  <1>1. /\ IsFiniteSet(A) /\ IsFiniteSet(L) /\ A \cap L = {}
        /\ {q \in S : <<q, p>> \notin R} = A \cup L
    <2>1. A \in SUBSET S /\ L \in SUBSET S
      BY DEF After, Level
    <2>2. A \cap L = {}
      BY DEF After, Level
    <2>3. \A q \in S : <<p, q>> \in R => <<q, p>> \notin R
      BY DEF WeakOrder
    <2>4. {q \in S : <<q, p>> \notin R} = A \cup L
      BY <2>3 DEF After, Level
    <2> QED  BY <2>1, <2>2, <2>4, FS_Subset
  <1>2. Cardinality(A \cap L) = 0
    BY <1>1, FS_EmptySet
  <1>3. Cardinality(A) \in Nat /\ Cardinality(L) \in Nat
    BY <1>1, FS_CardinalityType
  <1>4. Cardinality(A \cup L) = Cardinality(A) + Cardinality(L) - Cardinality(A \cap L)
    <2> HIDE DEF A, L
    <2> QED  BY <1>1, FS_Union
  <1>5. Half(p, R, S) = 2 * Cardinality(A) + Cardinality(L)
    BY DEF Half
  <1>6. Cardinality(A) + Cardinality(L) = Cardinality(A \cup L)
    <2> HIDE DEF A, L
    <2> QED  BY <1>2, <1>3, <1>4
  <1>7. Half(p, R, S) \in Nat /\ Half(p, R, S) = Cardinality(A) + Cardinality(A \cup L)
    <2> HIDE DEF A, L
    <2> QED  BY <1>3, <1>5, <1>6
  <1> QED  BY <1>1, <1>3, <1>7

\* Who is not after has no fewer of them.
LEMMA HalvesAreOrdered ==
    ASSUME NEW S, IsFiniteSet(S), NEW R, WeakOrder(R, S), NEW p \in S, NEW q \in S, <<q, p>> \notin R
    PROVE  Half(q, R, S) <= Half(p, R, S)
  <1> DEFINE N(x) == {y \in S : <<y, x>> \notin R}
  <1>1. After(q, R, S) \subseteq After(p, R, S) /\ After(p, R, S) \in SUBSET S
    BY DEF After, WeakOrder
  <1>2. N(q) \subseteq N(p) /\ N(p) \in SUBSET S
    BY DEF WeakOrder
  <1>3. Cardinality(After(q, R, S)) <= Cardinality(After(p, R, S))
    BY <1>1, FS_Subset
  <1>4. Cardinality(N(q)) <= Cardinality(N(p))
    <2> HIDE DEF N
    <2> QED  BY <1>2, FS_Subset
  <1>5. \A x \in S : /\ Cardinality(After(x, R, S)) \in Nat
                     /\ Half(x, R, S) = Cardinality(After(x, R, S)) + Cardinality(N(x))
    BY HalfIs
  <1>6. \A x \in S : Cardinality(N(x)) \in Nat
    <2> TAKE x \in S
    <2>1. N(x) \in SUBSET S
      OBVIOUS
    <2> HIDE DEF N
    <2> QED  BY <2>1, FS_Subset, FS_CardinalityType
  <1> HIDE DEF N
  <1> QED  BY <1>3, <1>4, <1>5, <1>6

\* Every pair gives two halves.
LEMMA HalvesAddUp ==
    ASSUME NEW S, IsFiniteSet(S), NEW R, WeakOrder(R, S)
    PROVE  Total([p \in S |-> Half(p, R, S)], S) = Cardinality(S) * Cardinality(S)
  <1> DEFINE M == [p \in S |-> [q \in S |-> IF <<p, q>> \in R THEN 2 ELSE IF <<q, p>> \in R THEN 0 ELSE 1]]
             T(p) == [q \in S |-> M[q][p]]
             V == [p \in S |-> Total(M[p], S)]
             W == [p \in S |-> Total(T(p), S)]
             Z == [p \in S |-> Total(M[p], S) + Total(T(p), S)]
             n == Cardinality(S)
  <1>1. \A p, q \in S : M[p][q] \in Int /\ M[p][q] + M[q][p] = 2
    <2> TAKE p, q \in S
    <2>1. /\ M[p][q] = IF <<p, q>> \in R THEN 2 ELSE IF <<q, p>> \in R THEN 0 ELSE 1
          /\ M[q][p] = IF <<q, p>> \in R THEN 2 ELSE IF <<p, q>> \in R THEN 0 ELSE 1
      OBVIOUS
    <2>2. ~(<<p, q>> \in R /\ <<q, p>> \in R)
      BY DEF WeakOrder
    <2> HIDE DEF M
    <2> QED  BY <2>1, <2>2
  <1>2. \A p \in S : V[p] = Half(p, R, S)
    <2> TAKE p \in S
    <2> DEFINE A  == After(p, R, S)
               L  == Level(p, R, S)
               FA == [q \in S |-> IF q \in A THEN 1 ELSE 0]
               GA == [q \in S |-> 2 * FA[q]]
               FL == [q \in S |-> IF q \in L THEN 1 ELSE 0]
    <2>1. A \in SUBSET S /\ L \in SUBSET S
      BY DEF After, Level
    <2>2. Total(FA, S) = Cardinality(A) /\ Total(FL, S) = Cardinality(L)
      <3> HIDE DEF A, L
      <3> QED  BY <2>1, CardIsTotal
    <2>3. \A q \in S : FA[q] \in Int /\ GA[q] \in Int /\ FL[q] \in Int /\ GA[q] = 2 * FA[q]
      OBVIOUS
    <2>4. \A q \in S : M[p][q] = GA[q] + FL[q]
      <3> TAKE q \in S
      <3>1. CASE <<p, q>> \in R
        <4>1. q \in A /\ q \notin L
          BY <3>1 DEF After, Level
        <4>2. M[p][q] = 2
          BY <3>1
        <4>3. FA[q] = 1 /\ FL[q] = 0
          BY <4>1
        <4> HIDE DEF FA, FL, M
        <4> QED  BY <4>2, <4>3
      <3>2. CASE <<p, q>> \notin R /\ <<q, p>> \in R
        <4>1. q \notin A /\ q \notin L
          BY <3>2 DEF After, Level
        <4>2. M[p][q] = 0
          BY <3>2
        <4>3. FA[q] = 0 /\ FL[q] = 0
          BY <4>1
        <4> HIDE DEF FA, FL, M
        <4> QED  BY <4>2, <4>3
      <3>3. CASE <<p, q>> \notin R /\ <<q, p>> \notin R
        <4>1. q \notin A /\ q \in L
          BY <3>3 DEF After, Level
        <4>2. M[p][q] = 1
          BY <3>3
        <4>3. FA[q] = 0 /\ FL[q] = 1
          BY <4>1
        <4> HIDE DEF FA, FL, M
        <4> QED  BY <4>2, <4>3
      <3> QED  BY <3>1, <3>2, <3>3
    <2>5. V[p] = Total(M[p], S)
      OBVIOUS
    <2> HIDE DEF FA, GA, FL, M, V
    <2>6. Total(GA, S) = 2 * Total(FA, S)
      BY <2>3, TotalTimes
    <2>7. Total(M[p], S) = Total(GA, S) + Total(FL, S)
      BY <2>3, <2>4, TotalPlus
    <2> QED  BY <2>2, <2>5, <2>6, <2>7 DEF Half
  <1>3. Total(V, S) = Total(W, S)
    <2>1. Total([p \in S |-> Total(M[p], S)], S) = Total([q \in S |-> Total([p \in S |-> M[p][q]], S)], S)
      <3> HIDE DEF M
      <3> QED  BY <1>1, TotalSwaps
    <2> QED  BY <2>1
  <1>4. \A p \in S : Total(M[p], S) + Total(T(p), S) = 2 * n
    <2> TAKE p \in S
    <2> DEFINE C == [q \in S |-> 2]
    <2>1. \A q \in S : M[p][q] \in Int /\ T(p)[q] \in Int /\ C[q] = M[p][q] + T(p)[q]
      BY <1>1
    <2>2. \A q \in S : C[q] = 2
      OBVIOUS
    <2> HIDE DEF C, M, T
    <2>3. Total(C, S) = Total(M[p], S) + Total(T(p), S)
      BY <2>1, TotalPlus
    <2>4. Total(C, S) = 2 * Cardinality(S)
      BY <2>2, TotalOfSame
    <2> QED  BY <2>3, <2>4
  <1>5. \A p \in S : V[p] \in Int /\ W[p] \in Int /\ Z[p] = V[p] + W[p] /\ Z[p] = 2 * n
    <2> TAKE p \in S
    <2>1. V[p] = Total(M[p], S) /\ W[p] = Total(T(p), S) /\ Z[p] = Total(M[p], S) + Total(T(p), S)
      OBVIOUS
    <2>2. \A q \in S : M[p][q] \in Int /\ T(p)[q] \in Int
      BY <1>1
    <2>3. Total(M[p], S) \in Int /\ Total(T(p), S) \in Int
      <3> HIDE DEF M, T
      <3> QED  BY <2>2, TotalType
    <2>4. Total(M[p], S) + Total(T(p), S) = 2 * n
      BY <1>4
    <2> HIDE DEF M, T, V, W, Z, n
    <2> QED  BY <2>1, <2>3, <2>4
  <1>6. n \in Nat
    BY FS_CardinalityType
  <1> HIDE DEF V, W, Z, M, T
  <1>7. Total(Z, S) = Total(V, S) + Total(W, S)
    BY <1>5, TotalPlus
  <1>8. Total(Z, S) = (2 * n) * Cardinality(S)
    <2>1. 2 * n \in Int
      BY <1>6
    <2> QED  BY <1>5, <2>1, TotalOfSame
  <1>9. Total(V, S) \in Int
    BY <1>5, TotalType
  <1>10. Total(V, S) = n * n
    <2>1. PICK z \in Int, m \in Nat : z = Total(V, S) /\ m = n
      BY <1>6, <1>9
    <2>2. z + z = (2 * m) * m
      BY <1>3, <1>7, <1>8, <2>1
    <2>3. z = m * m
      BY <2>2
    <2> QED  BY <2>1, <2>3
  <1>11. Total(V, S) = Total([p \in S |-> Half(p, R, S)], S)
    <2> DEFINE H == [p \in S |-> Half(p, R, S)]
    <2>1. \A p \in S : V[p] = H[p]
      BY <1>2
    <2> HIDE DEF H
    <2>2. Total(V, S) = Total(H, S)
      BY <2>1, TotalSame
    <2> QED  BY <2>2 DEF H
  <1> QED  BY <1>10, <1>11

\* The percentiles of a pool average 50, up to half a point for each.
LEMMA PercentilesAverage ==
    ASSUME NEW S, IsFiniteSet(S), S # {}, NEW R, WeakOrder(R, S), NEW r, NEW n, n = Cardinality(S),
           \A p \in S : r[p] = Stats!Round(100 * Half(p, R, S), 2 * n)
    PROVE  2 * Total(r, S) - 100 * n \in (-n)..n
  <1> DEFINE H == [p \in S |-> Half(p, R, S)]
             A == [p \in S |-> 100 * H[p]]
  <1>1. n \in Nat \ {0} /\ 2 * n \in Nat \ {0}
    BY FS_CardinalityType, FS_EmptySet
  <1>2. \A p \in S : H[p] \in Int /\ A[p] = 100 * H[p] /\ A[p] \in Int /\ r[p] = Stats!Round(A[p], 2 * n)
    <2> TAKE p \in S
    <2>1. Half(p, R, S) \in Nat
      BY HalfIs
    <2>2. H[p] = Half(p, R, S) /\ A[p] = 100 * Half(p, R, S)
      OBVIOUS
    <2>3. r[p] = Stats!Round(100 * Half(p, R, S), 2 * n)
      OBVIOUS
    <2> HIDE DEF H, A
    <2> QED  BY <2>1, <2>2, <2>3
  <1>3. Total(H, S) = n * n
    BY HalvesAddUp
  <1> HIDE DEF H, A
  <1>4. Total(A, S) = 100 * Total(H, S)
    BY <1>2, TotalTimes
  <1>5. PICK m \in Nat \ {0} : m = 2 * n
    BY <1>1
  <1>6. /\ Total(r, S) \in Int
        /\ 2 * Total(A, S) - m * Cardinality(S) <= (2 * m) * Total(r, S)
        /\ (2 * m) * Total(r, S) <= 2 * Total(A, S) + m * Cardinality(S)
    <2>1. \A p \in S : A[p] \in Int /\ r[p] = Stats!Round(A[p], m)
      BY <1>2, <1>5
    <2> QED  BY <2>1, RoundsAddUp
  <1>7. PICK t \in Int, k \in Nat \ {0} : t = Total(r, S) /\ k = n
    BY <1>1, <1>6
  <1>8. 200 * (k * k) - 2 * (k * k) <= 4 * (k * t) /\ 4 * (k * t) <= 200 * (k * k) + 2 * (k * k)
    BY <1>3, <1>4, <1>5, <1>6, <1>7
  <1>9. (99 * k) * k <= (2 * t) * k /\ (2 * t) * k <= (101 * k) * k
    BY <1>8
  <1>10. 99 * k \in Int /\ 2 * t \in Int /\ 101 * k \in Int
    OBVIOUS
  <1>11. 99 * k <= 2 * t /\ 2 * t <= 101 * k
    BY <1>9, <1>10, TimesRises
  <1> QED  BY <1>7, <1>11

\* The amount of an axis, for any of its items.
Amount(p, axis, scope, S) ==
    Stats!Sum(LAMBDA i : (IF axis.values THEN Value[i] ELSE 1) * Stats!ItemCount(p, i, scope), S)

\* It is a sum.
LEMMA AmountIs ==
    ASSUME NEW p, NEW axis, NEW scope, NEW S, IsFiniteSet(S)
    PROVE  Amount(p, axis, scope, S) = Total([i \in S |-> (IF axis.values THEN Value[i] ELSE 1) * Stats!ItemCount(p, i, scope)], S)
  <1> DEFINE F    == [i \in S |-> (IF axis.values THEN Value[i] ELSE 1) * Stats!ItemCount(p, i, scope)]
             P(k) == k = [s \in SUBSET S |-> IF s = {} THEN 0 ELSE (IF axis.values THEN Value[Pick(s)] ELSE 1) * Stats!ItemCount(p, Pick(s), scope) + k[s \ {Pick(s)}]]
  <1>1. Amount(p, axis, scope, S) = (CHOOSE k : P(k))[S]
    BY DEF Amount, Pick, Stats!Sum, Stats!MapThenSumSet, Stats!MapThenFoldSet
  <1>2. \A k : P(k) <=> AddsUp(k, F, S)
    <2>1. \A s \in SUBSET S : s # {} => F[Pick(s)] = (IF axis.values THEN Value[Pick(s)] ELSE 1) * Stats!ItemCount(p, Pick(s), scope)
      BY PickIn
    <2> HIDE DEF F
    <2> QED  BY <2>1 DEF AddsUp
  <1> HIDE DEF P, F
  <1>3. \E k : P(k)
    BY <1>2, SomeAddsUp
  <1>4. P(CHOOSE k : P(k))
    BY <1>3
  <1>5. Total(F, S) = (CHOOSE k : P(k))[S]
    BY <1>2, <1>4, TotalIs
  <1> QED  BY <1>1, <1>5 DEF F

\* The records of an item.
LEMMA RecordsAddUp ==
    ASSUME NEW i, NEW scope, NEW S, IsFiniteSet(S)
    PROVE  Stats!Sum(LAMBDA p : Stats!ItemCount(p, i, scope), S) = Total([p \in S |-> Stats!ItemCount(p, i, scope)], S)
  <1> DEFINE F    == [p \in S |-> Stats!ItemCount(p, i, scope)]
             P(k) == k = [s \in SUBSET S |-> IF s = {} THEN 0 ELSE Stats!ItemCount(Pick(s), i, scope) + k[s \ {Pick(s)}]]
  <1>1. Stats!Sum(LAMBDA p : Stats!ItemCount(p, i, scope), S) = (CHOOSE k : P(k))[S]
    BY DEF Pick, Stats!Sum, Stats!MapThenSumSet, Stats!MapThenFoldSet
  <1>2. \A k : P(k) <=> AddsUp(k, F, S)
    <2>1. \A s \in SUBSET S : s # {} => F[Pick(s)] = Stats!ItemCount(Pick(s), i, scope)
      BY PickIn
    <2> HIDE DEF F
    <2> QED  BY <2>1 DEF AddsUp
  <1> HIDE DEF P, F
  <1>3. \E k : P(k)
    BY <1>2, SomeAddsUp
  <1>4. P(CHOOSE k : P(k))
    BY <1>3
  <1>5. Total(F, S) = (CHOOSE k : P(k))[S]
    BY <1>2, <1>4, TotalIs
  <1> QED  BY <1>1, <1>5 DEF F

\* The percentiles of some players.
LEMMA RanksAddUp ==
    ASSUME NEW axis, NEW scope, NEW S, IsFiniteSet(S)
    PROVE  Stats!Sum(LAMBDA p : Stats!PercentileRank(p, axis, scope), S) = Total([p \in S |-> Stats!PercentileRank(p, axis, scope)], S)
  <1> DEFINE F    == [p \in S |-> Stats!PercentileRank(p, axis, scope)]
             P(k) == k = [s \in SUBSET S |-> IF s = {} THEN 0 ELSE Stats!PercentileRank(Pick(s), axis, scope) + k[s \ {Pick(s)}]]
  <1>1. Stats!Sum(LAMBDA p : Stats!PercentileRank(p, axis, scope), S) = (CHOOSE k : P(k))[S]
    BY DEF Pick, Stats!Sum, Stats!MapThenSumSet, Stats!MapThenFoldSet
  <1>2. \A k : P(k) <=> AddsUp(k, F, S)
    <2>1. \A s \in SUBSET S : s # {} => F[Pick(s)] = Stats!PercentileRank(Pick(s), axis, scope)
      BY PickIn
    <2> HIDE DEF F
    <2> QED  BY <2>1 DEF AddsUp
  <1> HIDE DEF P, F
  <1>3. \E k : P(k)
    BY <1>2, SomeAddsUp
  <1>4. P(CHOOSE k : P(k))
    BY <1>3
  <1>5. Total(F, S) = (CHOOSE k : P(k))[S]
    BY <1>2, <1>4, TotalIs
  <1> QED  BY <1>1, <1>5 DEF F

\* The players of a scope: who has a record has played.
LEMMA ScopeFacts ==
    ASSUME StatBounds, StatInv, NEW scope \in SUBSET Games
    PROVE  /\ IsFiniteSet(Stats!Live) /\ Stats!Live \subseteq Players
           /\ IsFiniteSet(Stats!Pool(scope)) /\ Stats!Pool(scope) \subseteq Stats!Live
           /\ \A p \in Players : Stats!GamesPlayed(p, scope) \in Nat
           /\ \A p \in Stats!Pool(scope) : Stats!GamesPlayed(p, scope) \in Nat \ {0}
           /\ \A p \in Players, i \in Items : Stats!ItemCount(p, i, scope) \in Nat
           /\ \A i \in Items : Stats!Listed(i, scope) \subseteq Stats!Pool(scope)
  <1> DEFINE C    == scope \cap Stats!Counted
             G(p) == {g \in C : Side[g][p] # "out"}
  <1>1. IsFiniteSet(Stats!Live) /\ Stats!Live \subseteq Players
    BY DayOfRankings
  <1>2. Stats!Pool(scope) \in SUBSET Stats!Live
    BY DEF Stats!Pool
  <1>3. IsFiniteSet(Stats!Pool(scope))
    BY <1>1, <1>2, FS_Subset
  <1>4. C \in SUBSET Games /\ IsFiniteSet(C)
    BY FS_Subset DEF StatBounds
  <1>5. ASSUME NEW p \in Players
        PROVE  Stats!GamesPlayed(p, scope) = Cardinality(G(p)) /\ Cardinality(G(p)) \in Nat
               /\ (G(p) # {} => Cardinality(G(p)) >= 1)
    <2>1. Stats!GamesPlayed(p, scope) = Cardinality(G(p))
      BY StatsFiniteSets DEF Stats!GamesPlayed
    <2>2. G(p) \in SUBSET C
      OBVIOUS
    <2> HIDE DEF G, C
    <2>3. IsFiniteSet(G(p)) /\ Cardinality(G(p)) \in Nat
      BY <1>4, <2>2, FS_Subset, FS_CardinalityType
    <2>4. G(p) # {} => Cardinality(G(p)) # 0
      BY <2>3, FS_EmptySet
    <2> QED  BY <2>1, <2>3, <2>4
  <1>6. ASSUME NEW p \in Players, NEW i \in Items
        PROVE  /\ Stats!ItemCount(p, i, scope) \in Nat
               /\ Stats!ItemCount(p, i, scope) > 0 => G(p) # {}
    <2> DEFINE F == [g \in C |-> count[g][p][i]]
    <2>1. Stats!ItemCount(p, i, scope) = Total(F, C) /\ Total(F, C) \in Nat
      BY <1>4, CountsOver DEF Stats!ItemCount
    <2>2. \A g \in C : F[g] \in Nat /\ F[g] = count[g][p][i]
      BY <1>4, CountsOver
    <2>3. Total(F, C) > 0 => \E g \in C : F[g] > 0
      <3> HIDE DEF F, C
      <3> QED  BY <1>4, <2>2, TotalPositive
    <2>4. \A g \in C : F[g] > 0 => g \in G(p)
      <3> TAKE g \in C
      <3>1. F[g] > 0 => count[g][p][i] # 0
        <4> HIDE DEF F
        <4> QED  BY <2>2
      <3>2. count[g][p][i] # 0 => Side[g][p] # "out"
        BY DEF StatInv
      <3> QED  BY <3>1, <3>2
    <2> HIDE DEF F, G, C
    <2> QED  BY <2>1, <2>3, <2>4
  <1>7. ASSUME NEW i \in Items, NEW p \in Stats!Listed(i, scope) PROVE p \in Stats!Pool(scope)
    <2>1. p \in Stats!Live /\ p \in Players /\ Stats!ItemCount(p, i, scope) > 0
      BY <1>1 DEF Stats!Listed
    <2>2. Stats!GamesPlayed(p, scope) >= 1
      <3> HIDE DEF G
      <3> QED  BY <1>5, <1>6, <2>1
    <2> QED  BY <2>1, <2>2 DEF Stats!Pool
  <1>8. \A p \in Stats!Pool(scope) : Stats!GamesPlayed(p, scope) \in Nat \ {0}
    <2> TAKE p \in Stats!Pool(scope)
    <2>1. Stats!GamesPlayed(p, scope) >= 1 /\ p \in Players
      BY <1>1 DEF Stats!Pool
    <2>2. Stats!GamesPlayed(p, scope) \in Nat
      <3> HIDE DEF G
      <3> QED  BY <1>5, <2>1
    <2> QED  BY <2>1, <2>2
  <1> HIDE DEF G
  <1> QED  BY <1>1, <1>2, <1>3, <1>5, <1>6, <1>7, <1>8

\* The amount of an axis is a number, and that of one item its records.
LEMMA RawIs ==
    ASSUME StatBounds, StatInv, NEW scope \in SUBSET Games, NEW p \in Players,
           NEW axis, axis.items \subseteq Items
    PROVE  /\ Stats!Raw(p, axis, scope) \in Int
           /\ \A i \in Items : axis.items = {i} /\ ~axis.values
                => Stats!Raw(p, axis, scope) = Stats!ItemCount(p, i, scope)
  <1> DEFINE I == axis.items
             F == [i \in I |-> (IF axis.values THEN Value[i] ELSE 1) * Stats!ItemCount(p, i, scope)]
  <1>1. IsFiniteSet(I)
    BY FS_Subset DEF StatBounds
  <1>2. Stats!Raw(p, axis, scope) = Total(F, I)
    <2>1. Stats!Raw(p, axis, scope) = Amount(p, axis, scope, I)
      BY DEF Stats!Raw, Amount
    <2>2. Amount(p, axis, scope, I) = Total(F, I)
      BY <1>1, AmountIs
    <2> QED  BY <2>1, <2>2
  <1>3. \A i \in I : Stats!ItemCount(p, i, scope) \in Nat /\ Value[i] \in Int
    BY ScopeFacts DEF StatBounds
  <1>4. \A i \in I : F[i] \in Int
    <2> TAKE i \in I
    <2>1. PICK v \in Int, c \in Nat : v = (IF axis.values THEN Value[i] ELSE 1) /\ c = Stats!ItemCount(p, i, scope)
      BY <1>3
    <2>2. F[i] = v * c
      BY <2>1
    <2> HIDE DEF F
    <2> QED  BY <2>2
  <1>5. Total(F, I) \in Int
    <2> HIDE DEF F, I
    <2> QED  BY <1>1, <1>4, TotalType
  <1>6. ASSUME NEW i \in Items, I = {i}, ~axis.values PROVE Total(F, I) = Stats!ItemCount(p, i, scope)
    <2>1. i \in I
      BY <1>6
    <2>2. F[i] = 1 * Stats!ItemCount(p, i, scope)
      BY <1>6, <2>1
    <2>3. F[i] = Stats!ItemCount(p, i, scope) /\ F[i] \in Int
      <3> HIDE DEF F
      <3> QED  BY <1>3, <2>1, <2>2
    <2> HIDE DEF F
    <2>4. Total(F, {i}) = F[i]
      BY <2>3, TotalOfOne
    <2> HIDE DEF I
    <2> QED  BY <1>6, <2>3, <2>4
  <1> HIDE DEF F
  <1> QED  BY <1>2, <1>5, <1>6

-----------------------------------------------------------------------------
(* The percentiles of a pool.                                              *)

\* Whom another follows on an axis.
Poorer(axis, scope) ==
    {x \in Stats!Pool(scope) \X Stats!Pool(scope) :
        IF axis.up THEN Stats!Below(x[2], x[1], axis, scope) ELSE Stats!Below(x[1], x[2], axis, scope)}

\* Averages of players who played are compared as numbers are.
LEMMA PoorerIsWeakOrder ==
    ASSUME StatBounds, StatInv, NEW scope \in SUBSET Games, NEW axis, axis.items \subseteq Items
    PROVE  WeakOrder(Poorer(axis, scope), Stats!Pool(scope))
  <1> DEFINE S    == Stats!Pool(scope)
             r(p) == Stats!Raw(p, axis, scope)
             g(p) == Stats!GamesPlayed(p, scope)
  <1>1. \A p \in S : r(p) \in Int /\ g(p) \in Nat \ {0}
    BY ScopeFacts, RawIs
  <1>2. \A p, q \in S : /\ r(p) * g(q) \in Int
                        /\ Stats!Below(p, q, axis, scope) <=> r(p) * g(q) < r(q) * g(p)
    <2> TAKE p, q \in S
    <2>1. Stats!Below(p, q, axis, scope) <=> r(p) * g(q) < r(q) * g(p)
      BY DEF Stats!Below
    <2> HIDE DEF r, g, S
    <2>2. PICK a \in Int, b \in Int : a = r(p) /\ b = g(q)
      BY <1>1
    <2>3. a * b \in Int
      OBVIOUS
    <2> QED  BY <2>1, <2>2, <2>3
  <1>3. \A p, q, o \in S : r(p) * g(q) <= r(q) * g(p) /\ r(q) * g(o) <= r(o) * g(q)
                            => r(p) * g(o) <= r(o) * g(p)
    <2> HIDE DEF r, g, S
    <2> QED  BY <1>1, FractionsFollow
  <1>4. \A p, q \in S : <<p, q>> \in Poorer(axis, scope)
          <=> IF axis.up THEN Stats!Below(q, p, axis, scope) ELSE Stats!Below(p, q, axis, scope)
    BY DEF Poorer
  <1> HIDE DEF r, g, S
  <1>5. \A p, q \in S : <<p, q>> \notin Poorer(axis, scope)
          <=> IF axis.up THEN r(p) * g(q) <= r(q) * g(p) ELSE r(q) * g(p) <= r(p) * g(q)
    <2> TAKE p, q \in S
    <2>1. PICK a \in Int, b \in Int : a = r(p) * g(q) /\ b = r(q) * g(p)
      BY <1>2
    <2>2. /\ Stats!Below(p, q, axis, scope) <=> a < b
          /\ Stats!Below(q, p, axis, scope) <=> b < a
      BY <1>2, <2>1
    <2> QED  BY <1>4, <2>1, <2>2
  <1>6. \A p, q \in S : <<p, q>> \in Poorer(axis, scope) => <<q, p>> \notin Poorer(axis, scope)
    BY <1>2, <1>4
  <1>7. \A p, q, o \in S : <<p, q>> \notin Poorer(axis, scope) /\ <<q, o>> \notin Poorer(axis, scope)
          => <<p, o>> \notin Poorer(axis, scope)
    <2>1. CASE axis.up
      BY <1>3, <1>5, <2>1
    <2>2. CASE ~axis.up
      BY <1>3, <1>5, <2>2
    <2> QED  BY <2>1, <2>2
  <1>8. WeakOrder(Poorer(axis, scope), S)
    BY <1>6, <1>7 DEF WeakOrder
  <1> QED  BY <1>8 DEF S

\* A percentile counts those who are poorer, and half of those who are level.
LEMMA PercentileIs ==
    ASSUME NEW scope, NEW axis, NEW p \in Stats!Pool(scope)
    PROVE  Stats!PercentileRank(p, axis, scope)
             = Stats!Round(100 * Half(p, Poorer(axis, scope), Stats!Pool(scope)), 2 * Cardinality(Stats!Pool(scope)))
  <1> DEFINE S == Stats!Pool(scope)
             R == Poorer(axis, scope)
  <1>1. Stats!Worse(p, axis, scope) = After(p, R, S)
    BY DEF Stats!Worse, After, Poorer
  <1>2. Stats!Ties(p, axis, scope) = Level(p, R, S)
    <2>1. CASE axis.up
      BY <2>1 DEF Stats!Ties, Level, Poorer
    <2>2. CASE ~axis.up
      BY <2>2 DEF Stats!Ties, Level, Poorer
    <2> QED  BY <2>1, <2>2
  <1>3. /\ Stats!Cardinality(Stats!Worse(p, axis, scope)) = Cardinality(After(p, R, S))
        /\ Stats!Cardinality(Stats!Ties(p, axis, scope)) = Cardinality(Level(p, R, S))
        /\ Stats!Cardinality(S) = Cardinality(S)
    BY <1>1, <1>2, StatsFiniteSets
  <1> QED  BY <1>3 DEF Stats!PercentileRank, Half

\* The sum of the percentiles of a pool.
RankSum(axis, scope) == Stats!Sum(LAMBDA p : Stats!PercentileRank(p, axis, scope), Stats!Pool(scope))

\* On every axis the percentiles average 50.
LEMMA AxesAverage ==
    ASSUME StatBounds, StatInv, NEW scope \in SUBSET Games, NEW axis, axis.items \subseteq Items,
           NEW n, n = Cardinality(Stats!Pool(scope)), n > 1
    PROVE  2 * RankSum(axis, scope) - 100 * n \in (-n)..n
  <1> DEFINE S == Stats!Pool(scope)
             R == Poorer(axis, scope)
             r == [p \in S |-> Stats!PercentileRank(p, axis, scope)]
  <1>1. IsFiniteSet(S) /\ WeakOrder(R, S)
    BY ScopeFacts, PoorerIsWeakOrder
  <1>2. S # {}
    <2> SUFFICES ASSUME S = {} PROVE FALSE
      OBVIOUS
    <2>1. Cardinality(S) = 0
      BY FS_EmptySet
    <2> HIDE DEF S
    <2> QED  BY <2>1 DEF S
  <1>3. RankSum(axis, scope) = Total(r, S)
    BY <1>1, RanksAddUp DEF RankSum
  <1>4. \A p \in S : r[p] = Stats!Round(100 * Half(p, R, S), 2 * n)
    <2> TAKE p \in S
    <2>1. r[p] = Stats!PercentileRank(p, axis, scope)
      OBVIOUS
    <2> QED  BY <2>1, PercentileIs
  <1>5. 2 * Total(r, S) - 100 * n \in (-n)..n
    <2>1. n = Cardinality(S)
      OBVIOUS
    <2> HIDE DEF S, R, r
    <2> QED  BY <1>1, <1>2, <1>4, <2>1, PercentilesAverage
  <1> QED  BY <1>3, <1>5

-----------------------------------------------------------------------------
(* The cards of averages and the axes.                                     *)

\* Who is before whom on the card of an item's averages.
CardOrder(i, amount, scope) ==
    {x \in Stats!Listed(i, scope) \X Stats!Listed(i, scope) :
        Stats!Better("average", x[1], x[2], amount, Value[i], scope)}

\* It compares averages.
LEMMA CardCompares ==
    ASSUME StatBounds, StatInv, NEW scope \in SUBSET Games, NEW i \in Items,
           NEW amount, amount = [p \in Players |-> Stats!ItemCount(p, i, scope)],
           NEW p \in Stats!Listed(i, scope), NEW q \in Stats!Listed(i, scope)
    PROVE  /\ amount[p] \in Int /\ Stats!GamesPlayed(p, scope) \in Nat \ {0}
           /\ amount[p] * Stats!GamesPlayed(q, scope) \in Int
           /\ Stats!Better("average", p, q, amount, Value[i], scope)
                <=> IF Value[i] < 0 THEN amount[p] * Stats!GamesPlayed(q, scope) < amount[q] * Stats!GamesPlayed(p, scope)
                    ELSE amount[q] * Stats!GamesPlayed(p, scope) < amount[p] * Stats!GamesPlayed(q, scope)
  <1>1. \A o \in {p, q} : /\ o \in Players /\ amount[o] \in Nat
                          /\ Stats!GamesPlayed(o, scope) \in Nat \ {0}
    <2> TAKE o \in {p, q}
    <2>1. o \in Stats!Pool(scope) /\ o \in Players
      BY ScopeFacts
    <2>2. Stats!ItemCount(o, i, scope) \in Nat /\ Stats!GamesPlayed(o, scope) \in Nat \ {0}
      BY <2>1, ScopeFacts
    <2> QED  BY <2>1, <2>2
  <1>2. Stats!PerGame(amount[p], p, q, scope) = amount[p] * Stats!GamesPlayed(q, scope)
    BY <1>1 DEF Stats!PerGame
  <1>3. Stats!PerGame(amount[q], q, p, scope) = amount[q] * Stats!GamesPlayed(p, scope)
    BY <1>1 DEF Stats!PerGame
  <1>4. PICK a \in Nat, b \in Nat, g \in Nat \ {0}, h \in Nat \ {0} :
           a = amount[p] /\ b = amount[q] /\ g = Stats!GamesPlayed(p, scope) /\ h = Stats!GamesPlayed(q, scope)
    BY <1>1
  <1>5. PICK m \in Int, n \in Int : m = a * h /\ n = b * g
    OBVIOUS
  <1>6. Stats!Better("average", p, q, amount, Value[i], scope) <=> Stats!MoreOf(m, n, Value[i])
    BY <1>2, <1>3, <1>4, <1>5 DEF Stats!Better
  <1>7. Stats!MoreOf(m, n, Value[i]) <=> IF Value[i] < 0 THEN m < n ELSE n < m
    BY <1>5 DEF Stats!MoreOf
  <1> QED  BY <1>4, <1>5, <1>6, <1>7

\* It is a weak order.
LEMMA CardOrderIsWeak ==
    ASSUME StatBounds, StatInv, NEW scope \in SUBSET Games, NEW i \in Items,
           NEW amount, amount = [p \in Players |-> Stats!ItemCount(p, i, scope)]
    PROVE  IsFiniteSet(Stats!Listed(i, scope)) /\ WeakOrder(CardOrder(i, amount, scope), Stats!Listed(i, scope))
  <1> DEFINE S    == Stats!Listed(i, scope)
             R    == CardOrder(i, amount, scope)
             g(p) == Stats!GamesPlayed(p, scope)
  <1>1. IsFiniteSet(S)
    <2>1. S \in SUBSET Stats!Pool(scope) /\ IsFiniteSet(Stats!Pool(scope))
      BY ScopeFacts
    <2> QED  BY <2>1, FS_Subset
  <1>2. \A p, q \in S : /\ amount[p] \in Int /\ g(p) \in Nat \ {0} /\ amount[p] * g(q) \in Int
                        /\ <<p, q>> \in R <=> Stats!Better("average", p, q, amount, Value[i], scope)
    BY CardCompares DEF CardOrder
  <1>3. \A p, q \in S : <<p, q>> \in R <=> IF Value[i] < 0 THEN amount[p] * g(q) < amount[q] * g(p)
                                           ELSE amount[q] * g(p) < amount[p] * g(q)
    BY CardCompares DEF CardOrder
  <1> HIDE DEF S, R, g
  <1>4. \A p, q, o \in S : amount[p] * g(q) <= amount[q] * g(p) /\ amount[q] * g(o) <= amount[o] * g(q)
                            => amount[p] * g(o) <= amount[o] * g(p)
    BY <1>2, FractionsFollow
  <1>5. \A p, q \in S : <<p, q>> \notin R <=> IF Value[i] < 0 THEN amount[q] * g(p) <= amount[p] * g(q)
                                              ELSE amount[p] * g(q) <= amount[q] * g(p)
    <2> TAKE p, q \in S
    <2>1. PICK a \in Int, b \in Int : a = amount[p] * g(q) /\ b = amount[q] * g(p)
      BY <1>2
    <2>2. <<p, q>> \in R <=> IF Value[i] < 0 THEN a < b ELSE b < a
      BY <1>3, <2>1
    <2> QED  BY <2>1, <2>2
  <1>6. \A p, q \in S : <<p, q>> \in R => <<q, p>> \notin R
    <2> TAKE p, q \in S
    <2>1. PICK a \in Int, b \in Int : a = amount[p] * g(q) /\ b = amount[q] * g(p)
      BY <1>2
    <2>2. /\ <<p, q>> \in R <=> IF Value[i] < 0 THEN a < b ELSE b < a
          /\ <<q, p>> \in R <=> IF Value[i] < 0 THEN b < a ELSE a < b
      BY <1>3, <2>1
    <2> QED  BY <2>1, <2>2
  <1>7. \A p, q, o \in S : <<p, q>> \notin R /\ <<q, o>> \notin R => <<p, o>> \notin R
    <2>1. CASE Value[i] < 0
      BY <1>4, <1>5, <2>1
    <2>2. CASE ~(Value[i] < 0)
      BY <1>4, <1>5, <2>2
    <2> QED  BY <2>1, <2>2
  <1>8. WeakOrder(R, S)
    BY <1>6, <1>7 DEF WeakOrder
  <1> QED  BY <1>1, <1>8 DEF S, R

\* The card of an item's averages is in their order.
LEMMA CardsAreSorted ==
    ASSUME NEW scope \in SUBSET Games, NEW i \in Items, NEW amount, StatBounds, StatInv, amount = [p \in Players |-> Stats!ItemCount(p, i, scope)]
    PROVE  IsSorted(Stats!ItemCard(i, "average", scope), Stats!Listed(i, scope), CardOrder(i, amount, scope))
  <1> DEFINE S    == Stats!Listed(i, scope)
             R    == CardOrder(i, amount, scope)
             P(s) == \A k, l \in 1..Stats!Cardinality(S) : k < l => s[k] # s[l] /\ ~(Stats!Better("average", s[l], s[k], amount, Value[i], scope))
  <1>1. Stats!ItemCard(i, "average", scope) = CHOOSE s \in [1..Stats!Cardinality(S) -> S] : P(s)
    BY DEF Stats!ItemCard, Stats!Sorted
  <1>2. IsFiniteSet(S) /\ WeakOrder(R, S)
    BY CardOrderIsWeak
  <1>3. Stats!Cardinality(S) = Cardinality(S)
    BY StatsFiniteSets
  <1>4. ASSUME NEW s \in [1..Cardinality(S) -> S] PROVE P(s) <=> IsSorted(s, S, R)
    <2>1. \A k \in 1..Cardinality(S) : s[k] \in S
      OBVIOUS
    <2>2. \A a, b \in S : <<a, b>> \in R <=> Stats!Better("average", a, b, amount, Value[i], scope)
      BY DEF ByKey, CardOrder
    <2> HIDE DEF S, R
    <2> QED  BY <1>3, <2>1, <2>2 DEF IsSorted
  <1>5. \E s \in [1..Cardinality(S) -> S] : P(s)
    <2>1. PICK s : IsSorted(s, S, R)
      <3> HIDE DEF S, R
      <3> QED  BY <1>2, SomeSort
    <2>2. s \in [1..Cardinality(S) -> S]
      BY <2>1 DEF IsSorted
    <2> HIDE DEF P, S, R
    <2> QED  BY <1>4, <2>1, <2>2
  <1> HIDE DEF P, S, R
  <1>6. P(Stats!ItemCard(i, "average", scope)) /\ Stats!ItemCard(i, "average", scope) \in [1..Cardinality(S) -> S]
    BY <1>1, <1>3, <1>5
  <1> QED  BY <1>4, <1>6 DEF S, R

\* The card and the axis of an item put the players in one order.
LEMMA CardFollowsAxis ==
    ASSUME StatBounds, StatInv, NEW scope \in SUBSET Games, NEW i \in Items,
           NEW axis, axis.items = {i}, ~axis.values, axis.up \in BOOLEAN,
           NEW card, card = Stats!ItemCard(i, "average", scope),
           NEW k \in DOMAIN card, NEW l \in DOMAIN card, k < l
    PROVE  IF axis.up = (Value[i] >= 0)
           THEN Stats!PercentileRank(card[k], axis, scope) >= Stats!PercentileRank(card[l], axis, scope)
           ELSE Stats!PercentileRank(card[k], axis, scope) <= Stats!PercentileRank(card[l], axis, scope)
  <1> DEFINE S      == Stats!Listed(i, scope)
             P      == Stats!Pool(scope)
             R      == Poorer(axis, scope)
             amount == [p \in Players |-> Stats!ItemCount(p, i, scope)]
             g(p)   == Stats!GamesPlayed(p, scope)
             rank(p) == Stats!PercentileRank(p, axis, scope)
  <1>1. IsSorted(card, S, CardOrder(i, amount, scope))
    BY CardsAreSorted
  <1>2. PICK p \in S, q \in S : p = card[k] /\ q = card[l] /\ <<q, p>> \notin CardOrder(i, amount, scope)
    <2> HIDE DEF S, amount
    <2>1. card \in [1..Cardinality(S) -> S] /\ k \in 1..Cardinality(S) /\ l \in 1..Cardinality(S)
      BY <1>1 DEF IsSorted
    <2>2. card[k] \in S /\ card[l] \in S /\ <<card[l], card[k]>> \notin CardOrder(i, amount, scope)
      BY <1>1, <2>1 DEF IsSorted
    <2> QED  BY <2>2
  <1>3. ~Stats!Better("average", q, p, amount, Value[i], scope)
    BY <1>2 DEF CardOrder
  <1>4. PICK a \in Int, b \in Int : a = amount[p] * g(q) /\ b = amount[q] * g(p)
    BY CardCompares
  <1>5. IF Value[i] < 0 THEN a <= b ELSE b <= a
    <2>1. Stats!Better("average", q, p, amount, Value[i], scope) <=> IF Value[i] < 0 THEN b < a ELSE a < b
      BY <1>4, CardCompares
    <2> QED  BY <1>3, <1>4, <2>1
  <1>6. p \in P /\ q \in P /\ p \in Players /\ q \in Players /\ axis.items \subseteq Items
    BY ScopeFacts
  <1>7. Stats!Raw(p, axis, scope) = amount[p] /\ Stats!Raw(q, axis, scope) = amount[q]
    BY <1>6, RawIs
  <1>8. /\ Stats!Below(p, q, axis, scope) <=> a < b
        /\ Stats!Below(q, p, axis, scope) <=> b < a
    <2> HIDE DEF amount
    <2> QED  BY <1>4, <1>7 DEF Stats!Below
  <1>9. /\ <<p, q>> \in R <=> IF axis.up THEN b < a ELSE a < b
        /\ <<q, p>> \in R <=> IF axis.up THEN a < b ELSE b < a
    BY <1>6, <1>8 DEF Poorer
  <1>10. Value[i] \in Int
    BY DEF StatBounds
  <1>11. IsFiniteSet(P) /\ WeakOrder(R, P)
    BY <1>6, ScopeFacts, PoorerIsWeakOrder
  <1>12. \A x, y \in P : <<x, y>> \notin R => rank(x) <= rank(y)
    <2> TAKE x, y \in P
    <2> SUFFICES ASSUME <<x, y>> \notin R PROVE rank(x) <= rank(y)
      OBVIOUS
    <2>1. Half(x, R, P) <= Half(y, R, P) /\ Half(x, R, P) \in Nat /\ Half(y, R, P) \in Nat
      <3> HIDE DEF R, P
      <3> QED  BY <1>11, HalvesAreOrdered, HalfIs
    <2>2. 2 * Cardinality(P) \in Nat \ {0}
      <3>1. Cardinality(P) \in Nat /\ Cardinality(P) # 0
        <4> HIDE DEF P
        <4> QED  BY <1>11, FS_CardinalityType, FS_EmptySet
      <3> HIDE DEF P
      <3> QED  BY <3>1
    <2>3. /\ rank(x) = Stats!Round(100 * Half(x, R, P), 2 * Cardinality(P))
          /\ rank(y) = Stats!Round(100 * Half(y, R, P), 2 * Cardinality(P))
      BY PercentileIs
    <2>4. PICK m \in Int, n \in Int : m = 100 * Half(x, R, P) /\ n = 100 * Half(y, R, P) /\ m <= n
      <3> HIDE DEF R, P
      <3> QED  BY <2>1
    <2>5. PICK c \in Nat \ {0} : c = 2 * Cardinality(P)
      BY <2>2
    <2>6. Stats!Round(m, c) <= Stats!Round(n, c)
      BY <2>4, RoundRises
    <2> HIDE DEF R, P, rank
    <2> QED  BY <2>3, <2>4, <2>5, <2>6
  <1>13. \A x \in P : rank(x) \in Int
    <2> TAKE x \in P
    <2>1. Half(x, R, P) \in Nat
      <3> HIDE DEF R, P
      <3> QED  BY <1>11, HalfIs
    <2>2. 2 * Cardinality(P) \in Nat \ {0}
      <3>1. Cardinality(P) \in Nat /\ Cardinality(P) # 0
        <4> HIDE DEF P
        <4> QED  BY <1>11, FS_CardinalityType, FS_EmptySet
      <3> HIDE DEF P
      <3> QED  BY <3>1
    <2>3. rank(x) = Stats!Round(100 * Half(x, R, P), 2 * Cardinality(P))
      BY PercentileIs
    <2> HIDE DEF R, P, rank
    <2>4. PICK m \in Int, c \in Nat \ {0} : m = 100 * Half(x, R, P) /\ c = 2 * Cardinality(P)
      BY <2>1, <2>2
    <2> QED  BY <2>3, <2>4, RoundBounds
  <1>14. IF axis.up = (Value[i] >= 0) THEN rank(q) <= rank(p) ELSE rank(p) <= rank(q)
    <2>1. CASE axis.up /\ Value[i] >= 0
      <3>1. <<q, p>> \notin R
        BY <1>4, <1>5, <1>9, <1>10, <2>1
      <3>2. rank(q) <= rank(p)
        BY <1>6, <1>12, <3>1
      <3>3. axis.up = (Value[i] >= 0)
        BY <2>1
      <3> HIDE DEF rank
      <3> QED  BY <3>2, <3>3
    <2>2. CASE ~axis.up /\ ~(Value[i] >= 0)
      <3>1. <<q, p>> \notin R
        BY <1>4, <1>5, <1>9, <1>10, <2>2
      <3>2. rank(q) <= rank(p)
        BY <1>6, <1>12, <3>1
      <3>3. axis.up = (Value[i] >= 0)
        BY <2>2
      <3> HIDE DEF rank
      <3> QED  BY <3>2, <3>3
    <2>3. CASE axis.up /\ ~(Value[i] >= 0)
      <3>1. <<p, q>> \notin R
        BY <1>4, <1>5, <1>9, <1>10, <2>3
      <3>2. rank(p) <= rank(q)
        BY <1>6, <1>12, <3>1
      <3>3. ~(axis.up = (Value[i] >= 0))
        BY <2>3
      <3> HIDE DEF rank
      <3> QED  BY <3>2, <3>3
    <2>4. CASE ~axis.up /\ Value[i] >= 0
      <3>1. <<p, q>> \notin R
        BY <1>4, <1>5, <1>9, <1>10, <2>4
      <3>2. rank(p) <= rank(q)
        BY <1>6, <1>12, <3>1
      <3>3. ~(axis.up = (Value[i] >= 0))
        BY <2>4
      <3> HIDE DEF rank
      <3> QED  BY <3>2, <3>3
    <2> QED  BY <2>1, <2>2, <2>3, <2>4
  <1>15. rank(p) \in Int /\ rank(q) \in Int
    BY <1>6, <1>13
  <1>16. IF axis.up = (Value[i] >= 0) THEN rank(p) >= rank(q) ELSE rank(p) <= rank(q)
    <2> HIDE DEF rank
    <2> QED  BY <1>14, <1>15
  <1> HIDE DEF S, P, R, amount, g
  <1> QED  BY <1>2, <1>16

\* The shots of some players in a game.
LEMMA TeamShotsAddUp ==
    ASSUME NEW g, NEW S, IsFiniteSet(S)
    PROVE  Stats!Sum(LAMBDA p : Stats!ShotsIn(g, p), S) = Total([p \in S |-> Stats!ShotsIn(g, p)], S)
  <1> DEFINE F    == [p \in S |-> Stats!ShotsIn(g, p)]
             P(k) == k = [s \in SUBSET S |-> IF s = {} THEN 0 ELSE Stats!ShotsIn(g, Pick(s)) + k[s \ {Pick(s)}]]
  <1>1. Stats!Sum(LAMBDA p : Stats!ShotsIn(g, p), S) = (CHOOSE k : P(k))[S]
    BY DEF Pick, Stats!Sum, Stats!MapThenSumSet, Stats!MapThenFoldSet
  <1>2. \A k : P(k) <=> AddsUp(k, F, S)
    <2>1. \A s \in SUBSET S : s # {} => F[Pick(s)] = Stats!ShotsIn(g, Pick(s))
      BY PickIn
    <2> HIDE DEF F
    <2> QED  BY <2>1 DEF AddsUp
  <1> HIDE DEF P, F
  <1>3. \E k : P(k)
    BY <1>2, SomeAddsUp
  <1>4. P(CHOOSE k : P(k))
    BY <1>3
  <1>5. Total(F, S) = (CHOOSE k : P(k))[S]
    BY <1>2, <1>4, TotalIs
  <1> QED  BY <1>1, <1>5 DEF F

\* The shots of a player in some games.
LEMMA OwnShotsAddUp ==
    ASSUME NEW p, NEW S, IsFiniteSet(S)
    PROVE  Stats!Sum(LAMBDA g : Stats!ShotsIn(g, p), S) = Total([g \in S |-> Stats!ShotsIn(g, p)], S)
  <1> DEFINE F    == [g \in S |-> Stats!ShotsIn(g, p)]
             P(k) == k = [s \in SUBSET S |-> IF s = {} THEN 0 ELSE Stats!ShotsIn(Pick(s), p) + k[s \ {Pick(s)}]]
  <1>1. Stats!Sum(LAMBDA g : Stats!ShotsIn(g, p), S) = (CHOOSE k : P(k))[S]
    BY DEF Pick, Stats!Sum, Stats!MapThenSumSet, Stats!MapThenFoldSet
  <1>2. \A k : P(k) <=> AddsUp(k, F, S)
    <2>1. \A s \in SUBSET S : s # {} => F[Pick(s)] = Stats!ShotsIn(Pick(s), p)
      BY PickIn
    <2> HIDE DEF F
    <2> QED  BY <2>1 DEF AddsUp
  <1> HIDE DEF P, F
  <1>3. \E k : P(k)
    BY <1>2, SomeAddsUp
  <1>4. P(CHOOSE k : P(k))
    BY <1>3
  <1>5. Total(F, S) = (CHOOSE k : P(k))[S]
    BY <1>2, <1>4, TotalIs
  <1> QED  BY <1>1, <1>5 DEF F

\* The shots of a player's teams.
LEMMA TheirShotsAddUp ==
    ASSUME NEW p, NEW S, IsFiniteSet(S)
    PROVE  Stats!Sum(LAMBDA g : Stats!TeamShots(g, Side[g][p]), S) = Total([g \in S |-> Stats!TeamShots(g, Side[g][p])], S)
  <1> DEFINE F    == [g \in S |-> Stats!TeamShots(g, Side[g][p])]
             P(k) == k = [s \in SUBSET S |-> IF s = {} THEN 0 ELSE Stats!TeamShots(Pick(s), Side[Pick(s)][p]) + k[s \ {Pick(s)}]]
  <1>1. Stats!Sum(LAMBDA g : Stats!TeamShots(g, Side[g][p]), S) = (CHOOSE k : P(k))[S]
    BY DEF Pick, Stats!Sum, Stats!MapThenSumSet, Stats!MapThenFoldSet
  <1>2. \A k : P(k) <=> AddsUp(k, F, S)
    <2>1. \A s \in SUBSET S : s # {} => F[Pick(s)] = Stats!TeamShots(Pick(s), Side[Pick(s)][p])
      BY PickIn
    <2> HIDE DEF F
    <2> QED  BY <2>1 DEF AddsUp
  <1> HIDE DEF P, F
  <1>3. \E k : P(k)
    BY <1>2, SomeAddsUp
  <1>4. P(CHOOSE k : P(k))
    BY <1>3
  <1>5. Total(F, S) = (CHOOSE k : P(k))[S]
    BY <1>2, <1>4, TotalIs
  <1> QED  BY <1>1, <1>5 DEF F

\* The shares of some players.
LEMMA SharesAddUp ==
    ASSUME NEW scope, NEW S, IsFiniteSet(S)
    PROVE  Stats!Sum(LAMBDA p : Stats!Share(p, scope), S) = Total([p \in S |-> Stats!Share(p, scope)], S)
  <1> DEFINE F    == [p \in S |-> Stats!Share(p, scope)]
             P(k) == k = [s \in SUBSET S |-> IF s = {} THEN 0 ELSE Stats!Share(Pick(s), scope) + k[s \ {Pick(s)}]]
  <1>1. Stats!Sum(LAMBDA p : Stats!Share(p, scope), S) = (CHOOSE k : P(k))[S]
    BY DEF Pick, Stats!Sum, Stats!MapThenSumSet, Stats!MapThenFoldSet
  <1>2. \A k : P(k) <=> AddsUp(k, F, S)
    <2>1. \A s \in SUBSET S : s # {} => F[Pick(s)] = Stats!Share(Pick(s), scope)
      BY PickIn
    <2> HIDE DEF F
    <2> QED  BY <2>1 DEF AddsUp
  <1> HIDE DEF P, F
  <1>3. \E k : P(k)
    BY <1>2, SomeAddsUp
  <1>4. P(CHOOSE k : P(k))
    BY <1>3
  <1>5. Total(F, S) = (CHOOSE k : P(k))[S]
    BY <1>2, <1>4, TotalIs
  <1> QED  BY <1>1, <1>5 DEF F

\* The items in the order of their records.
TopOrder(scope) ==
    Stats!Sorted(Stats!Present(scope), LAMBDA i, j : Stats!TotalOf(i, scope) > Stats!TotalOf(j, scope))

\* Records of an item are counted.
LEMMA RecordsAreCounted ==
    ASSUME StatBounds, StatInv, NEW scope \in SUBSET Games
    PROVE  \A i \in Items : Stats!TotalOf(i, scope) \in Int
  <1> TAKE i \in Items
  <1> DEFINE F == [p \in Stats!Live |-> Stats!ItemCount(p, i, scope)]
  <1>1. IsFiniteSet(Stats!Live) /\ \A p \in Stats!Live : Stats!ItemCount(p, i, scope) \in Nat
    BY ScopeFacts
  <1>2. Stats!TotalOf(i, scope) = Total(F, Stats!Live)
    BY <1>1, RecordsAddUp DEF Stats!TotalOf
  <1>3. \A p \in Stats!Live : F[p] \in Int
    BY <1>1
  <1> HIDE DEF F
  <1> QED  BY <1>1, <1>2, <1>3, TotalType

\* Such an order there is.
LEMMA TopIsSorted ==
    ASSUME NEW scope \in SUBSET Games, NEW K, StatBounds, StatInv, K = [i \in Items |-> Stats!TotalOf(i, scope)]
    PROVE  IsSorted(TopOrder(scope), Stats!Present(scope), ByKey(K, Stats!Present(scope)))
  <1> DEFINE S    == Stats!Present(scope)
             R    == ByKey(K, Stats!Present(scope))
             P(s) == \A k, l \in 1..Stats!Cardinality(S) : k < l => s[k] # s[l] /\ ~(Stats!TotalOf(s[l], scope) > Stats!TotalOf(s[k], scope))
  <1>1. TopOrder(scope) = CHOOSE s \in [1..Stats!Cardinality(S) -> S] : P(s)
    BY DEF TopOrder, Stats!Sorted
  <1>2. IsFiniteSet(S) /\ WeakOrder(R, S)
    <2>1. S \in SUBSET Items /\ IsFiniteSet(Items)
      BY DEF Stats!Present, StatBounds
    <2>2. \A i \in S : K[i] \in Int
      BY <2>1, RecordsAreCounted
    <2> HIDE DEF S
    <2>3. IsFiniteSet(S) /\ WeakOrder(ByKey(K, S), S)
      BY <2>1, <2>2, FS_Subset, KeysAreWeakOrders
    <2> QED  BY <2>3 DEF S
  <1>3. Stats!Cardinality(S) = Cardinality(S)
    BY StatsFiniteSets
  <1>4. ASSUME NEW s \in [1..Cardinality(S) -> S] PROVE P(s) <=> IsSorted(s, S, R)
    <2>1. \A k \in 1..Cardinality(S) : s[k] \in S
      OBVIOUS
    <2>2. \A a, b \in S : <<a, b>> \in R <=> Stats!TotalOf(a, scope) > Stats!TotalOf(b, scope)
      BY DEF ByKey, Stats!Present
    <2> HIDE DEF S, R
    <2> QED  BY <1>3, <2>1, <2>2 DEF IsSorted
  <1>5. \E s \in [1..Cardinality(S) -> S] : P(s)
    <2>1. PICK s : IsSorted(s, S, R)
      <3> HIDE DEF S, R
      <3> QED  BY <1>2, SomeSort
    <2>2. s \in [1..Cardinality(S) -> S]
      BY <2>1 DEF IsSorted
    <2> HIDE DEF P, S, R
    <2> QED  BY <1>4, <2>1, <2>2
  <1> HIDE DEF P, S, R
  <1>6. P(TopOrder(scope)) /\ TopOrder(scope) \in [1..Cardinality(S) -> S]
    BY <1>1, <1>3, <1>5
  <1> QED  BY <1>4, <1>6 DEF S, R

\* The smaller of two numbers.
LEMMA LesserNumber ==
    ASSUME NEW a \in Int, NEW b \in Int
    PROVE  Stats!Min({a, b}) = IF a <= b THEN a ELSE b
  <1> DEFINE m == IF a <= b THEN a ELSE b
             P(x) == x \in {a, b} /\ \A y \in {a, b} : x <= y
  <1>1. \A x : P(x) <=> x = m
    OBVIOUS
  <1>2. Stats!Min({a, b}) = CHOOSE x \in {a, b} : \A y \in {a, b} : x <= y
    BY DEF Stats!Min
  <1>3. (CHOOSE x : P(x)) = m
    <2> HIDE DEF P, m
    <2> QED  BY <1>1
  <1> QED  BY <1>2, <1>3

\* A chart of the items that are recorded most has items of the group.
LEMMA TopIsOfItems ==
    ASSUME StatBounds, StatInv, NEW scope \in SUBSET Games
    PROVE  Stats!Top(scope) \subseteq Items
  <1> DEFINE S == Stats!Present(scope)
             K == [i \in Items |-> Stats!TotalOf(i, scope)]
             o == TopOrder(scope)
             m == Stats!Min({Len(o), MaxDynamic})
  <1>1. IsSorted(o, S, ByKey(K, S)) /\ S \in SUBSET Items /\ IsFiniteSet(S)
    BY TopIsSorted, FS_Subset DEF Stats!Present, StatBounds
  <1>2. o \in Seq(S) /\ Len(o) \in Nat
    <2> HIDE DEF o, S, K
    <2> QED  BY <1>1, SortHasAll
  <1>3. m \in Nat /\ m <= Len(o)
    <2>1. MaxDynamic \in Nat
      BY DEF StatBounds
    <2> HIDE DEF o
    <2> QED  BY <1>2, <2>1, LesserNumber
  <1>4. Stats!Top(scope) = Stats!ToSet(SubSeq(o, 1, m))
    BY DEF Stats!Top, TopOrder
  <1> HIDE DEF o, m, S
  <1>5. SubSeq(o, 1, m) \in Seq(S)
    BY <1>2, <1>3
  <1>6. \A k \in DOMAIN SubSeq(o, 1, m) : SubSeq(o, 1, m)[k] \in S
    BY <1>5
  <1> QED  BY <1>1, <1>4, <1>6 DEF Stats!ToSet

\* An axis is fed by items of the group.
LEMMA AxesAreTyped ==
    ASSUME StatBounds, StatInv, NEW scope \in SUBSET Games, NEW axis \in Stats!Axes(scope)
    PROVE  axis.items \subseteq Items /\ axis.up \in BOOLEAN
  <1>1. CASE axis \in Axis
    BY <1>1 DEF StatBounds
  <1>2. CASE axis \in {[items |-> {i}, present |-> {i}, values |-> FALSE, up |-> TRUE] : i \in Stats!Top(scope)}
    <2>1. PICK i \in Stats!Top(scope) : axis = [items |-> {i}, present |-> {i}, values |-> FALSE, up |-> TRUE]
      BY <1>2
    <2>2. i \in Items
      BY TopIsOfItems
    <2> QED  BY <2>1, <2>2
  <1>3. axis \in Axis \/ axis \in {[items |-> {i}, present |-> {i}, values |-> FALSE, up |-> TRUE] : i \in Stats!Top(scope)}
    BY DEF Stats!Axes, Stats!BasketballAxes
  <1> QED  BY <1>1, <1>2, <1>3

\* The shots of a player and of a side in a game.
LEMMA ShotsAre ==
    ASSUME StatBounds, StatInv, NEW g \in Games
    PROVE  /\ \A p \in Players : Stats!ShotsIn(g, p) \in Int
           /\ \A t : LET T == {p \in Stats!Live : Side[g][p] = t} IN
                /\ IsFiniteSet(T) /\ T \subseteq Players
                /\ Stats!TeamShots(g, t) = Total([p \in T |-> Stats!ShotsIn(g, p)], T)
                /\ Stats!TeamShots(g, t) \in Int
  <1>1. IsFiniteSet(Shots) /\ Shots \subseteq Items
    BY FS_Subset DEF StatBounds
  <1>2. ASSUME NEW p \in Players PROVE Stats!ShotsIn(g, p) \in Int
    <2> DEFINE F == [i \in Shots |-> Value[i] * count[g][p][i]]
    <2>1. Stats!ShotsIn(g, p) = Total(F, Shots)
      BY <1>1, ValuesAddUp DEF Stats!ShotsIn
    <2>2. \A i \in Shots : F[i] \in Int
      <3> TAKE i \in Shots
      <3>1. PICK v \in Int, c \in Nat : v = Value[i] /\ c = count[g][p][i]
        BY <1>1, PointsInIs
      <3>2. v * c \in Int
        OBVIOUS
      <3> QED  BY <3>1, <3>2
    <2> HIDE DEF F
    <2> QED  BY <1>1, <2>1, <2>2, TotalType
  <1>3. ASSUME NEW t, NEW T, T = {p \in Stats!Live : Side[g][p] = t}
        PROVE  /\ IsFiniteSet(T) /\ T \subseteq Players
               /\ Stats!TeamShots(g, t) = Total([p \in T |-> Stats!ShotsIn(g, p)], T)
               /\ Stats!TeamShots(g, t) \in Int
    <2> DEFINE F == [p \in T |-> Stats!ShotsIn(g, p)]
    <2>1. IsFiniteSet(T) /\ T \subseteq Players
      <3>1. T \in SUBSET Stats!Live
        BY <1>3
      <3> QED  BY <3>1, DayOfRankings, FS_Subset
    <2>2. Stats!TeamShots(g, t) = Total(F, T)
      <3>1. Stats!TeamShots(g, t) = Stats!Sum(LAMBDA p : Stats!ShotsIn(g, p), T)
        BY <1>3 DEF Stats!TeamShots
      <3> QED  BY <2>1, <3>1, TeamShotsAddUp
    <2>3. \A p \in T : F[p] \in Int
      BY <1>2, <2>1
    <2> HIDE DEF F
    <2>4. Total(F, T) \in Int
      BY <2>1, <2>3, TotalType
    <2> QED  BY <2>1, <2>2, <2>4 DEF F
  <1> QED  BY <1>2, <1>3

\* The shares of a side in a game are those of a whole.
LEMMA SharesAreOfAWhole ==
    ASSUME StatBounds, StatInv, NEW g \in Games, NEW t \in {"home", "away"},
           gameStatus[g] = "FINISHED", Stats!TeamShots(g, t) > 0,
           NEW T, T = {p \in Stats!Live : Side[g][p] = t}
    PROVE  2 * Stats!Sum(LAMBDA p : Stats!Share(p, {g}), T) - 200 \in (-Cardinality(T))..Cardinality(T)
  <1> DEFINE s == [p \in T |-> Stats!ShotsIn(g, p)]
             a == [p \in T |-> 100 * s[p]]
             r == [p \in T |-> Stats!Share(p, {g})]
  <1>1. /\ IsFiniteSet(T) /\ T \subseteq Players
        /\ Stats!TeamShots(g, t) = Total(s, T) /\ Stats!TeamShots(g, t) \in Int
        /\ \A p \in Players : Stats!ShotsIn(g, p) \in Int
    BY ShotsAre
  <1>2. PICK b \in Nat \ {0} : b = Stats!TeamShots(g, t)
    BY <1>1
  <1>3. IsFiniteSet({g})
    BY FS_Singleton
  <1>4. ASSUME NEW p \in T PROVE Stats!Share(p, {g}) = Stats!Round(100 * Stats!ShotsIn(g, p), b)
    <2>1. Stats!FinishedGames(p, {g}) = {g}
      BY DEF Stats!FinishedGames
    <2>2. Stats!SelfTotal(p, {g}) = Stats!ShotsIn(g, p)
      <3> DEFINE F == [h \in {g} |-> Stats!ShotsIn(h, p)]
      <3>1. Stats!SelfTotal(p, {g}) = Total(F, {g})
        BY <1>3, <2>1, OwnShotsAddUp DEF Stats!SelfTotal
      <3>2. F[g] = Stats!ShotsIn(g, p) /\ F[g] \in Int
        BY <1>1
      <3> HIDE DEF F
      <3> QED  BY <3>1, <3>2, TotalOfOne
    <2>3. Stats!TeamTotal(p, {g}) = b
      <3> DEFINE F == [h \in {g} |-> Stats!TeamShots(h, Side[h][p])]
      <3>1. Stats!TeamTotal(p, {g}) = Total(F, {g})
        BY <1>3, <2>1, TheirShotsAddUp DEF Stats!TeamTotal
      <3>2. Side[g][p] = t
        OBVIOUS
      <3>3. F[g] = b /\ F[g] \in Int
        BY <1>2, <3>2
      <3> HIDE DEF F
      <3> QED  BY <3>1, <3>3, TotalOfOne
    <2> QED  BY <2>2, <2>3 DEF Stats!Share
  <1>5. Stats!Sum(LAMBDA p : Stats!Share(p, {g}), T) = Total(r, T)
    BY <1>1, SharesAddUp
  <1>6. \A p \in T : s[p] \in Int /\ a[p] = 100 * s[p] /\ a[p] \in Int /\ r[p] = Stats!Round(a[p], b)
    <2> TAKE p \in T
    <2>1. s[p] = Stats!ShotsIn(g, p) /\ a[p] = 100 * s[p] /\ r[p] = Stats!Share(p, {g})
      OBVIOUS
    <2>2. Stats!Share(p, {g}) = Stats!Round(100 * Stats!ShotsIn(g, p), b)
      BY <1>4
    <2>3. Stats!ShotsIn(g, p) \in Int
      BY <1>1
    <2> HIDE DEF s, a, r
    <2>4. a[p] \in Int
      BY <2>1, <2>3
    <2> QED  BY <2>1, <2>2, <2>3, <2>4
  <1>7. Total(s, T) = b
    BY <1>1, <1>2
  <1> HIDE DEF s, a, r
  <1>8. Total(a, T) = 100 * b
    <2>1. Total(a, T) = 100 * Total(s, T)
      BY <1>1, <1>6, TotalTimes
    <2> QED  BY <1>7, <2>1
  <1>9. /\ Total(r, T) \in Int
        /\ 2 * Total(a, T) - b * Cardinality(T) <= (2 * b) * Total(r, T)
        /\ (2 * b) * Total(r, T) <= 2 * Total(a, T) + b * Cardinality(T)
    BY <1>1, <1>6, RoundsAddUp
  <1>10. Cardinality(T) \in Nat
    BY <1>1, FS_CardinalityType
  <1>11. PICK z \in Int, n \in Nat : z = Total(r, T) /\ n = Cardinality(T)
    BY <1>9, <1>10
  <1>12. 200 * b - b * n <= (2 * b) * z /\ (2 * b) * z <= 200 * b + b * n
    BY <1>8, <1>9, <1>11
  <1>13. (200 - n) * b <= (2 * z) * b /\ (2 * z) * b <= (200 + n) * b
    BY <1>12
  <1>14. 200 - n \in Int /\ 200 + n \in Int /\ 2 * z \in Int
    OBVIOUS
  <1>15. 200 - n <= 2 * z /\ 2 * z <= 200 + n
    BY <1>13, <1>14, TimesRises
  <1> QED  BY <1>5, <1>11, <1>15

\* Rankings, charts and shares are parts of the same rows (ranking.util, ability.util,
\* team-impact.util).
LEMMA AllPartsAddUp ==
    ASSUME StatBounds, StatInv
    PROVE  Stats!PartsAddUp
  <1>1. \A season \in Stats!Seasons : Stats!Scope(season) \in SUBSET Games
    BY DEF Stats!Scope, Stats!AllGames
  <1>2. \A season \in Stats!Seasons, i \in Items :
           Stats!Listed(i, Stats!Scope(season)) \subseteq Stats!Pool(Stats!Scope(season))
    BY <1>1, ScopeFacts
  <1>3. ASSUME NEW scope \in SUBSET Games, NEW i \in Items, NEW axis \in Stats!Axes(scope),
               axis.items = {i}, ~axis.values, NEW card, card = Stats!ItemCard(i, "average", scope),
               NEW k \in DOMAIN card, NEW l \in DOMAIN card, k < l
        PROVE  IF axis.up = (Value[i] >= 0)
               THEN Stats!PercentileRank(card[k], axis, scope) >= Stats!PercentileRank(card[l], axis, scope)
               ELSE Stats!PercentileRank(card[k], axis, scope) <= Stats!PercentileRank(card[l], axis, scope)
    <2>1. axis.up \in BOOLEAN
      BY AxesAreTyped
    <2> QED  BY <1>3, <2>1, CardFollowsAxis
  <1>4. ASSUME NEW scope \in SUBSET Games, NEW n, n = Stats!Cardinality(Stats!Pool(scope)), n > 1,
               NEW axis \in Stats!Axes(scope)
        PROVE  2 * Stats!Sum(LAMBDA p : Stats!PercentileRank(p, axis, scope), Stats!Pool(scope)) - 100 * n \in (-n)..n
    <2>1. axis.items \subseteq Items /\ n = Cardinality(Stats!Pool(scope))
      BY <1>4, AxesAreTyped, StatsFiniteSets
    <2>2. 2 * RankSum(axis, scope) - 100 * n \in (-n)..n
      BY <1>4, <2>1, AxesAverage
    <2> QED  BY <2>2 DEF RankSum
  <1>5. ASSUME NEW g \in Games, NEW t \in {"home", "away"}, gameStatus[g] = "FINISHED", Stats!TeamShots(g, t) > 0,
               NEW T, T = {p \in Stats!Live : Side[g][p] = t}
        PROVE  2 * Stats!Sum(LAMBDA p : Stats!Share(p, {g}), T) - 200
                 \in (-Stats!Cardinality(T))..Stats!Cardinality(T)
    BY <1>5, SharesAreOfAWhole, StatsFiniteSets
  <1> QED  BY <1>1, <1>2, <1>3, <1>4, <1>5 DEF Stats!PartsAddUp

-----------------------------------------------------------------------------
(* A player's results.                                                     *)

\* The greatest of some of the numbers up to one.
LEMMA MaxIs ==
    ASSUME NEW n \in Nat, NEW S \in SUBSET (0..n), S # {}
    PROVE  /\ Stats!Max(S) \in S /\ Stats!Max(S) \in 0..n
           /\ \A x \in S : x <= Stats!Max(S)
  <1> DEFINE D == {n - x : x \in S}
             P(m) == \A x \in S : m >= x
  <1>0. \A x \in S : x \in 0..n
    OBVIOUS
  <1>1. D \in SUBSET Nat /\ D # {}
    <2>1. \A x \in S : n - x \in Nat
      BY <1>0
    <2> QED  BY <2>1
  <1>2. PICK d \in D : \A e \in D : d <= e
    BY <1>1, LeastOf
  <1>3. PICK m \in S : d = n - m
    BY <1>2
  <1>4. P(m)
    <2> SUFFICES ASSUME NEW x \in S PROVE m >= x
      OBVIOUS
    <2>1. n - x \in D
      OBVIOUS
    <2>2. n - m <= n - x
      BY <1>2, <1>3, <2>1
    <2>3. x \in 0..n /\ m \in 0..n
      BY <1>0
    <2> HIDE DEF D
    <2> QED  BY <2>2, <2>3
  <1>5. Stats!Max(S) = CHOOSE x \in S : P(x)
    BY DEF Stats!Max
  <1> HIDE DEF P
  <1>6. P(Stats!Max(S)) /\ Stats!Max(S) \in S
    BY <1>4, <1>5
  <1>7. Stats!Max(S) \in 0..n
    BY <1>0, <1>6
  <1>8. \A x \in S : Stats!Max(S) >= x
    BY <1>6 DEF P
  <1>9. \A x \in S : x <= Stats!Max(S)
    BY <1>0, <1>7, <1>8
  <1> QED  BY <1>6, <1>7, <1>9

\* A run of results: those of the places after a and up to b.
Run(rs, a, b, r) == \A k \in (a + 1)..b : rs[k].result = r

\* A list of results.
IsList(rs, n) == n \in Nat /\ DOMAIN rs = 1..n /\ Len(rs) = n

\* A run is no longer than the results of its kind are many.
LEMMA RunsCount ==
    ASSUME NEW rs, NEW n, IsList(rs, n), NEW a \in 0..n, NEW b \in a..n, NEW r, Run(rs, a, b, r)
    PROVE  Stats!Tally(rs, r) \in Nat /\ b - a <= Stats!Tally(rs, r)
  <1> DEFINE W == {k \in DOMAIN rs : rs[k].result = r}
  <1>1. W \in SUBSET (1..n) /\ IsFiniteSet(1..n)
    BY FS_Interval DEF IsList
  <1>2. (a + 1)..b \in SUBSET W
    <2> SUFFICES ASSUME NEW k \in (a + 1)..b PROVE k \in 1..n /\ rs[k].result = r
      BY DEF IsList
    <2>1. k \in 1..n
      BY DEF IsList
    <2> QED  BY <2>1 DEF Run
  <1>3. Stats!Tally(rs, r) = Cardinality(W)
    BY StatsFiniteSets DEF Stats!Tally, Stats!Where
  <1>4. Cardinality((a + 1)..b) = b - a
    <2>1. a \in Int /\ b \in Int /\ a <= b
      BY DEF IsList
    <2>2. Cardinality((a + 1)..b) = IF a + 1 > b THEN 0 ELSE b - (a + 1) + 1
      BY <2>1, FS_Interval
    <2> QED  BY <2>1, <2>2
  <1> HIDE DEF W
  <1>5. IsFiniteSet(W) /\ Cardinality(W) \in Nat
    BY <1>1, FS_Subset, FS_CardinalityType
  <1>6. Cardinality((a + 1)..b) <= Cardinality(W)
    BY <1>2, <1>5, FS_Subset
  <1> QED  BY <1>3, <1>4, <1>5, <1>6

\* The current streak: the longest run that ends with the last game.
LEMMA CurrentIs ==
    ASSUME NEW rs, NEW n, IsList(rs, n), n >= 1, NEW t, t = rs[n].result
    PROVE  /\ Stats!CurrentType(rs) = t
           /\ Stats!Current(rs) \in 1..n
           /\ Run(rs, n - Stats!Current(rs), n, t)
           /\ \A m \in 1..n : Run(rs, n - m, n, t) => m <= Stats!Current(rs)
  <1> DEFINE S == {0} \cup {m \in 1..n : \A k \in (n - m + 1)..n : rs[k].result = t}
  <1>1. Stats!CurrentType(rs) = t /\ Len(rs) = n /\ n \in Nat
    BY DEF Stats!CurrentType, IsList
  <1>2. Stats!Current(rs) = Stats!Max(S)
    BY <1>1 DEF Stats!Current
  <1>3. S \in SUBSET (0..n) /\ S # {}
    BY <1>1
  <1>4. \A m \in 1..n : m \in S <=> Run(rs, n - m, n, t)
    BY <1>1 DEF Run
  <1>5. 1 \in S
    <2>1. \A k \in (n - 1 + 1)..n : k = n
      BY <1>1
    <2>2. 1 \in 1..n
      BY <1>1
    <2> QED  BY <2>1, <2>2
  <1> HIDE DEF S
  <1>6. Stats!Max(S) \in S /\ Stats!Max(S) \in 0..n /\ \A x \in S : x <= Stats!Max(S)
    BY <1>1, <1>3, MaxIs
  <1>7. Stats!Max(S) \in 1..n
    <2>1. 1 <= Stats!Max(S)
      BY <1>5, <1>6
    <2> QED  BY <1>1, <1>6, <2>1
  <1> QED  BY <1>1, <1>2, <1>4, <1>6, <1>7

\* The longest run of wins: the runs that end at a place are counted from the last
\* game that was not won.
LEMMA BestRunIs ==
    ASSUME NEW rs, NEW n, IsList(rs, n)
    PROVE  /\ Stats!BestRun(rs) \in 0..n
           /\ \E a, b \in 0..n : a <= b /\ Stats!BestRun(rs) = b - a /\ Run(rs, a, b, "W")
           /\ \A a, b \in 0..n : a <= b /\ Run(rs, a, b, "W") => b - a <= Stats!BestRun(rs)
  <1> DEFINE N(k) == {0} \cup {j \in 1..k : rs[j].result # "W"}
             L(k) == Stats!Max(N(k))
             Q(f) == f = [k \in 0..n |-> IF k = 0 \/ rs[k].result # "W" THEN 0 ELSE f[k - 1] + 1]
             run  == CHOOSE f : Q(f)
             B    == {run[k] : k \in 0..n}
  <1>1. Len(rs) = n /\ n \in Nat
    BY DEF IsList
  <1>2. Stats!BestRun(rs) = Stats!Max(B)
    BY <1>1 DEF Stats!BestRun
  <1>3. \A k \in 0..n : N(k) \in SUBSET (0..k) /\ N(k) # {} /\ k \in Nat
    BY <1>1
  <1>4. \A k \in 0..n : L(k) \in N(k) /\ L(k) \in 0..k /\ \A x \in N(k) : x <= L(k)
    <2> HIDE DEF N
    <2> QED  BY <1>3, MaxIs
  <1>5. \A k \in 0..n : Run(rs, L(k), k, "W")
    <2> TAKE k \in 0..n
    <2> SUFFICES ASSUME NEW j \in (L(k) + 1)..k, rs[j].result # "W" PROVE FALSE
      BY DEF Run
    <2>1. L(k) \in 0..k /\ k \in Nat
      BY <1>1, <1>4
    <2> HIDE DEF L
    <2>2. j \in 1..k /\ ~(j <= L(k))
      BY <2>1
    <2>3. j \in N(k)
      BY <2>2
    <2> HIDE DEF N
    <2> QED  BY <1>4, <2>2, <2>3 DEF L
  <1>6. \A k \in 0..n, a \in 0..n : a <= k /\ Run(rs, a, k, "W") => L(k) <= a
    <2> TAKE k \in 0..n, a \in 0..n
    <2> SUFFICES ASSUME a <= k, Run(rs, a, k, "W"), ~(L(k) <= a) PROVE FALSE
      OBVIOUS
    <2>1. PICK l \in 0..k : l = L(k) /\ l \in N(k)
      BY <1>4
    <2>2. l \in (a + 1)..k /\ l # 0
      BY <1>1, <2>1
    <2>3. rs[l].result # "W"
      BY <2>1, <2>2
    <2> QED  BY <2>2, <2>3 DEF Run
  <1>7. \E f : Q(f)
    <2> DEFINE f == [k \in 0..n |-> k - L(k)]
               g == [k \in 0..n |-> IF k = 0 \/ rs[k].result # "W" THEN 0 ELSE f[k - 1] + 1]
    <2>1. ASSUME NEW k \in 0..n PROVE f[k] = g[k]
      <3>0. k \in Nat /\ k <= n
        BY <1>1
      <3>1. CASE k = 0
        <4>1. L(k) = 0
          <5> HIDE DEF L
          <5> QED  BY <1>4, <3>1
        <4>2. g[k] = 0
          BY <3>1
        <4>3. f[k] = k - L(k)
          OBVIOUS
        <4> HIDE DEF L, f, g
        <4> QED  BY <3>1, <4>1, <4>2, <4>3
      <3>2. CASE k # 0 /\ rs[k].result # "W"
        <4>1. k \in N(k)
          BY <3>0, <3>2
        <4>2. L(k) = k
          <5> HIDE DEF L, N
          <5>1. k <= L(k) /\ L(k) \in 0..k
            BY <1>4, <4>1
          <5> QED  BY <3>0, <5>1
        <4>3. f[k] = k - L(k) /\ g[k] = 0
          BY <3>2
        <4> HIDE DEF L, f, g
        <4> QED  BY <3>0, <4>2, <4>3
      <3>3. CASE k # 0 /\ rs[k].result = "W"
        <4>1. k - 1 \in 0..n
          BY <1>1, <3>0, <3>3
        <4>2. N(k) = N(k - 1)
          <5>1. \A j \in 1..k : j = k \/ j \in 1..(k - 1)
            BY <3>0
          <5>2. \A j \in 1..(k - 1) : j \in 1..k
            BY <3>0
          <5> QED  BY <3>3, <5>1, <5>2
        <4>3. L(k) = L(k - 1)
          BY <4>2
        <4>4. f[k] = k - L(k) /\ f[k - 1] = k - 1 - L(k - 1) /\ g[k] = f[k - 1] + 1
          BY <3>3, <4>1
        <4>5. L(k) \in Int
          <5> HIDE DEF L
          <5> QED  BY <1>4
        <4> HIDE DEF L, f, g
        <4> QED  BY <3>0, <4>3, <4>4, <4>5
      <3> QED  BY <3>1, <3>2, <3>3
    <2>2. f = g
      BY <2>1
    <2> QED  BY <2>2
  <1>8. Q(run)
    <2> HIDE DEF Q
    <2> QED  BY <1>7
  <1>9. \A k \in 0..n : run[k] = IF k = 0 \/ rs[k].result # "W" THEN 0 ELSE run[k - 1] + 1
    <2> HIDE DEF run
    <2> QED  BY <1>8
  <1> HIDE DEF Q, run
  <1>10. \A k \in 0..n : run[k] = k - L(k)
    <2> DEFINE Bad == {k \in 0..n : run[k] # k - L(k)}
    <2> SUFFICES ASSUME Bad # {} PROVE FALSE
      OBVIOUS
    <2>1. Bad \in SUBSET Nat
      BY <1>1
    <2>2. PICK k \in Bad : \A e \in Bad : k <= e
      BY <2>1, LeastOf
    <2>3. k \in 0..n /\ k \in Nat /\ run[k] # k - L(k)
      BY <1>1
    <2>4. CASE k = 0
      <3>1. run[k] = 0
        BY <1>9, <2>3, <2>4
      <3>2. L(k) = 0
        <4> HIDE DEF L
        <4> QED  BY <1>4, <2>3, <2>4
      <3> HIDE DEF L
      <3> QED  BY <2>3, <2>4, <3>1, <3>2
    <2>5. CASE k # 0 /\ rs[k].result # "W"
      <3>1. k \in N(k)
        BY <2>3, <2>5
      <3>2. L(k) = k
        <4> HIDE DEF L, N
        <4>1. k <= L(k) /\ L(k) \in 0..k
          BY <1>4, <2>3, <3>1
        <4> QED  BY <2>3, <4>1
      <3>3. run[k] = 0
        BY <1>9, <2>3, <2>5
      <3> HIDE DEF L
      <3> QED  BY <2>3, <3>2, <3>3
    <2>6. CASE k # 0 /\ rs[k].result = "W"
      <3>1. k - 1 \in 0..n /\ ~(k <= k - 1)
        BY <1>1, <2>3, <2>6
      <3>2. k - 1 \notin Bad
        <4> HIDE DEF Bad
        <4> QED  BY <2>2, <3>1
      <3>3. run[k - 1] = k - 1 - L(k - 1)
        BY <3>1, <3>2
      <3>4. N(k) = N(k - 1)
        <4>1. \A j \in 1..k : j = k \/ j \in 1..(k - 1)
          BY <2>3
        <4>2. \A j \in 1..(k - 1) : j \in 1..k
          BY <2>3
        <4> QED  BY <2>6, <4>1, <4>2
      <3>5. L(k) = L(k - 1)
        BY <3>4
      <3>6. run[k] = run[k - 1] + 1
        BY <1>9, <2>3, <2>6
      <3>7. L(k) \in Int
        <4> HIDE DEF L
        <4> QED  BY <1>4, <2>3
      <3> HIDE DEF L
      <3> QED  BY <2>3, <3>3, <3>5, <3>6, <3>7
    <2> QED  BY <2>4, <2>5, <2>6
  <1> HIDE DEF N, L
  <1>11. \A k \in 0..n : run[k] \in 0..n
    <2> TAKE k \in 0..n
    <2>1. L(k) \in 0..k /\ run[k] = k - L(k)
      BY <1>4, <1>10
    <2> QED  BY <1>1, <2>1
  <1>12. B \in SUBSET (0..n) /\ B # {}
    <2>1. 0 \in 0..n
      BY <1>1
    <2> QED  BY <1>11, <2>1
  <1>13. PICK k \in 0..n : Stats!Max(B) = run[k]
    <2> HIDE DEF B
    <2>1. Stats!Max(B) \in B
      BY <1>1, <1>12, MaxIs
    <2> QED  BY <2>1 DEF B
  <1>14. \A j \in 0..n : run[j] <= Stats!Max(B)
    <2>1. \A j \in 0..n : run[j] \in B
      OBVIOUS
    <2> HIDE DEF B
    <2> QED  BY <1>1, <1>12, <2>1, MaxIs
  <1> HIDE DEF B
  <1>15. L(k) \in 0..n /\ L(k) <= k /\ run[k] = k - L(k) /\ Run(rs, L(k), k, "W")
    <2>1. L(k) \in 0..k
      BY <1>4
    <2> QED  BY <1>1, <1>5, <1>10, <2>1
  <1>16. ASSUME NEW a \in 0..n, NEW b \in 0..n, a <= b, Run(rs, a, b, "W")
         PROVE  b - a <= Stats!Max(B)
    <2>1. L(b) <= a /\ L(b) \in 0..b /\ run[b] = b - L(b) /\ run[b] <= Stats!Max(B)
      BY <1>4, <1>6, <1>10, <1>14, <1>16
    <2>2. run[b] \in Int /\ Stats!Max(B) \in Int /\ a \in Int /\ b \in Int
      BY <1>1, <1>11, <1>13
    <2> QED  BY <2>1, <2>2
  <1>17. \E a, b \in 0..n : a <= b /\ Stats!Max(B) = b - a /\ Run(rs, a, b, "W")
    BY <1>13, <1>15
  <1>18. Stats!Max(B) \in 0..n
    BY <1>11, <1>13
  <1> QED  BY <1>2, <1>16, <1>17, <1>18

\* Before in the order of the games: on an earlier day or, on the same day, with a lower id.
ByDay(S) ==
    {x \in S \X S : GameDay[x[1]] < GameDay[x[2]] \/ (GameDay[x[1]] = GameDay[x[2]] /\ x[1] < x[2])}

\* The games of a player are in that order.
LEMMA GamesAreSorted ==
    ASSUME NEW G, StatBounds, G \subseteq Games
    PROVE  IsSorted(Stats!InOrder(G), G, ByDay(G))
  <1> DEFINE S    == G
             R    == ByDay(G)
             P(s) == \A k, l \in 1..Stats!Cardinality(S) : k < l => s[k] # s[l] /\ ~((GameDay[s[l]] < GameDay[s[k]] \/ (GameDay[s[l]] = GameDay[s[k]] /\ s[l] < s[k])))
  <1>1. Stats!InOrder(G) = CHOOSE s \in [1..Stats!Cardinality(S) -> S] : P(s)
    BY DEF Stats!InOrder, Stats!Sorted
  <1>2. IsFiniteSet(S) /\ WeakOrder(R, S)
    <2>1. IsFiniteSet(G) /\ \A g \in G : g \in Int /\ GameDay[g] \in Int
      BY FS_Subset DEF StatBounds
    <2>2. \A a, b \in G : <<a, b>> \in ByDay(G) <=> GameDay[a] < GameDay[b] \/ (GameDay[a] = GameDay[b] /\ a < b)
      BY DEF ByDay
    <2>3. \A a, b \in G : <<a, b>> \in ByDay(G) => <<b, a>> \notin ByDay(G)
      BY <2>1, <2>2
    <2>4. \A a, b, c \in G : <<a, b>> \notin ByDay(G) /\ <<b, c>> \notin ByDay(G) => <<a, c>> \notin ByDay(G)
      BY <2>1, <2>2
    <2> QED  BY <2>1, <2>3, <2>4 DEF WeakOrder
  <1>3. Stats!Cardinality(S) = Cardinality(S)
    BY StatsFiniteSets
  <1>4. ASSUME NEW s \in [1..Cardinality(S) -> S] PROVE P(s) <=> IsSorted(s, S, R)
    <2>1. \A k \in 1..Cardinality(S) : s[k] \in S
      OBVIOUS
    <2>2. \A a, b \in S : <<a, b>> \in R <=> (GameDay[a] < GameDay[b] \/ (GameDay[a] = GameDay[b] /\ a < b))
      BY DEF ByKey, ByDay
    <2> HIDE DEF S, R
    <2> QED  BY <1>3, <2>1, <2>2 DEF IsSorted
  <1>5. \E s \in [1..Cardinality(S) -> S] : P(s)
    <2>1. PICK s : IsSorted(s, S, R)
      <3> HIDE DEF S, R
      <3> QED  BY <1>2, SomeSort
    <2>2. s \in [1..Cardinality(S) -> S]
      BY <2>1 DEF IsSorted
    <2> HIDE DEF P, S, R
    <2> QED  BY <1>4, <2>1, <2>2
  <1> HIDE DEF P, S, R
  <1>6. P(Stats!InOrder(G)) /\ Stats!InOrder(G) \in [1..Cardinality(S) -> S]
    BY <1>1, <1>3, <1>5
  <1> QED  BY <1>4, <1>6 DEF S, R

\* What the list of a player's results holds: each of the finished games once.
LEMMA ResultFacts ==
    ASSUME StatBounds, StatInv, NEW p \in Players, NEW scope \in SUBSET Games,
           NEW G, G = Stats!FinishedGames(p, scope), NEW n, n = Cardinality(G),
           NEW rs, rs = Stats!Results(p, scope), NEW games, games = Stats!InOrder(G)
    PROVE  /\ IsFiniteSet(G) /\ G \subseteq Games /\ IsList(rs, n)
           /\ \A k \in 1..n : games[k] \in G
           /\ \A g \in G : \E k \in 1..n : games[k] = g
           /\ \A k, l \in 1..n : games[k] = games[l] => k = l
           /\ \A k \in 1..n :
                 /\ rs[k].game = games[k] /\ rs[k].margin = Stats!Margin(games[k], p)
                 /\ rs[k].us \in Int /\ rs[k].them \in Int /\ rs[k].margin = rs[k].us - rs[k].them
                 /\ rs[k].result = Stats!Letter(rs[k].margin)
                 /\ rs[k].points = Stats!PointsIn(games[k], p) /\ rs[k].points \in Int
  <1>1. IsFiniteSet(G) /\ G \subseteq Games /\ n \in Nat
    <2>1. G \subseteq Games
      BY DEF Stats!FinishedGames
    <2> QED  BY <2>1, FS_Subset, FS_CardinalityType DEF StatBounds
  <1>2. IsSorted(games, G, ByDay(G))
    BY <1>1, GamesAreSorted
  <1>3. /\ \A g \in G : \E k \in 1..n : games[k] = g
        /\ \A k, l \in 1..n : games[k] = games[l] => k = l
        /\ DOMAIN games = 1..n
    BY <1>1, <1>2, SortHasAll
  <1>4. \A k \in 1..n : games[k] \in G
    BY <1>2 DEF IsSorted
  <1>5. rs = [k \in 1..n |-> [game |-> games[k], margin |-> Stats!Margin(games[k], p),
                              result |-> Stats!Letter(Stats!Margin(games[k], p)),
                              us |-> Stats!TeamScore(games[k], Side[games[k]][p]),
                              them |-> Stats!TeamScore(games[k], Stats!Opponent(Side[games[k]][p])),
                              points |-> Stats!PointsIn(games[k], p)]]
    BY <1>3 DEF Stats!Results
  <1>6. IsList(rs, n)
    <2>1. DOMAIN rs = 1..n
      BY <1>5
    <2>2. Len(rs) = n
      <3>1. rs \in [1..n -> {rs[k] : k \in 1..n}]
        BY <1>5
      <3>2. rs \in Seq({rs[k] : k \in 1..n})
        BY <1>1, <3>1
      <3>3. DOMAIN rs = 1..Len(rs) /\ Len(rs) \in Nat
        BY <3>2, LenProperties
      <3> QED  BY <1>1, <2>1, <3>3
    <2> QED  BY <1>1, <2>1, <2>2 DEF IsList
  <1>7. ASSUME NEW k \in 1..n
        PROVE  /\ rs[k].game = games[k] /\ rs[k].margin = Stats!Margin(games[k], p)
               /\ rs[k].us \in Int /\ rs[k].them \in Int /\ rs[k].margin = rs[k].us - rs[k].them
               /\ rs[k].result = Stats!Letter(rs[k].margin)
               /\ rs[k].points = Stats!PointsIn(games[k], p) /\ rs[k].points \in Int
    <2> DEFINE g == games[k]
    <2>1. g \in Games
      BY <1>1, <1>4
    <2>2. /\ rs[k].game = g /\ rs[k].margin = Stats!Margin(g, p)
          /\ rs[k].us = Stats!TeamScore(g, Side[g][p])
          /\ rs[k].them = Stats!TeamScore(g, Stats!Opponent(Side[g][p]))
          /\ rs[k].result = Stats!Letter(Stats!Margin(g, p))
          /\ rs[k].points = Stats!PointsIn(g, p)
      BY <1>5
    <2> HIDE DEF g
    <2>3. \A t : Stats!TeamScore(g, t) \in Int
      BY <2>1, TeamScores
    <2>4. Stats!PointsIn(g, p) \in Int
      BY <2>1, PointsInIs
    <2>5. rs[k].us \in Int /\ rs[k].them \in Int /\ rs[k].points \in Int
      BY <2>2, <2>3, <2>4
    <2>6. rs[k].margin = rs[k].us - rs[k].them
      BY <2>2 DEF Stats!Margin
    <2> QED  BY <2>2, <2>5, <2>6 DEF g
  <1> QED  BY <1>1, <1>3, <1>4, <1>6, <1>7

\* The current streak is of results there are, and a streak of wins is no longer than the
\* longest run.
LEMMA StreaksAreParts ==
    ASSUME NEW rs, NEW n, IsList(rs, n), n >= 1
    PROVE  /\ Stats!Current(rs) \in 1..Stats!Tally(rs, Stats!CurrentType(rs))
           /\ Stats!BestRun(rs) <= Stats!Tally(rs, "W")
           /\ (Stats!BestRun(rs) = 0 <=> Stats!Tally(rs, "W") = 0)
           /\ Stats!CurrentType(rs) = "W" => Stats!Current(rs) <= Stats!BestRun(rs)
  <1> DEFINE t == rs[n].result
             C == Stats!Current(rs)
             B == Stats!BestRun(rs)
             W == Stats!Tally(rs, "W")
  <1>1. /\ Stats!CurrentType(rs) = t /\ C \in 1..n /\ Run(rs, n - C, n, t)
    BY CurrentIs
  <1>2. /\ B \in 0..n
        /\ \E a, b \in 0..n : a <= b /\ B = b - a /\ Run(rs, a, b, "W")
        /\ \A a, b \in 0..n : a <= b /\ Run(rs, a, b, "W") => b - a <= B
    BY BestRunIs
  <1>3. n \in Nat /\ DOMAIN rs = 1..n
    BY DEF IsList
  <1> HIDE DEF t, C, B, W
  <1>4. n - C \in 0..n /\ n \in (n - C)..n /\ n \in 0..n /\ n - (n - C) = C /\ n - C <= n
    BY <1>1, <1>3
  <1>5. Stats!Tally(rs, t) \in Nat /\ C <= Stats!Tally(rs, t)
    <2>1. Stats!Tally(rs, t) \in Nat /\ n - (n - C) <= Stats!Tally(rs, t)
      BY <1>1, <1>4, RunsCount
    <2> QED  BY <1>4, <2>1
  <1>6. C \in 1..Stats!Tally(rs, t)
    BY <1>1, <1>3, <1>5
  <1>7. W \in Nat /\ B <= W
    <2>1. PICK a \in 0..n, b \in 0..n : a <= b /\ B = b - a /\ Run(rs, a, b, "W")
      BY <1>2
    <2>2. b \in a..n
      BY <1>3, <2>1
    <2> QED  BY <2>1, <2>2, RunsCount DEF W
  <1>8. ASSUME W # 0 PROVE B # 0
    <2>1. Stats!Where(rs, "W") # {}
      BY <1>8, FS_EmptySet, StatsFiniteSets DEF W, Stats!Tally
    <2>2. PICK k \in 1..n : rs[k].result = "W"
      BY <1>3, <2>1 DEF Stats!Where
    <2>3. k - 1 \in 0..n /\ k \in 0..n /\ k - 1 <= k /\ k - (k - 1) = 1 /\ (k - 1) + 1 = k
      BY <1>3
    <2>4. Run(rs, k - 1, k, "W")
      <3>1. \A j \in k..k : j = k
        OBVIOUS
      <3> QED  BY <2>2, <2>3, <3>1 DEF Run
    <2>5. 1 <= B
      BY <1>2, <2>3, <2>4
    <2> QED  BY <2>5
  <1>9. B = 0 <=> W = 0
    BY <1>2, <1>3, <1>7, <1>8
  <1>10. t = "W" => C <= B
    BY <1>1, <1>2, <1>4
  <1> QED  BY <1>1, <1>6, <1>7, <1>9, <1>10 DEF C, B, W, t

\* A draw is a close game.
LEMMA DrawsAreClose ==
    ASSUME StatBounds, NEW rs, NEW n, IsList(rs, n),
           \A k \in 1..n : rs[k].margin \in Int /\ rs[k].result = Stats!Letter(rs[k].margin)
    PROVE  Stats!Where(rs, "D") \subseteq Stats!Clutch(rs)
  <1> SUFFICES ASSUME NEW k \in 1..n, rs[k].result = "D"
               PROVE  rs[k].margin \in (-CLOSE_MARGIN)..CLOSE_MARGIN
    BY DEF IsList, Stats!Where, Stats!Clutch
  <1>1. rs[k].margin = 0
    <2>1. rs[k].margin \in Int /\ Stats!Letter(rs[k].margin) = "D"
      OBVIOUS
    <2> QED  BY <2>1 DEF Stats!Letter
  <1> QED  BY <1>1 DEF StatBounds

\* A field of some results, added up.
FieldSum(rs, field, S) == Stats!Sum(LAMBDA k : rs[k][field], S)

\* It is a sum.
LEMMA FieldsAddUp ==
    ASSUME NEW rs, NEW field, NEW S, IsFiniteSet(S)
    PROVE  FieldSum(rs, field, S) = Total([k \in S |-> rs[k][field]], S)
  <1> DEFINE F    == [k \in S |-> rs[k][field]]
             P(k) == k = [s \in SUBSET S |-> IF s = {} THEN 0 ELSE rs[Pick(s)][field] + k[s \ {Pick(s)}]]
  <1>1. FieldSum(rs, field, S) = (CHOOSE k : P(k))[S]
    BY DEF FieldSum, Pick, Stats!Sum, Stats!MapThenSumSet, Stats!MapThenFoldSet
  <1>2. \A k : P(k) <=> AddsUp(k, F, S)
    <2>1. \A s \in SUBSET S : s # {} => F[Pick(s)] = rs[Pick(s)][field]
      BY PickIn
    <2> HIDE DEF F
    <2> QED  BY <2>1 DEF AddsUp
  <1> HIDE DEF P, F
  <1>3. \E k : P(k)
    BY <1>2, SomeAddsUp
  <1>4. P(CHOOSE k : P(k))
    BY <1>3
  <1>5. Total(F, S) = (CHOOSE k : P(k))[S]
    BY <1>2, <1>4, TotalIs
  <1> QED  BY <1>1, <1>5 DEF F

\* Two parts that have nothing in common add up to the whole.
LEMMA TotalOfTwo ==
    ASSUME NEW S, IsFiniteSet(S), NEW F, \A x \in S : F[x] \in Int,
           NEW A \in SUBSET S, NEW B \in SUBSET S, A \cap B = {}, A \cup B = S
    PROVE  Total(F, S) = Total(F, A) + Total(F, B)
  <1> DEFINE G == [x \in S |-> IF x \in A THEN F[x] ELSE 0]
             H == [x \in S |-> IF x \in B THEN F[x] ELSE 0]
  <1>1. \A x \in S : G[x] \in Int /\ H[x] \in Int /\ F[x] = G[x] + H[x]
    <2> SUFFICES ASSUME NEW x \in S PROVE G[x] \in Int /\ H[x] \in Int /\ F[x] = G[x] + H[x]
      OBVIOUS
    <2>1. CASE x \in A
      <3>1. x \notin B /\ G[x] = F[x] /\ H[x] = 0
        BY <2>1
      <3> QED  BY <3>1
    <2>2. CASE x \notin A
      <3>1. x \in B /\ G[x] = 0 /\ H[x] = F[x]
        BY <2>2
      <3> QED  BY <3>1
    <2> QED  BY <2>1, <2>2
  <1>2. \A x \in A : F[x] = G[x]
    OBVIOUS
  <1>3. \A x \in B : F[x] = H[x]
    OBVIOUS
  <1>4. \A x \in S \ A : G[x] = 0
    OBVIOUS
  <1>5. \A x \in S \ B : H[x] = 0
    OBVIOUS
  <1> HIDE DEF G, H
  <1>6. Total(F, S) = Total(G, S) + Total(H, S)
    BY <1>1, TotalPlus
  <1>7. Total(G, S) = Total(G, A) /\ Total(H, S) = Total(H, B)
    BY <1>1, <1>4, <1>5, TotalOfCounted
  <1>8. Total(F, A) = Total(G, A) /\ Total(F, B) = Total(H, B)
    BY <1>2, <1>3, FS_Subset, TotalSame
  <1> QED  BY <1>6, <1>7, <1>8

\* What is added up over a set is added up over a list of it.
LEMMA TotalOfList ==
    ASSUME NEW S, IsFiniteSet(S), NEW N, IsFiniteSet(N), NEW s, NEW F, NEW G,
           \A k \in N : s[k] \in S /\ G[k] = F[s[k]],
           \A k, l \in N : s[k] = s[l] => k = l,
           \A x \in S : F[x] \in Int /\ \E k \in N : s[k] = x
    PROVE  Total(G, N) = Total(F, S)
  <1> DEFINE Img(P) == {s[k] : k \in P}
             U      == {P \in SUBSET N : Total(G, P) = Total(F, Img(P))}
  <1>1. IsFiniteSet(N)
    OBVIOUS
  <1>2. \A k \in N : G[k] \in Int
    OBVIOUS
  <1>3. {} \in U
    <2>1. Img({}) = {} /\ {} \in SUBSET N
      OBVIOUS
    <2>2. Total(G, {}) = 0 /\ Total(F, {}) = 0
      BY TotalOfNone
    <2> HIDE DEF Img
    <2> QED  BY <2>1, <2>2
  <1>4. ASSUME NEW P \in SUBSET N, NEW k \in N, k \notin P, P \in U
        PROVE  P \cup {k} \in U
    <2>1. Total(G, P) = Total(F, Img(P))
      BY <1>4
    <2>2. Img(P \cup {k}) = Img(P) \cup {s[k]}
      OBVIOUS
    <2>3. Img(P) \in SUBSET S /\ s[k] \in S /\ s[k] \notin Img(P)
      BY <1>4
    <2> HIDE DEF Img, U
    <2>4. Total(G, P \cup {k}) = G[k] + Total(G, P)
      BY <1>1, <1>2, <1>4, TotalAnd
    <2>5. Total(F, Img(P) \cup {s[k]}) = F[s[k]] + Total(F, Img(P))
      BY <2>3, TotalAnd
    <2>6. Total(G, P \cup {k}) = Total(F, Img(P \cup {k}))
      BY <2>1, <2>2, <2>4, <2>5
    <2>7. P \cup {k} \in SUBSET N
      OBVIOUS
    <2> QED  BY <2>6, <2>7 DEF U
  <1>5. Img(N) = S
    OBVIOUS
  <1> HIDE DEF U
  <1>6. N \in U
    BY <1>1, <1>3, <1>4, Grow
  <1>7. Total(G, N) = Total(F, Img(N))
    BY <1>6 DEF U
  <1> QED  BY <1>5, <1>7

\* Rounding three averages of as many games moves their difference by one at most.
LEMMA ThreeRounds ==
    ASSUME NEW a \in Int, NEW b \in Int, NEW c \in Int, a = b + c, NEW n \in Nat \ {0}
    PROVE  Stats!Round(10 * a, n) - Stats!Round(10 * b, n) - Stats!Round(10 * c, n) \in -1..1
  <1>1. PICK r \in Int : r = Stats!Round(10 * a, n) /\ 20 * a - n <= (2 * n) * r /\ (2 * n) * r <= 20 * a + n
    <2>1. 10 * a \in Int /\ 2 * (10 * a) = 20 * a
      OBVIOUS
    <2> QED  BY <2>1, RoundBounds
  <1>2. PICK s \in Int : s = Stats!Round(10 * b, n) /\ 20 * b - n <= (2 * n) * s /\ (2 * n) * s <= 20 * b + n
    <2>1. 10 * b \in Int /\ 2 * (10 * b) = 20 * b
      OBVIOUS
    <2> QED  BY <2>1, RoundBounds
  <1>3. PICK t \in Int : t = Stats!Round(10 * c, n) /\ 20 * c - n <= (2 * n) * t /\ (2 * n) * t <= 20 * c + n
    <2>1. 10 * c \in Int /\ 2 * (10 * c) = 20 * c
      OBVIOUS
    <2> QED  BY <2>1, RoundBounds
  <1>4. PICK x \in Int : x = r - s - t
    OBVIOUS
  <1>5. (2 * n) * x = (2 * n) * r - (2 * n) * s - (2 * n) * t
    BY <1>4
  <1>6. -(3 * n) <= (2 * n) * x /\ (2 * n) * x <= 3 * n
    <2>1. PICK u \in Int, v \in Int, w \in Int, y \in Int :
             u = (2 * n) * r /\ v = (2 * n) * s /\ w = (2 * n) * t /\ y = (2 * n) * x
      OBVIOUS
    <2>2. /\ 20 * a - n <= u /\ u <= 20 * a + n /\ 20 * b - n <= v /\ v <= 20 * b + n
          /\ 20 * c - n <= w /\ w <= 20 * c + n /\ y = u - v - w
      BY <1>1, <1>2, <1>3, <1>5, <2>1
    <2>3. -(3 * n) <= y /\ y <= 3 * n
      BY <2>2
    <2> QED  BY <2>1, <2>3
  <1>7. x <= 1
    <2> SUFFICES ASSUME 2 <= x PROVE FALSE
      BY <1>4
    <2>1. 2 * n \in Nat /\ 2 * (2 * n) <= x * (2 * n) /\ x * (2 * n) = (2 * n) * x
      BY TimesRises
    <2> QED  BY <1>6, <2>1
  <1>8. -1 <= x
    <2> SUFFICES ASSUME x <= -2 PROVE FALSE
      BY <1>4
    <2>1. 2 * n \in Nat /\ x * (2 * n) <= (-2) * (2 * n) /\ x * (2 * n) = (2 * n) * x
      BY TimesRises
    <2> QED  BY <1>6, <2>1
  <1>9. x \in -1..1
    BY <1>7, <1>8
  <1>10. r = Stats!Round(10 * a, n) /\ s = Stats!Round(10 * b, n) /\ t = Stats!Round(10 * c, n)
    BY <1>1, <1>2, <1>3
  <1> QED  BY <1>4, <1>9, <1>10

\* The average margin is that of the averages, up to the rounding.
LEMMA AveragesAreOneRecord ==
    ASSUME NEW rs, NEW n, IsList(rs, n), n >= 1,
           \A k \in 1..n : rs[k].us \in Int /\ rs[k].them \in Int /\ rs[k].margin = rs[k].us - rs[k].them
    PROVE  Stats!Averages(rs)["us"] - Stats!Averages(rs)["them"] - Stats!Averages(rs)["margin"] \in -1..1
  <1> DEFINE U == [k \in 1..n |-> rs[k]["us"]]
             T == [k \in 1..n |-> rs[k]["them"]]
             M == [k \in 1..n |-> rs[k]["margin"]]
  <1>1. n \in Nat /\ IsFiniteSet(1..n) /\ Cardinality(1..n) = n /\ DOMAIN rs = 1..n
    <2>1. n \in Nat /\ DOMAIN rs = 1..n
      BY DEF IsList
    <2>2. IsFiniteSet(1..n) /\ Cardinality(1..n) = n
      BY <2>1, FS_Interval
    <2> QED  BY <2>1, <2>2
  <1>2. ASSUME NEW field \in {"us", "them", "margin"}
        PROVE  Stats!Averages(rs)[field]
                 = Stats!Round(10 * Total([k \in 1..n |-> rs[k][field]], 1..n), n)
    <2>1. Stats!Averages(rs)[field] = Stats!Average(field, rs, 1..n)
      BY <1>1 DEF Stats!Averages
    <2>2. FieldSum(rs, field, 1..n) = Total([k \in 1..n |-> rs[k][field]], 1..n)
      BY <1>1, FieldsAddUp
    <2>3. Stats!Cardinality(1..n) = n
      BY <1>1, StatsFiniteSets
    <2> QED  BY <2>1, <2>2, <2>3 DEF Stats!Average, FieldSum
  <1>3. \A k \in 1..n : T[k] \in Int /\ M[k] \in Int /\ U[k] \in Int /\ U[k] = T[k] + M[k]
    OBVIOUS
  <1>4. /\ Stats!Averages(rs)["us"] = Stats!Round(10 * Total(U, 1..n), n)
        /\ Stats!Averages(rs)["them"] = Stats!Round(10 * Total(T, 1..n), n)
        /\ Stats!Averages(rs)["margin"] = Stats!Round(10 * Total(M, 1..n), n)
    BY <1>2
  <1> HIDE DEF U, T, M
  <1>5. Total(U, 1..n) = Total(T, 1..n) + Total(M, 1..n)
    BY <1>1, <1>3, TotalPlus
  <1>6. Total(U, 1..n) \in Int /\ Total(T, 1..n) \in Int /\ Total(M, 1..n) \in Int
    BY <1>1, <1>3, TotalType
  <1> QED  BY <1>1, <1>4, <1>5, <1>6, ThreeRounds

\* An average over some games, times the games, is their points up to half a tenth each.
LEMMA PartOfPoints ==
    ASSUME NEW rs, NEW n, IsList(rs, n), \A k \in 1..n : rs[k].points \in Int, NEW r,
           NEW m, m = Stats!Tally(rs, r),
           NEW part_, part_ = IF m = 0 THEN 0 ELSE m * Stats!AvgPointsIn(rs, r),
           NEW pts, pts = Total([k \in 1..n |-> rs[k].points], Stats!Where(rs, r))
    PROVE  m \in Nat /\ part_ \in Int /\ pts \in Int /\ 2 * part_ - 20 * pts \in (-m)..m
  <1> DEFINE W == Stats!Where(rs, r)
             F == [k \in 1..n |-> rs[k].points]
  <1>1. n \in Nat /\ DOMAIN rs = 1..n /\ W \in SUBSET (1..n)
    BY DEF IsList, Stats!Where
  <1>2. IsFiniteSet(W) /\ m = Cardinality(W) /\ m \in Nat
    <2>1. IsFiniteSet(W)
      BY <1>1, FS_Interval, FS_Subset
    <2>2. m = Cardinality(W)
      BY StatsFiniteSets DEF Stats!Tally
    <2> QED  BY <2>1, <2>2, FS_CardinalityType
  <1>3. \A k \in W : F[k] \in Int
    BY <1>1
  <1>4. Stats!AvgPointsIn(rs, r) = Stats!Round(10 * pts, m)
    <2>1. FieldSum(rs, "points", W) = Total([k \in W |-> rs[k]["points"]], W)
      BY <1>2, FieldsAddUp
    <2>2. \A k \in W : [j \in W |-> rs[j]["points"]][k] = F[k]
      BY <1>1
    <2> DEFINE H == [j \in W |-> rs[j]["points"]]
    <2>3. Total(H, W) = Total(F, W)
      <3> HIDE DEF F, H, W
      <3>1. \A k \in W : H[k] = F[k]
        BY <2>2 DEF H
      <3> QED  BY <1>2, <3>1, TotalSame
    <2>4. FieldSum(rs, "points", W) = pts
      BY <2>1, <2>3
    <2>5. Stats!Cardinality(W) = m
      BY <1>2, StatsFiniteSets
    <2> QED  BY <2>4, <2>5 DEF Stats!AvgPointsIn, Stats!Average, FieldSum
  <1> HIDE DEF F, W
  <1>5. pts = Total(F, W)
    BY DEF F, W
  <1>6. pts \in Int
    BY <1>2, <1>3, <1>5, TotalType
  <1>7. CASE m = 0
    <2>1. W = {}
      BY <1>2, <1>7, FS_EmptySet
    <2>2. pts = 0
      BY <1>5, <2>1, TotalOfNone
    <2> QED  BY <1>7, <2>2
  <1>8. CASE m # 0
    <2>1. PICK a \in Int : a = Stats!Round(10 * pts, m) /\ 20 * pts - m <= (2 * m) * a /\ (2 * m) * a <= 20 * pts + m
      <3>1. 10 * pts \in Int /\ 2 * (10 * pts) = 20 * pts /\ m \in Nat \ {0}
        BY <1>2, <1>6, <1>8
      <3> QED  BY <3>1, RoundBounds
    <2>2. part_ = m * a
      BY <1>4, <1>8, <2>1
    <2>3. m * a \in Int /\ (2 * m) * a = 2 * (m * a)
      BY <1>2, <2>1
    <2>4. PICK x \in Int : x = m * a
      BY <2>3
    <2>5. part_ = x /\ 20 * pts - m <= 2 * x /\ 2 * x <= 20 * pts + m
      BY <2>1, <2>2, <2>3, <2>4
    <2> QED  BY <1>2, <1>6, <2>5
  <1> QED  BY <1>2, <1>6, <1>7, <1>8

\* Two parts that are each near theirs are near the whole.
LEMMA TwoParts ==
    ASSUME NEW w \in Int, NEW l \in Int, NEW x \in Int, NEW y \in Int, NEW m \in Nat, NEW j \in Nat,
           -m <= 2 * w - 20 * x, 2 * w - 20 * x <= m, -j <= 2 * l - 20 * y, 2 * l - 20 * y <= j
    PROVE  2 * (w + l - 10 * (x + y)) \in (-(m + j))..(m + j)
  OBVIOUS

\* The averages in wins and in losses are parts of all points, if no game was drawn.
LEMMA PointsAreParts ==
    ASSUME NEW rs, NEW n, IsList(rs, n), NEW all,
           \A k \in 1..n : rs[k].points \in Int /\ rs[k].result \in {"W", "L", "D"},
           all = Total([k \in 1..n |-> rs[k].points], 1..n),
           Stats!Tally(rs, "D") = 0, NEW w, NEW l,
           w = IF Stats!Tally(rs, "W") = 0 THEN 0 ELSE Stats!Tally(rs, "W") * Stats!AvgPointsIn(rs, "W"),
           l = IF Stats!Tally(rs, "L") = 0 THEN 0 ELSE Stats!Tally(rs, "L") * Stats!AvgPointsIn(rs, "L")
    PROVE  2 * (w + l - 10 * all) \in (-n)..n
  <1> DEFINE F == [k \in 1..n |-> rs[k].points]
             W == Stats!Where(rs, "W")
             L == Stats!Where(rs, "L")
  <1>1. n \in Nat /\ DOMAIN rs = 1..n /\ IsFiniteSet(1..n) /\ Cardinality(1..n) = n
    <2>1. n \in Nat /\ DOMAIN rs = 1..n
      BY DEF IsList
    <2>2. IsFiniteSet(1..n) /\ Cardinality(1..n) = n
      BY <2>1, FS_Interval
    <2> QED  BY <2>1, <2>2
  <1>2. Stats!Where(rs, "D") = {}
    <2>1. Stats!Where(rs, "D") \in SUBSET (1..n)
      BY <1>1 DEF Stats!Where
    <2>2. Cardinality(Stats!Where(rs, "D")) = 0
      BY StatsFiniteSets DEF Stats!Tally
    <2> QED  BY <1>1, <2>1, <2>2, FS_Subset, FS_EmptySet
  <1>3. W \in SUBSET (1..n) /\ L \in SUBSET (1..n) /\ W \cap L = {} /\ W \cup L = 1..n
    BY <1>1, <1>2 DEF Stats!Where
  <1>4. IsFiniteSet(W) /\ IsFiniteSet(L) /\ Stats!Tally(rs, "W") = Cardinality(W) /\ Stats!Tally(rs, "L") = Cardinality(L)
    <2>1. IsFiniteSet(W) /\ IsFiniteSet(L)
      BY <1>1, <1>3, FS_Subset
    <2> QED  BY <2>1, StatsFiniteSets DEF Stats!Tally
  <1>5. \A k \in 1..n : F[k] \in Int
    OBVIOUS
  <1>6. /\ Stats!Tally(rs, "W") \in Nat /\ w \in Int /\ Total(F, W) \in Int
        /\ 2 * w - 20 * Total(F, W) \in (-Stats!Tally(rs, "W"))..Stats!Tally(rs, "W")
    BY PartOfPoints
  <1>7. /\ Stats!Tally(rs, "L") \in Nat /\ l \in Int /\ Total(F, L) \in Int
        /\ 2 * l - 20 * Total(F, L) \in (-Stats!Tally(rs, "L"))..Stats!Tally(rs, "L")
    BY PartOfPoints
  <1>12. PICK m \in Nat, x \in Int : m = Stats!Tally(rs, "W") /\ x = Total(F, W)
    BY <1>6
  <1>13. PICK j \in Nat, y \in Int : j = Stats!Tally(rs, "L") /\ y = Total(F, L)
    BY <1>7
  <1> HIDE DEF F, W, L
  <1>8. all = x + y
    <2>1. Total(F, 1..n) = Total(F, W) + Total(F, L)
      BY <1>1, <1>3, <1>5, TotalOfTwo
    <2> QED  BY <1>12, <1>13, <2>1 DEF F
  <1>9. n = m + j
    <2>1. Cardinality(W \cup L) = Cardinality(W) + Cardinality(L) - Cardinality(W \cap L)
      BY <1>4, FS_Union
    <2>2. Cardinality(W \cap L) = 0
      BY <1>3, FS_EmptySet
    <2>3. Cardinality(W \cup L) = n
      BY <1>1, <1>3
    <2>4. Cardinality(W) = m /\ Cardinality(L) = j
      BY <1>4, <1>12, <1>13
    <2>5. n = m + j - 0
      BY <2>1, <2>2, <2>3, <2>4
    <2> QED  BY <2>5
  <1>10. w \in Int /\ -m <= 2 * w - 20 * x /\ 2 * w - 20 * x <= m
    <2>1. 2 * w - 20 * x \in (-m)..m /\ w \in Int
      BY <1>6, <1>12
    <2> QED  BY <2>1
  <1>11. l \in Int /\ -j <= 2 * l - 20 * y /\ 2 * l - 20 * y <= j
    <2>1. 2 * l - 20 * y \in (-j)..j /\ l \in Int
      BY <1>7, <1>13
    <2> QED  BY <2>1
  <1>14. 2 * (w + l - 10 * (x + y)) \in (-(m + j))..(m + j)
    BY <1>10, <1>11, TwoParts
  <1> QED  BY <1>8, <1>9, <1>14

\* The greater of two numbers.
LEMMA MaxOfTwo ==
    ASSUME NEW a \in Int, NEW b \in Int
    PROVE  Stats!Max({a, b}) = IF a >= b THEN a ELSE b
  <1> DEFINE P(m) == \A x \in {a, b} : m >= x
  <1>1. Stats!Max({a, b}) = CHOOSE m \in {a, b} : P(m)
    BY DEF Stats!Max
  <1>2. CASE a >= b
    <2>1. P(a) /\ \A m \in {a, b} : P(m) => m = a
      BY <1>2
    <2> HIDE DEF P
    <2> QED  BY <1>1, <1>2, <2>1
  <1>3. CASE ~(a >= b)
    <2>1. P(b) /\ \A m \in {a, b} : P(m) => m = b
      BY <1>3
    <2> HIDE DEF P
    <2> QED  BY <1>1, <1>3, <2>1
  <1> QED  BY <1>2, <1>3

\* The form is the end of the list.
LEMMA FormIs ==
    ASSUME StatBounds, NEW rs, NEW n, IsList(rs, n), n >= 1, NEW f, f = Stats!RecentForm(rs)
    PROVE  \E m \in 1..n : /\ IsList(f, m)
                           /\ \A k \in 1..m : f[k] = rs[n - m + k]
  <1> DEFINE s == Stats!Max({1, n - RECENT_FORM_LIMIT + 1})
             m == n - s + 1
  <1>1. n \in Nat /\ Len(rs) = n /\ DOMAIN rs = 1..n
    BY DEF IsList
  <1>2. RECENT_FORM_LIMIT \in Nat \ {0}
    BY DEF StatBounds
  <1>3. s = IF 1 >= n - RECENT_FORM_LIMIT + 1 THEN 1 ELSE n - RECENT_FORM_LIMIT + 1
    BY <1>1, <1>2, MaxOfTwo
  <1>4. f = SubSeq(rs, s, n)
    BY <1>1 DEF Stats!RecentForm
  <1> HIDE DEF s
  <1>5. s \in 1..n /\ m \in 1..n
    BY <1>1, <1>2, <1>3
  <1>6. f = [k \in 1..m |-> rs[s + k - 1]]
    BY <1>1, <1>4, <1>5
  <1>7. DOMAIN f = 1..m /\ \A k \in 1..m : f[k] = rs[s + k - 1]
    BY <1>6
  <1>8. Len(f) = m
    BY <1>5, <1>6
  <1>9. \A k \in 1..m : s + k - 1 = n - m + k
    BY <1>1, <1>5
  <1>10. \A k \in 1..m : f[k] = rs[n - m + k]
    BY <1>7, <1>9
  <1> HIDE DEF m
  <1>11. IsList(f, m)
    BY <1>1, <1>5, <1>7, <1>8 DEF IsList
  <1> QED  BY <1>5, <1>10, <1>11

\* The streak of the form is the current one, as far as the form goes.
LEMMA FormKeepsStreak ==
    ASSUME StatBounds, NEW rs, NEW n, IsList(rs, n), n >= 1, NEW f, f = Stats!RecentForm(rs)
    PROVE  Stats!Current(f) = Stats!Min({Stats!Current(rs), Len(f)})
  <1> DEFINE C == Stats!Current(rs)
             D == Stats!Current(f)
             t == rs[n].result
  <1>1. PICK m \in 1..n : IsList(f, m) /\ \A k \in 1..m : f[k] = rs[n - m + k]
    BY FormIs
  <1>2. n \in Nat /\ m >= 1 /\ m \in Nat /\ Len(f) = m
    BY <1>1 DEF IsList
  <1>3. f[m].result = t
    <2>1. m \in 1..m /\ n - m + m = n
      BY <1>2
    <2> QED  BY <1>1, <2>1
  <1>4. C \in 1..n /\ Run(rs, n - C, n, t) /\ \A j \in 1..n : Run(rs, n - j, n, t) => j <= C
    BY CurrentIs
  <1>5. D \in 1..m /\ Run(f, m - D, m, t) /\ \A j \in 1..m : Run(f, m - j, m, t) => j <= D
    BY <1>1, <1>2, <1>3, CurrentIs
  <1> HIDE DEF C, D, t
  <1>6. ASSUME NEW j \in 1..m PROVE Run(f, m - j, m, t) <=> Run(rs, n - j, n, t)
    <2>1. ASSUME Run(f, m - j, m, t), NEW k \in (n - j + 1)..n PROVE rs[k].result = t
      <3>1. k - (n - m) \in (m - j + 1)..m /\ k - (n - m) \in 1..m /\ n - m + (k - (n - m)) = k
        BY <1>2
      <3>2. f[k - (n - m)] = rs[k]
        BY <1>1, <3>1
      <3> QED  BY <2>1, <3>1, <3>2 DEF Run
    <2>2. ASSUME Run(rs, n - j, n, t), NEW k \in (m - j + 1)..m PROVE f[k].result = t
      <3>1. n - m + k \in (n - j + 1)..n /\ k \in 1..m
        BY <1>2
      <3>2. f[k] = rs[n - m + k]
        BY <1>1, <3>1
      <3> QED  BY <2>2, <3>1, <3>2 DEF Run
    <2> QED  BY <2>1, <2>2 DEF Run
  <1>7. D <= C
    <2>1. Run(rs, n - D, n, t) /\ D \in 1..n
      BY <1>2, <1>5, <1>6
    <2> QED  BY <1>4, <2>1
  <1>8. ASSUME NEW j \in 1..m, j <= C PROVE j <= D
    <2>1. Run(rs, n - j, n, t)
      <3>1. \A k \in (n - j + 1)..n : k \in (n - C + 1)..n
        BY <1>2, <1>4, <1>8
      <3> QED  BY <1>4, <3>1 DEF Run
    <2>2. Run(f, m - j, m, t)
      BY <1>6, <2>1
    <2> QED  BY <1>5, <2>2
  <1>9. D = IF C <= m THEN C ELSE m
    <2>1. CASE C <= m
      <3>1. C \in 1..m /\ C <= C
        BY <1>2, <1>4, <2>1
      <3>2. C <= D
        BY <1>8, <3>1
      <3> QED  BY <1>2, <1>4, <1>5, <1>7, <2>1, <3>2
    <2>2. CASE ~(C <= m)
      <3>1. m \in 1..m /\ m <= C
        BY <1>2, <1>4, <2>2
      <3>2. m <= D
        BY <1>8, <3>1
      <3> QED  BY <1>2, <1>5, <2>2, <3>2
    <2> QED  BY <2>1, <2>2
  <1>10. Stats!Min({C, m}) = IF C <= m THEN C ELSE m
    BY <1>2, <1>4, LesserNumber
  <1> QED  BY <1>2, <1>9, <1>10 DEF C, D

\* A result is a win, a loss or a draw.
LEMMA LettersAre == \A m : Stats!Letter(m) \in {"W", "L", "D"}
  BY DEF Stats!Letter

\* Streaks, close games, form and averages are parts of one record (team-impact.util).
LEMMA AllStreaksAgree ==
    ASSUME StatBounds, StatInv
    PROVE  Stats!StreaksAgree
  <1> SUFFICES ASSUME NEW p \in Stats!Live, NEW season \in Stats!Seasons,
                      NEW scope, scope = Stats!Scope(season), NEW rs, rs = Stats!Results(p, scope), rs # <<>>
               PROVE  /\ Stats!Current(rs) \in 1..Stats!Tally(rs, Stats!CurrentType(rs))
                      /\ Stats!BestRun(rs) <= Stats!Tally(rs, "W")
                      /\ (Stats!BestRun(rs) = 0 <=> Stats!Tally(rs, "W") = 0)
                      /\ Stats!CurrentType(rs) = "W" => Stats!Current(rs) <= Stats!BestRun(rs)
                      /\ Stats!Where(rs, "D") \subseteq Stats!Clutch(rs)
                      /\ Stats!Averages(rs)["us"] - Stats!Averages(rs)["them"] - Stats!Averages(rs)["margin"] \in -1..1
                      /\ Stats!Tally(rs, "D") = 0 =>
                           2 * ((IF Stats!Tally(rs, "W") = 0 THEN 0 ELSE Stats!Tally(rs, "W") * Stats!AvgPointsIn(rs, "W"))
                                + (IF Stats!Tally(rs, "L") = 0 THEN 0 ELSE Stats!Tally(rs, "L") * Stats!AvgPointsIn(rs, "L"))
                                - 10 * Stats!Sum(LAMBDA g : Stats!PointsIn(g, p), Stats!FinishedGames(p, scope)))
                             \in (-Len(rs))..Len(rs)
                      /\ Stats!Current(Stats!RecentForm(rs)) = Stats!Min({Stats!Current(rs), Len(Stats!RecentForm(rs))})
    BY DEF Stats!StreaksAgree
  <1> DEFINE G     == Stats!FinishedGames(p, scope)
             n     == Cardinality(G)
             games == Stats!InOrder(G)
             all   == Stats!Sum(LAMBDA g : Stats!PointsIn(g, p), G)
             F     == [k \in 1..n |-> rs[k].points]
  <1>1. p \in Players /\ scope \in SUBSET Games
    BY DEF Stats!Live, Stats!Scope, Stats!AllGames
  <1>2. /\ IsFiniteSet(G) /\ G \subseteq Games /\ IsList(rs, n)
        /\ \A k \in 1..n : games[k] \in G
        /\ \A g \in G : \E k \in 1..n : games[k] = g
        /\ \A k, l \in 1..n : games[k] = games[l] => k = l
    BY <1>1, ResultFacts
  <1>3. \A k \in 1..n :
            /\ rs[k].us \in Int /\ rs[k].them \in Int /\ rs[k].margin = rs[k].us - rs[k].them
            /\ rs[k].result = Stats!Letter(rs[k].margin)
            /\ rs[k].points = Stats!PointsIn(games[k], p) /\ rs[k].points \in Int
    BY <1>1, ResultFacts
  <1>4. all = Total([g \in G |-> Stats!PointsIn(g, p)], G)
    <2>1. IsFiniteSet(G)
      BY <1>2
    <2> HIDE DEF G
    <2> QED  BY <2>1, GamesAddUp
  <1>5. F = [k \in 1..n |-> rs[k].points] /\ \A k \in 1..n : F[k] = rs[k].points
    OBVIOUS
  <1>6. n \in Nat /\ Len(rs) = n /\ DOMAIN rs = 1..n
    BY <1>2 DEF IsList
  <1>7. n >= 1
    <2> SUFFICES ASSUME n = 0 PROVE FALSE
      BY <1>6
    <2>1. rs = <<>>
      <3>1. rs = [k \in DOMAIN rs |-> rs[k]]
        BY <1>6 DEF Stats!Results
      <3>2. DOMAIN rs = {}
        BY <1>6
      <3> QED  BY <3>1, <3>2
    <2> QED  BY <2>1
  <1>8. Total(F, 1..n) = all
    <2> DEFINE H == [g \in G |-> Stats!PointsIn(g, p)]
               N == 1..n
    <2>1. IsFiniteSet(N) /\ IsFiniteSet(G)
      BY <1>2, <1>6, FS_Interval
    <2>2. \A g \in G : H[g] \in Int /\ \E k \in N : games[k] = g
      BY <1>1, <1>2, PointsInIs
    <2>3. \A k \in N : games[k] \in G /\ F[k] = H[games[k]]
      BY <1>2, <1>3
    <2>4. \A k, l \in N : games[k] = games[l] => k = l
      BY <1>2
    <2> HIDE DEF N, F, H, G, games
    <2>5. Total(F, N) = Total(H, G)
      BY <2>1, <2>2, <2>3, <2>4, TotalOfList
    <2> QED  BY <1>4, <2>5 DEF N, H
  <1> HIDE DEF G, n, games, all, F
  <1>9. /\ Stats!Current(rs) \in 1..Stats!Tally(rs, Stats!CurrentType(rs))
        /\ Stats!BestRun(rs) <= Stats!Tally(rs, "W")
        /\ (Stats!BestRun(rs) = 0 <=> Stats!Tally(rs, "W") = 0)
        /\ Stats!CurrentType(rs) = "W" => Stats!Current(rs) <= Stats!BestRun(rs)
    BY <1>2, <1>7, StreaksAreParts
  <1>10. Stats!Where(rs, "D") \subseteq Stats!Clutch(rs)
    <2>1. \A k \in 1..n : rs[k].margin \in Int /\ rs[k].result = Stats!Letter(rs[k].margin)
      BY <1>3
    <2> QED  BY <1>2, <2>1, DrawsAreClose
  <1>11. Stats!Averages(rs)["us"] - Stats!Averages(rs)["them"] - Stats!Averages(rs)["margin"] \in -1..1
    BY <1>2, <1>3, <1>7, AveragesAreOneRecord
  <1>12. ASSUME Stats!Tally(rs, "D") = 0,
                NEW w, w = (IF Stats!Tally(rs, "W") = 0 THEN 0 ELSE Stats!Tally(rs, "W") * Stats!AvgPointsIn(rs, "W")),
                NEW l, l = (IF Stats!Tally(rs, "L") = 0 THEN 0 ELSE Stats!Tally(rs, "L") * Stats!AvgPointsIn(rs, "L"))
         PROVE  2 * (w + l - 10 * all) \in (-n)..n
    <2>1. \A k \in 1..n : rs[k].points \in Int /\ rs[k].result \in {"W", "L", "D"}
      BY <1>3, LettersAre
    <2>2. all = Total([k \in 1..n |-> rs[k].points], 1..n)
      BY <1>8 DEF F
    <2> QED  BY <1>2, <1>12, <2>1, <2>2, PointsAreParts
  <1>13. Stats!Tally(rs, "D") = 0 =>
             2 * ((IF Stats!Tally(rs, "W") = 0 THEN 0 ELSE Stats!Tally(rs, "W") * Stats!AvgPointsIn(rs, "W"))
                  + (IF Stats!Tally(rs, "L") = 0 THEN 0 ELSE Stats!Tally(rs, "L") * Stats!AvgPointsIn(rs, "L"))
                  - 10 * all) \in (-n)..n
    BY <1>12
  <1>14. Stats!Current(Stats!RecentForm(rs)) = Stats!Min({Stats!Current(rs), Len(Stats!RecentForm(rs))})
    BY <1>2, <1>7, FormKeepsStreak
  <1> QED  BY <1>6, <1>9, <1>10, <1>11, <1>13, <1>14 DEF all, G

\* The results of a player are those of the games, in their order.
AreOf(rs, p, G) ==
    \A k \in 1..Cardinality(G) :
        /\ rs[k].game = Stats!InOrder(G)[k] /\ rs[k].margin = Stats!Margin(Stats!InOrder(G)[k], p)
        /\ rs[k].result = Stats!Letter(rs[k].margin)

\* They are.
LEMMA ResultsOf ==
    ASSUME StatBounds, StatInv, NEW p \in Players
    PROVE  AreOf(Stats!Results(p, Games), p, Stats!FinishedGames(p, Games))
  <1>1. Games \in SUBSET Games
    OBVIOUS
  <1> QED  BY <1>1, ResultFacts DEF AreOf

\* Opponents in all their games have opposite records.
LEMMA OpponentsAreOpposite ==
    ASSUME StatBounds, StatInv, NEW p \in Players, NEW q \in Players,
           NEW G, G = Stats!FinishedGames(p, Games), G = Stats!FinishedGames(q, Games),
           \A g \in G : Side[g][p] # Side[g][q],
           NEW of_, of_ = Stats!Results(p, Games), NEW other, other = Stats!Results(q, Games)
    PROVE  \A k \in DOMAIN of_ : /\ of_[k].game = other[k].game /\ of_[k].margin = -other[k].margin
                                 /\ (of_[k].result = "W" <=> other[k].result = "L")
  <1> DEFINE n     == Cardinality(G)
             games == Stats!InOrder(G)
  <1>0. Games \in SUBSET Games
    OBVIOUS
  <1>1. /\ G \subseteq Games /\ IsList(of_, n) /\ \A k \in 1..n : games[k] \in G
        /\ \A k \in 1..n : /\ of_[k].game = games[k] /\ of_[k].margin = Stats!Margin(games[k], p)
                           /\ of_[k].result = Stats!Letter(of_[k].margin)
    <2>1. G \subseteq Games /\ IsList(of_, n) /\ \A k \in 1..n : games[k] \in G
      BY <1>0, ResultFacts
    <2>2. AreOf(of_, p, G)
      BY ResultsOf
    <2>3. \A k \in 1..n : /\ of_[k].game = games[k] /\ of_[k].margin = Stats!Margin(games[k], p)
                          /\ of_[k].result = Stats!Letter(of_[k].margin)
      BY <2>2 DEF AreOf
    <2> QED  BY <2>1, <2>3
  <1>2. \A k \in 1..n : /\ other[k].game = games[k] /\ other[k].margin = Stats!Margin(games[k], q)
                        /\ other[k].result = Stats!Letter(other[k].margin)
    <2>1. AreOf(other, q, G)
      BY ResultsOf
    <2> QED  BY <2>1 DEF AreOf
  <1>3. ASSUME NEW g \in G
        PROVE  /\ Stats!Margin(g, p) \in Int /\ Stats!Margin(g, q) \in Int
               /\ Stats!Margin(g, p) = -Stats!Margin(g, q)
    <2>1. g \in Games /\ Side[g][p] # "out" /\ Side[g][q] # "out"
      BY DEF Stats!FinishedGames
    <2>2. Side[g][p] \in {"home", "away"} /\ Side[g][q] \in {"home", "away"}
      BY <2>1 DEF StatBounds
    <2>3. Stats!Opponent(Side[g][p]) = Side[g][q] /\ Stats!Opponent(Side[g][q]) = Side[g][p]
      BY <2>2 DEF Stats!Opponent
    <2>4. \A t : Stats!TeamScore(g, t) \in Int
      BY <2>1, TeamScores
    <2>5. /\ Stats!Margin(g, p) = Stats!TeamScore(g, Side[g][p]) - Stats!TeamScore(g, Side[g][q])
          /\ Stats!Margin(g, q) = Stats!TeamScore(g, Side[g][q]) - Stats!TeamScore(g, Side[g][p])
      BY <2>3 DEF Stats!Margin
    <2> QED  BY <2>4, <2>5
  <1> HIDE DEF n, games
  <1>4. DOMAIN of_ = 1..n
    BY <1>1 DEF IsList
  <1>5. ASSUME NEW m \in Int, NEW o \in Int, m = -o
        PROVE  Stats!Letter(m) = "W" <=> Stats!Letter(o) = "L"
    BY <1>5 DEF Stats!Letter
  <1>6. ASSUME NEW k \in 1..n
        PROVE  /\ of_[k].game = other[k].game /\ of_[k].margin = -other[k].margin
               /\ (of_[k].result = "W" <=> other[k].result = "L")
    <2>1. /\ of_[k].margin \in Int /\ other[k].margin \in Int /\ of_[k].margin = -other[k].margin
          /\ of_[k].game = other[k].game
      BY <1>1, <1>2, <1>3
    <2>2. of_[k].result = Stats!Letter(of_[k].margin) /\ other[k].result = Stats!Letter(other[k].margin)
      BY <1>1, <1>2
    <2> QED  BY <1>5, <2>1, <2>2
  <1> QED  BY <1>4, <1>6

\* Teammates read the games they share alike.
LEMMA MatesAgree ==
    ASSUME StatBounds, StatInv, NEW p \in Stats!Live, NEW q \in Stats!Live, p # q
    PROVE  /\ (q \in Stats!Mates(p, Games) <=> p \in Stats!Mates(q, Games))
           /\ q \in Stats!Mates(p, Games) =>
                /\ Stats!WinRate(p, q, Games) = Stats!WinRate(q, p, Games)
                /\ Stats!WinRate(p, q, Games) \in 0..100
  <1> DEFINE T == Stats!Together(p, q, Games)
             W == {g \in T : Stats!Letter(Stats!Margin(g, p)) = "W"}
             t == Cardinality(T)
             w == Cardinality(W)
  <1>1. T = Stats!Together(q, p, Games) /\ T \subseteq Games
    BY DEF Stats!Together, Stats!FinishedGames
  <1>2. \A g \in T : Stats!Margin(g, p) = Stats!Margin(g, q)
    BY DEF Stats!Together, Stats!Margin
  <1>3. W = {g \in Stats!Together(q, p, Games) : Stats!Letter(Stats!Margin(g, q)) = "W"}
    BY <1>1, <1>2
  <1>4. Stats!WinsWith(p, q, Games) = w /\ Stats!WinsWith(q, p, Games) = w
    BY <1>3, StatsFiniteSets DEF Stats!WinsWith
  <1>5. Stats!Cardinality(T) = t
    BY StatsFiniteSets
  <1>6. W \in SUBSET T
    OBVIOUS
  <1> HIDE DEF T, W
  <1>7. IsFiniteSet(T) /\ IsFiniteSet(W) /\ t \in Nat /\ w \in Nat /\ w <= t
    BY <1>1, <1>6, FS_Subset, FS_CardinalityType DEF StatBounds
  <1> HIDE DEF t, w
  <1>8. /\ Stats!WinRate(p, q, Games) = Stats!Round(100 * w, t)
        /\ Stats!WinRate(q, p, Games) = Stats!Round(100 * w, t)
    BY <1>1, <1>4, <1>5 DEF Stats!WinRate, T
  <1>9. /\ (q \in Stats!Mates(p, Games) <=> t >= MIN_CHEMISTRY_GAMES)
        /\ (p \in Stats!Mates(q, Games) <=> t >= MIN_CHEMISTRY_GAMES)
    BY <1>1, <1>5 DEF Stats!Mates, T
  <1>10. ASSUME t >= MIN_CHEMISTRY_GAMES PROVE Stats!Round(100 * w, t) \in 0..100
    <2>1. t \in Nat \ {0}
      BY <1>7, <1>10 DEF StatBounds
    <2>2. PICK r \in Int : r = Stats!Round(100 * w, t) /\ 200 * w - t <= (2 * t) * r /\ (2 * t) * r <= 200 * w + t
      <3>1. 100 * w \in Int /\ 2 * (100 * w) = 200 * w
        BY <1>7
      <3> QED  BY <2>1, <3>1, RoundBounds
    <2>3. 0 <= r
      <3> SUFFICES ASSUME r <= -1 PROVE FALSE
        BY <2>2
      <3>1. r * (2 * t) <= (-1) * (2 * t) /\ r * (2 * t) = (2 * t) * r
        BY <2>1, <2>2, TimesRises
      <3> QED  BY <1>7, <2>1, <2>2, <3>1
    <2>4. r <= 100
      <3> SUFFICES ASSUME 101 <= r PROVE FALSE
        BY <2>2
      <3>1. 101 * (2 * t) <= r * (2 * t) /\ r * (2 * t) = (2 * t) * r
        BY <2>1, <2>2, TimesRises
      <3> QED  BY <1>7, <2>1, <2>2, <3>1
    <2> QED  BY <2>2, <2>3, <2>4
  <1> QED  BY <1>8, <1>9, <1>10

\* Two players read the games they share alike (team-impact.util, computeChemistry).
LEMMA AllSharedGamesAgree ==
    ASSUME StatBounds, StatInv
    PROVE  Stats!SharedGamesAgree
  <1>1. Stats!AllGames = Games /\ Stats!Live \subseteq Players
    BY DEF Stats!AllGames, Stats!Live
  <1>2. ASSUME NEW p \in Stats!Live, NEW q \in Stats!Live,
               Stats!FinishedGames(p, Games) = Stats!FinishedGames(q, Games),
               \A g \in Stats!FinishedGames(p, Games) : Side[g][p] # Side[g][q]
        PROVE  \A k \in DOMAIN Stats!Results(p, Games) :
                  /\ Stats!Results(p, Games)[k].game = Stats!Results(q, Games)[k].game
                  /\ Stats!Results(p, Games)[k].margin = -Stats!Results(q, Games)[k].margin
                  /\ (Stats!Results(p, Games)[k].result = "W" <=> Stats!Results(q, Games)[k].result = "L")
    BY <1>1, <1>2, OpponentsAreOpposite
  <1>3. ASSUME NEW p \in Stats!Live, NEW q \in Stats!Live, p # q
        PROVE  /\ (q \in Stats!Mates(p, Games) <=> p \in Stats!Mates(q, Games))
               /\ q \in Stats!Mates(p, Games) =>
                    /\ Stats!WinRate(p, q, Games) = Stats!WinRate(q, p, Games)
                    /\ Stats!WinRate(p, q, Games) \in 0..100
    BY <1>3, MatesAgree
  <1> QED  BY <1>1, <1>2, <1>3 DEF Stats!SharedGamesAgree

-----------------------------------------------------------------------------
(* GroupPages                                                              *)

\* Rows are counted, of players of a side only.
LEMMA StatsHold == Stats!Spec => []StatInv
  BY StatsBegin, StatsKeep, PTL DEF Stats!Spec

\* The cards of the first page, the record page and a player's page show what the day and
\* the rankings do, unless rows of deleted players or games are left (home.service,
\* game.service, player-stats).
THEOREM PagesOfRecordsAgree == PagesSpec => []PagesAgreeUnlessDeleted
  <1>1. StatInv => PagesAgreeUnlessDeleted
    BY StatAssumption, PagesOfStatsAgree DEF PagesAgreeUnlessDeleted
  <1> QED  BY <1>1, StatsHold, PagesAreParts, PTL

\* A day's table, cards and ranks agree with the rankings, percentiles average fifty on
\* every axis, and the shares of a team are those of a whole (the daily page, the
\* rankings page, player-ability.util, team-impact.util).
THEOREM AggregationsAgree == PagesSpec => []AggregatesAgree
  <1>1. StatInv => AggregatesAgree
    BY StatAssumption, DaysAgreeWithRankings, AllPartsAddUp DEF AggregatesAgree
  <1> QED  BY <1>1, StatsHold, PagesAreParts, PTL

\* Streaks, close games, recent form and averages are parts of one record, and two players
\* read the games they share alike (team-impact.util).
THEOREM RecordsOfPlayersAgree == PagesSpec => []ResultsAgree
  <1>1. StatInv => ResultsAgree
    BY StatAssumption, AllStreaksAgree, AllSharedGamesAgree DEF ResultsAgree
  <1> QED  BY <1>1, StatsHold, PagesAreParts, PTL
=============================================================================
