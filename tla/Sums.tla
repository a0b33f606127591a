-------------------------------- MODULE Sums --------------------------------
(***************************************************************************)
(* The sum of the values f[1], ..., f[N], as the recursive functions of    *)
(* Telemetry and DraftAlert compute it: such a function exists, is unique  *)
(* and adds up.  The induction principles of the library take an operator, *)
(* so the induction is done with sets of naturals here.                    *)
(***************************************************************************)
EXTENDS Integers, FiniteSets, FiniteSetTheorems, WellFoundedInduction, TLAPS

\* A set of naturals has a least element.
LEMMA LeastNat ==
    ASSUME NEW T, T \subseteq Nat, T # {}
    PROVE  \E x \in T : \A y \in T : x <= y
<1> DEFINE R == OpToRel(<, Nat)
<1>1. IsWellFoundedOn(R, Nat)
  BY NatLessThanWellFounded
<1>2. PICK x \in T : \A y \in T : ~(<<y, x>> \in R)
  <2> HIDE DEF R
  <2> QED  BY <1>1, WFMin
<1>3. R = {p \in Nat \X Nat : p[1] < p[2]}
  BY DEF OpToRel
<1>4. ASSUME NEW y \in T, y < x PROVE FALSE
  <2> HIDE DEF R
  <2>1. <<y, x>> \in Nat \X Nat /\ <<y, x>>[1] = y /\ <<y, x>>[2] = x
    OBVIOUS
  <2> QED  BY <1>2, <1>3, <1>4, <2>1
<1> QED  BY <1>4

\* Induction: a set with 0 and every successor of its naturals has all of them.
LEMMA NatInductive ==
    ASSUME NEW P, 0 \in P, \A n \in Nat : n \in P => n + 1 \in P
    PROVE  \A n \in Nat : n \in P
<1> SUFFICES ASSUME Nat \ P # {} PROVE FALSE
  OBVIOUS
<1>1. PICK x \in Nat \ P : \A y \in Nat \ P : x <= y
  BY LeastNat
<1>2. x # 0 /\ x - 1 \in Nat /\ x - 1 \in P
  BY <1>1
<1>3. x \in P
  BY <1>2
<1> QED  BY <1>3

\* S is the function that adds up f.
IsSum(S, f, N) == S = [n \in 0..N |-> IF n = 0 THEN 0 ELSE f[n] + S[n - 1]]

Total(f, N) == (CHOOSE S : IsSum(S, f, N))[N]

LEMMA SumExists ==
    ASSUME NEW N \in Nat, NEW f, \A n \in 1..N : f[n] \in Int
    PROVE  \E S \in [0..N -> Int] : IsSum(S, f, N)
<1> DEFINE P == {n \in Nat : n <= N => \E S \in [0..n -> Int] : IsSum(S, f, n)}
<1>1. 0 \in P
  <2> DEFINE S == [n \in 0..0 |-> 0]
  <2>1. S \in [0..0 -> Int] /\ IsSum(S, f, 0)
    BY DEF IsSum
  <2> QED  BY <2>1
<1>2. ASSUME NEW n \in Nat, n \in P PROVE n + 1 \in P
  <2> SUFFICES ASSUME n + 1 <= N
               PROVE  \E S \in [0..(n + 1) -> Int] : IsSum(S, f, n + 1)
    OBVIOUS
  <2>1. PICK T \in [0..n -> Int] : IsSum(T, f, n)
    BY <1>2
  <2> DEFINE S == [k \in 0..(n + 1) |-> IF k = n + 1 THEN f[n + 1] + T[n] ELSE T[k]]
  <2>2. f[n + 1] \in Int /\ T[n] \in Int
    OBVIOUS
  <2>3. \A k \in 0..(n + 1) : k = n + 1 \/ k \in 0..n
    OBVIOUS
  <2>4. S \in [0..(n + 1) -> Int]
    BY <2>2, <2>3
  <2>5. ASSUME NEW k \in 0..(n + 1)
        PROVE  S[k] = IF k = 0 THEN 0 ELSE f[k] + S[k - 1]
    <3>1. CASE k = n + 1
      <4>1. S[k] = f[n + 1] + T[n] /\ k # 0 /\ k - 1 = n /\ k - 1 # n + 1
        BY <3>1
      <4> QED  BY <3>1, <4>1
    <3>2. CASE k # n + 1
      <4>1. k \in 0..n /\ S[k] = T[k]
        BY <3>2
      <4>2. T[k] = IF k = 0 THEN 0 ELSE f[k] + T[k - 1]
        BY <2>1, <4>1 DEF IsSum
      <4>3. k # 0 => k - 1 \in 0..n /\ k - 1 # n + 1 /\ S[k - 1] = T[k - 1]
        BY <4>1
      <4> QED  BY <4>1, <4>2, <4>3
    <3> QED  BY <3>1, <3>2
  <2>6. S = [k \in 0..(n + 1) |-> S[k]]
    OBVIOUS
  <2>7. IsSum(S, f, n + 1)
    <3> HIDE DEF S
    <3> QED  BY <2>5, <2>6 DEF IsSum
  <2> QED  BY <2>4, <2>7
<1>3. N \in P
  <2> HIDE DEF P
  <2> QED  BY <1>1, <1>2, NatInductive
<1> QED  BY <1>3

LEMMA SumAgree ==
    ASSUME NEW M \in Nat, NEW N \in Nat, NEW f, NEW g, NEW S, NEW T,
           IsSum(S, f, M), IsSum(T, g, N),
           NEW k \in Nat, k <= M, k <= N, \A n \in 1..k : f[n] = g[n]
    PROVE  S[k] = T[k]
<1> DEFINE P == {n \in Nat : n <= k => S[n] = T[n]}
<1>1. 0 \in P
  BY DEF IsSum
<1>2. ASSUME NEW n \in Nat, n \in P PROVE n + 1 \in P
  <2> SUFFICES ASSUME n + 1 <= k PROVE S[n + 1] = T[n + 1]
    OBVIOUS
  <2>1. n + 1 \in 0..M /\ n + 1 \in 0..N /\ n + 1 # 0 /\ n + 1 - 1 = n
    OBVIOUS
  <2>2. S[n + 1] = f[n + 1] + S[n]
    BY <2>1 DEF IsSum
  <2>3. T[n + 1] = g[n + 1] + T[n]
    BY <2>1 DEF IsSum
  <2>4. S[n] = T[n] /\ f[n + 1] = g[n + 1]
    BY <1>2
  <2> QED  BY <2>2, <2>3, <2>4
<1>3. k \in P
  <2> HIDE DEF P
  <2> QED  BY <1>1, <1>2, NatInductive
<1> QED  BY <1>3

\* The sum of no number, of one more number, and of numbers that agree.
LEMMA TotalSum ==
    ASSUME NEW N \in Nat, NEW f, \A n \in 1..N : f[n] \in Int,
           NEW S, IsSum(S, f, N)
    PROVE  Total(f, N) = S[N] /\ S[N] \in Int
<1> DEFINE C == CHOOSE T : IsSum(T, f, N)
<1>1. IsSum(C, f, N)
  OBVIOUS
<1>2. Total(f, N) = C[N]
  BY DEF Total
<1>3. C[N] = S[N]
  <2> HIDE DEF C
  <2> QED  BY <1>1, SumAgree
<1>4. PICK T \in [0..N -> Int] : IsSum(T, f, N)
  BY SumExists
<1>5. T[N] = S[N]
  BY <1>4, SumAgree
<1> QED  BY <1>2, <1>3, <1>4, <1>5

LEMMA TotalType ==
    ASSUME NEW N \in Nat, NEW f, \A n \in 1..N : f[n] \in Int
    PROVE  Total(f, N) \in Int
BY SumExists, TotalSum

LEMMA TotalZero == ASSUME NEW f PROVE Total(f, 0) = 0
<1>1. PICK S : IsSum(S, f, 0)
  <2>1. 0 \in Nat /\ \A n \in 1..0 : f[n] \in Int
    OBVIOUS
  <2> QED  BY <2>1, SumExists
<1>2. S[0] = 0
  BY <1>1 DEF IsSum
<1>3. 0 \in Nat /\ \A n \in 1..0 : f[n] \in Int
  OBVIOUS
<1> QED  BY <1>1, <1>2, <1>3, TotalSum

LEMMA TotalNext ==
    ASSUME NEW N \in Nat, NEW f, \A n \in 1..(N + 1) : f[n] \in Int
    PROVE  Total(f, N + 1) = Total(f, N) + f[N + 1]
<1>1. PICK S : IsSum(S, f, N + 1)
  BY SumExists
<1>2. PICK T : IsSum(T, f, N)
  <2>1. \A n \in 1..N : f[n] \in Int
    OBVIOUS
  <2> QED  BY <2>1, SumExists
<1>3. S[N + 1] = f[N + 1] + S[N]
  BY <1>1 DEF IsSum
<1>4. S[N] = T[N]
  BY <1>1, <1>2, SumAgree
<1>5. Total(f, N + 1) = S[N + 1] /\ Total(f, N) = T[N]
  BY <1>1, <1>2, TotalSum
<1>6. Total(f, N) \in Int /\ f[N + 1] \in Int
  BY TotalType
<1> QED  BY <1>3, <1>4, <1>5, <1>6

LEMMA TotalAgree ==
    ASSUME NEW N \in Nat, NEW f, NEW g, \A n \in 1..N : f[n] \in Int /\ f[n] = g[n]
    PROVE  Total(f, N) = Total(g, N)
<1>1. PICK S : IsSum(S, f, N)
  BY SumExists
<1>2. PICK T : IsSum(T, g, N)
  BY SumExists
<1>3. S[N] = T[N]
  BY <1>1, <1>2, SumAgree
<1> QED  BY <1>1, <1>2, <1>3, TotalSum

\* Sums are added term by term.
LEMMA TotalAdd ==
    ASSUME NEW N \in Nat, NEW f, NEW g, NEW h,
           \A n \in 1..N : f[n] \in Int /\ g[n] \in Int /\ h[n] = f[n] + g[n]
    PROVE  Total(h, N) = Total(f, N) + Total(g, N)
<1> DEFINE P == {n \in Nat : n <= N => Total(h, n) = Total(f, n) + Total(g, n)}
<1>1. 0 \in P
  BY TotalZero
<1>2. ASSUME NEW n \in Nat, n \in P PROVE n + 1 \in P
  <2> SUFFICES ASSUME n + 1 <= N
               PROVE  Total(h, n + 1) = Total(f, n + 1) + Total(g, n + 1)
    OBVIOUS
  <2>1. \A k \in 1..(n + 1) : f[k] \in Int /\ g[k] \in Int /\ h[k] \in Int
    OBVIOUS
  <2>2. /\ Total(f, n + 1) = Total(f, n) + f[n + 1]
        /\ Total(g, n + 1) = Total(g, n) + g[n + 1]
        /\ Total(h, n + 1) = Total(h, n) + h[n + 1]
    BY <2>1, TotalNext
  <2>3. Total(f, n) \in Int /\ Total(g, n) \in Int
    BY <2>1, TotalType
  <2>4. h[n + 1] = f[n + 1] + g[n + 1] /\ f[n + 1] \in Int /\ g[n + 1] \in Int
    OBVIOUS
  <2>5. Total(h, n) = Total(f, n) + Total(g, n)
    BY <1>2
  <2> QED  BY <2>2, <2>3, <2>4, <2>5
<1>3. N \in P
  <2> HIDE DEF P
  <2> QED  BY <1>1, <1>2, NatInductive
<1> QED  BY <1>3

\* Counting a set by the values of a function.
LEMMA TotalCount ==
    ASSUME NEW N \in Nat, NEW E, IsFiniteSet(E), NEW f,
           \A n \in 1..N : f[n] = Cardinality({e \in E : e.id = n}),
           \A e \in E : e.id \in 1..N
    PROVE  Total(f, N) = Cardinality(E)
<1> DEFINE Upto(n) == {e \in E : e.id <= n}
           At(n) == {e \in E : e.id = n}
           P == {n \in Nat : n <= N => Total(f, n) = Cardinality(Upto(n))}
<1>1. \A n : IsFiniteSet(Upto(n)) /\ IsFiniteSet(At(n))
  BY FS_Subset
<1>2. \A n \in 1..N : f[n] \in Int
  <2>1. \A n : Cardinality(At(n)) \in Nat
    <3> HIDE DEF At
    <3> QED  BY <1>1, FS_CardinalityType
  <2>2. \A n \in 1..N : f[n] = Cardinality(At(n))
    OBVIOUS
  <2> HIDE DEF At
  <2> QED  BY <2>1, <2>2
<1>3. 0 \in P
  <2>1. Upto(0) = {}
    OBVIOUS
  <2> QED  BY <2>1, TotalZero, FS_EmptySet
<1>4. ASSUME NEW n \in Nat, n \in P PROVE n + 1 \in P
  <2> SUFFICES ASSUME n + 1 <= N PROVE Total(f, n + 1) = Cardinality(Upto(n + 1))
    <3> HIDE DEF Upto, At
    <3> QED  OBVIOUS
  <2>1. Total(f, n + 1) = Total(f, n) + f[n + 1]
    BY <1>2, TotalNext
  <2>2. Upto(n + 1) = Upto(n) \cup At(n + 1) /\ Upto(n) \cap At(n + 1) = {}
    OBVIOUS
  <2>3. Cardinality(Upto(n + 1))
          = Cardinality(Upto(n)) + Cardinality(At(n + 1)) - Cardinality({})
    <3> HIDE DEF Upto, At
    <3> QED  BY <1>1, <2>2, FS_Union
  <2>4. Cardinality(Upto(n)) \in Nat /\ Cardinality(At(n + 1)) \in Nat
    <3> HIDE DEF Upto, At
    <3> QED  BY <1>1, FS_CardinalityType
  <2>5. Total(f, n) = Cardinality(Upto(n))
    BY <1>4
  <2>6. f[n + 1] = Cardinality(At(n + 1))
    OBVIOUS
  <2> HIDE DEF Upto, At
  <2> QED  BY <2>1, <2>3, <2>4, <2>5, <2>6, FS_EmptySet
<1>5. N \in P
  <2> HIDE DEF P
  <2> QED  BY <1>3, <1>4, NatInductive
<1>6. Upto(N) = E
  OBVIOUS
<1> QED  BY <1>5, <1>6
=============================================================================
