--------------------------- MODULE InductionLemmas ---------------------------
(***************************************************************************)
(* Induction over numbers and over finite sets, stated of sets instead of  *)
(* predicates: a set that holds the first element and is closed under the  *)
(* step holds every element.  With it, what the folds of the library and   *)
(* the parts of a sequence are.                                            *)
(***************************************************************************)
EXTENDS Integers, SequencesExt, FiniteSetsExt, SequenceParts,
        FiniteSetTheorems, FunctionTheorems, WellFoundedInduction, TLAPS

\* Every set of naturals that is not empty has a least element.
LEMMA LeastNumber ==
    ASSUME NEW T \in SUBSET Nat, T # {}
    PROVE  \E n \in T : \A m \in T : n <= m
  <1>1. PICK n \in T : \A m \in T : ~ (<<m, n>> \in OpToRel(<, Nat))
    BY NatLessThanWellFounded, WFMin
  <1>2. \A m \in T : ~ (m < n)
    BY <1>1 DEF OpToRel
  <1>. QED
    BY <1>2

LEMMA SetInduction ==
    ASSUME NEW T \in SUBSET Nat, 0 \in T, \A n \in T : n + 1 \in T
    PROVE  T = Nat
  <1>1. CASE Nat \ T # {}
    <2>1. PICK n \in Nat \ T : \A m \in Nat \ T : n <= m
      BY <1>1, LeastNumber
    <2>2. n - 1 \in T
      BY <2>1
    <2>. QED
      BY <2>1, <2>2
  <1>. QED
    BY <1>1

LEMMA MinIsLeast ==
    ASSUME NEW T \in SUBSET Nat, T # {}
    PROVE  Min(T) \in T /\ \A n \in T : Min(T) <= n
  BY LeastNumber DEF Min

LEMMA MaxIsGreatest ==
    ASSUME NEW n \in Nat, NEW T \in SUBSET (1..n), T # {}
    PROVE  Max(T) \in T /\ \A x \in T : x <= Max(T)
  <1>. DEFINE U == {k \in Nat : n - k \in T}
  <1>1. PICK k \in U : \A m \in U : k <= m
    <2>1. PICK x \in T : TRUE
      OBVIOUS
    <2>2. n - x \in U
      OBVIOUS
    <2>. QED
      BY <2>2, LeastNumber
  <1>2. \A x \in T : x <= n - k
    <2>1. ASSUME NEW x \in T PROVE x <= n - k
      <3>1. n - x \in U
        OBVIOUS
      <3>. QED
        BY <1>1, <3>1
    <2>. QED
      BY <2>1
  <1>3. n - k \in T
    BY <1>1
  <1>4. \E x \in T : \A y \in T : x >= y
    BY <1>2, <1>3
  <1>5. Max(T) \in T /\ \A y \in T : Max(T) >= y
    BY <1>4 DEF Max
  <1>. QED
    BY <1>5

LEMMA MaxOfTwo ==
  ASSUME NEW a \in Int, NEW b \in Int
  PROVE  Max({a, b}) \in {a, b} /\ Max({a, b}) >= a /\ Max({a, b}) >= b
  <1>1. \E x \in {a, b} : \A y \in {a, b} : x >= y
    <2>1. CASE a >= b
      BY <2>1
    <2>2. CASE b >= a
      BY <2>2
    <2> QED
      BY <2>1, <2>2
  <1>2. Max({a, b}) \in {a, b} /\ \A y \in {a, b} : Max({a, b}) >= y
    BY <1>1 DEF Max
  <1> QED
    BY <1>2

\* The provers multiply and divide by a variable when told how.
LEMMA Division ==
  ASSUME NEW x \in Nat, NEW m \in Nat, m > 0
  PROVE  x \div m \in Nat /\ (x \div m) * m <= x /\ x < (x \div m + 1) * m
  OBVIOUS

LEMMA Products ==
  ASSUME NEW x \in Nat, NEW y \in Nat, x <= y, NEW m \in Nat
  PROVE  x * m <= y * m /\ x * m \in Nat
  OBVIOUS

LEMMA OneLess ==
    ASSUME NEW S, IsFiniteSet(S), NEW s \in SUBSET S, NEW x \in s
    PROVE  /\ s \ {x} \in SUBSET S
           /\ Cardinality(s) \in Nat /\ Cardinality(s \ {x}) \in Nat
           /\ Cardinality(s) = Cardinality(s \ {x}) + 1
  <1>2. IsFiniteSet(s) /\ IsFiniteSet(s \ {x})
    BY FS_Subset
  <1>3. Cardinality(s) \in Nat /\ Cardinality(s \ {x}) \in Nat
    BY <1>2, FS_CardinalityType
  <1>4. Cardinality(s \ {x}) = Cardinality(s) - 1
    BY <1>2, FS_RemoveElement
  <1>. QED
    BY <1>3, <1>4

LEMMA SubsetInduction ==
    ASSUME NEW S, IsFiniteSet(S), NEW B \in SUBSET SUBSET S, {} \in B,
           \A s \in SUBSET S : s # {} /\ (\A x \in s : s \ {x} \in B) => s \in B
    PROVE  B = SUBSET S
  <1>. DEFINE T == {n \in Nat : \A s \in SUBSET S : Cardinality(s) = n => s \in B}
  <1>1. 0 \in T
    <2>1. ASSUME NEW s \in SUBSET S, s # {} PROVE Cardinality(s) # 0
      <3>1. PICK x \in s : TRUE
        BY <2>1
      <3>2. Cardinality(s) = Cardinality(s \ {x}) + 1 /\ Cardinality(s \ {x}) \in Nat
        BY OneLess
      <3>. QED
        BY <3>2
    <2>. QED
      BY <2>1
  <1>2. ASSUME NEW n \in T PROVE n + 1 \in T
    <2>1. ASSUME NEW s \in SUBSET S, Cardinality(s) = n + 1 PROVE s \in B
      <3>1. s # {}
        BY <2>1, FS_EmptySet
      <3>2. ASSUME NEW x \in s PROVE s \ {x} \in B
        <4>1. s \ {x} \in SUBSET S /\ Cardinality(s \ {x}) = n
          BY <2>1, OneLess
        <4>. QED
          BY <4>1
      <3>. QED
        BY <3>1, <3>2
    <2>. QED
      BY <2>1
  <1>3. T = Nat
    <2>. HIDE DEF T
    <2>1. T \in SUBSET Nat
      BY DEF T
    <2>. QED
      BY <1>1, <1>2, <2>1, SetInduction
  <1>4. \A s \in SUBSET S : Cardinality(s) \in Nat
    BY FS_Subset, FS_CardinalityType
  <1>. QED
    BY <1>3, <1>4

-----------------------------------------------------------------------------
(***************************************************************************)
(* The folds of the library are given by a function on the subsets of what *)
(* is folded.  There is such a function when every step stays in a set A;  *)
(* "pick" says which element a set is folded by first.                     *)
(***************************************************************************)
IsPicker(pick, S) == \A s \in SUBSET S : s # {} => pick[s] \in s

FoldStep(it, base, g, pick, s) ==
    IF s = {} THEN base ELSE g[<<it[s \ {pick[s]}], pick[s]>>]

\* the subsets of at most n elements
UpTo(S, n) == {s \in SUBSET S : Cardinality(s) <= n}

LEMMA UpToSteps ==
    ASSUME NEW S, IsFiniteSet(S), NEW n \in Nat
    PROVE  /\ UpTo(S, n) \in SUBSET UpTo(S, n + 1)
           /\ \A s \in UpTo(S, n + 1) : \A x \in s : s \ {x} \in UpTo(S, n)
           /\ UpTo(S, 0) = {{}}
  <1>1. UpTo(S, n) \in SUBSET UpTo(S, n + 1)
    BY FS_Subset, FS_CardinalityType DEF UpTo
  <1>2. ASSUME NEW s \in UpTo(S, n + 1), NEW x \in s PROVE s \ {x} \in UpTo(S, n)
    BY OneLess DEF UpTo
  <1>3. {} \in UpTo(S, 0)
    BY FS_EmptySet DEF UpTo
  <1>4. ASSUME NEW s \in UpTo(S, 0), s # {} PROVE FALSE
    <2>1. PICK x \in s : TRUE
      BY <1>4
    <2>2. s \in SUBSET S /\ Cardinality(s) <= 0
      BY DEF UpTo
    <2>3. Cardinality(s) = Cardinality(s \ {x}) + 1 /\ Cardinality(s \ {x}) \in Nat
      BY <2>2, OneLess
    <2>. QED
      BY <2>2, <2>3
  <1>. QED
    BY <1>1, <1>2, <1>3, <1>4

IsPartialFold(it, base, g, pick, S, n) ==
    \A s \in UpTo(S, n) : it[s] = FoldStep(it, base, g, pick, s)
HasPartialFold(A, base, g, pick, S, n) ==
    \E it \in [UpTo(S, n) -> A] : IsPartialFold(it, base, g, pick, S, n)
HasFold(A, base, g, pick, S) ==
    \E it \in [SUBSET S -> A] : \A s \in SUBSET S : it[s] = FoldStep(it, base, g, pick, s)

LEMMA PartialFoldExists ==
    ASSUME NEW S, IsFiniteSet(S), NEW A, NEW base \in A, NEW g \in [A \X S -> A],
           NEW pick, IsPicker(pick, S), NEW n \in Nat
    PROVE  HasPartialFold(A, base, g, pick, S, n)
  <1>. DEFINE Good(it, k) == IsPartialFold(it, base, g, pick, S, k)
              T == {k \in Nat : HasPartialFold(A, base, g, pick, S, k)}
  <1>1. 0 \in T
    <2>. DEFINE it == [s \in UpTo(S, 0) |-> base]
    <2>1. it \in [UpTo(S, 0) -> A] /\ Good(it, 0)
      BY UpToSteps DEF FoldStep, IsPartialFold
    <2>. HIDE DEF it
    <2>. QED
      BY <2>1 DEF HasPartialFold
  <1>2. ASSUME NEW k \in T PROVE k + 1 \in T
    <2>1. PICK old \in [UpTo(S, k) -> A] : Good(old, k)
      BY <1>2 DEF HasPartialFold
    <2>. DEFINE new == [s \in UpTo(S, k + 1) |-> FoldStep(old, base, g, pick, s)]
    <2>2. ASSUME NEW s \in UpTo(S, k + 1), s # {}
          PROVE  pick[s] \in S /\ s \ {pick[s]} \in UpTo(S, k)
      BY <2>2, UpToSteps DEF UpTo, IsPicker
    <2>3. new \in [UpTo(S, k + 1) -> A]
      BY <2>2 DEF FoldStep
    <2>4. \A s \in UpTo(S, k) : new[s] = old[s]
      BY <2>1, UpToSteps DEF IsPartialFold
    <2>5. Good(new, k + 1)
      BY <2>2, <2>4 DEF FoldStep, IsPartialFold
    <2>. HIDE DEF new
    <2>. QED
      BY <2>3, <2>5 DEF HasPartialFold
  <1>3. T = Nat
    <2>. HIDE DEF T
    <2>1. T \in SUBSET Nat
      BY DEF T
    <2>. QED
      BY <1>1, <1>2, <2>1, SetInduction
  <1>. QED
    BY <1>3

LEMMA FoldExists ==
    ASSUME NEW S, IsFiniteSet(S), NEW A, NEW base \in A, NEW g \in [A \X S -> A],
           NEW pick, IsPicker(pick, S)
    PROVE  HasFold(A, base, g, pick, S)
  <1>1. Cardinality(S) \in Nat
    BY FS_CardinalityType
  <1>2. UpTo(S, Cardinality(S)) = SUBSET S
    BY FS_Subset DEF UpTo
  <1>3. HasPartialFold(A, base, g, pick, S, Cardinality(S))
    BY <1>1, PartialFoldExists
  <1>. QED
    BY <1>2, <1>3 DEF HasPartialFold, IsPartialFold, HasFold

\* FoldLeft folds by the last element first.
LastOf(n) == [s \in SUBSET (1..n) |-> Max(s)]

LEMMA LeftFoldExists ==
    ASSUME NEW n \in Nat, NEW A, NEW base \in A, NEW g \in [A \X (1..n) -> A]
    PROVE  /\ HasFold(A, base, g, LastOf(n), 1..n)
           /\ \A s \in SUBSET (1..n) : s # {} => LastOf(n)[s] = Max(s) /\ Max(s) \in s
  <1>1. \A s \in SUBSET (1..n) : s # {} => LastOf(n)[s] = Max(s) /\ Max(s) \in s
    BY MaxIsGreatest DEF LastOf
  <1>2. IsPicker(LastOf(n), 1..n)
    BY <1>1 DEF IsPicker
  <1>3. IsFiniteSet(1..n)
    BY FS_Interval
  <1>. QED
    BY <1>1, <1>2, <1>3, FoldExists

\* The first places of a sequence, and induction over them
LEMMA FirstPlaces ==
  ASSUME NEW n \in Nat, NEW k \in 1..n
  PROVE  /\ 1..k \in SUBSET (1..n) /\ 1..k # {} /\ Max(1..k) = k
         /\ (1..k) \ {Max(1..k)} = 1..(k - 1)
  <1>1. 1..k \in SUBSET (1..n) /\ 1..k # {} /\ k \in 1..k
    OBVIOUS
  <1>2. Max(1..k) \in 1..k /\ k <= Max(1..k)
    BY <1>1, MaxIsGreatest
  <1>3. Max(1..k) = k
    BY <1>2
  <1>4. (1..k) \ {k} = 1..(k - 1)
    OBVIOUS
  <1>5. (1..k) \ {Max(1..k)} = 1..(k - 1)
    BY Zenon, <1>3, <1>4
  <1> QED
    BY Zenon, <1>1, <1>3, <1>5

LEMMA MaxOfPlaces ==
  ASSUME NEW n \in Nat
  PROVE  \A s \in SUBSET (1..n) : s # {} => Max(s) \in s /\ Max(s) \in 1..n
  BY MaxIsGreatest

LEMMA PrefixInduction ==
  ASSUME NEW n \in Nat, NEW T, 0 \in T, \A k \in 1..n : k - 1 \in T => k \in T
  PROVE  n \in T
  <1>. DEFINE U == {k \in Nat : k <= n => k \in T}
  <1>1. 0 \in U
    OBVIOUS
  <1>2. ASSUME NEW k \in U PROVE k + 1 \in U
    <2>1. CASE k + 1 <= n
      <3>1. k + 1 \in 1..n /\ (k + 1) - 1 = k /\ k \in T
        BY <2>1
      <3>2. (k + 1) - 1 \in T
        BY <3>1
      <3>3. k + 1 \in T
        BY <3>1, <3>2
      <3> QED
        BY <3>3
    <2>2. CASE ~ (k + 1 <= n)
      BY <2>2
    <2> QED
      BY <2>1, <2>2
  <1>. HIDE DEF U
  <1>3. U \in SUBSET Nat
    BY DEF U
  <1>4. U = Nat
    BY <1>1, <1>2, <1>3, SetInduction
  <1> QED
    BY <1>4 DEF U

\* A fold taken step by step: what it is after k elements follows from what it
\* was after k - 1.
HasSteps(A, base, g, n) ==
    \E it \in [SUBSET (1..n) -> A] :
        /\ it[{}] = base
        /\ \A s \in SUBSET (1..n) : s # {} => it[s] = g[<<it[s \ {Max(s)}], Max(s)>>]

LEMMA FoldHasSteps ==
  ASSUME NEW n \in Nat, NEW A, NEW base \in A, NEW g \in [A \X (1..n) -> A]
  PROVE  HasSteps(A, base, g, n)
  <1>1. /\ HasFold(A, base, g, LastOf(n), 1..n)
        /\ \A s \in SUBSET (1..n) : s # {} => LastOf(n)[s] = Max(s) /\ Max(s) \in s
    BY LeftFoldExists
  <1>2. PICK it \in [SUBSET (1..n) -> A] :
          \A s \in SUBSET (1..n) : it[s] = FoldStep(it, base, g, LastOf(n), s)
    BY <1>1 DEF HasFold
  <1>3. ASSUME NEW s \in SUBSET (1..n), s # {} PROVE it[s] = g[<<it[s \ {Max(s)}], Max(s)>>]
    BY <1>1, <1>2, <1>3 DEF FoldStep
  <1>4. it[{}] = base
    BY <1>2 DEF FoldStep
  <1> QED
    BY <1>3, <1>4 DEF HasSteps

HasPrefixes(A, base, g, n, f) ==
    \E h \in [0..n -> A] :
        h[0] = base /\ h[n] = f[1..n] /\ \A k \in 1..n : h[k] = g[<<h[k - 1], k>>]

LEMMA FoldByPrefixes ==
  ASSUME NEW n \in Nat, NEW A, NEW base \in A, NEW g \in [A \X (1..n) -> A],
         NEW f, f[{}] = base,
         \A s \in SUBSET (1..n) : s # {} /\ f[s \ {Max(s)}] \in A =>
             f[s] = g[<<f[s \ {Max(s)}], Max(s)>>]
  PROVE  HasPrefixes(A, base, g, n, f)
  <1>. DEFINE h == [k \in 0..n |-> f[1..k]]
  <1>1. 1..0 = {} /\ 0 \in 0..n /\ n \in 0..n /\ \A k \in 1..n : k \in 0..n /\ k - 1 \in 0..n
    OBVIOUS
  <1>2. h[0] = base /\ h[n] = f[1..n]
    BY <1>1
  <1>3. ASSUME NEW k \in 1..n, h[k - 1] \in A PROVE h[k] = g[<<h[k - 1], k>>]
    <2>1. /\ 1..k \in SUBSET (1..n) /\ 1..k # {} /\ Max(1..k) = k
          /\ (1..k) \ {Max(1..k)} = 1..(k - 1)
      BY FirstPlaces
    <2>2. h[k - 1] = f[1..(k - 1)] /\ h[k] = f[1..k]
      BY <1>1
    <2> QED
      BY <1>3, <2>1, <2>2
  <1>. HIDE DEF h
  <1>4. ASSUME NEW m \in 0..n PROVE h[m] \in A
    <2>. DEFINE T == {k \in 0..n : h[k] \in A}
    <2>1. 0 \in T
      BY <1>1, <1>2
    <2>2. ASSUME NEW k \in 1..m, k - 1 \in T PROVE k \in T
      <3>1. k \in 1..n /\ k \in 0..n /\ h[k - 1] \in A
        BY <2>2
      <3>2. <<h[k - 1], k>> \in A \X (1..n)
        BY <3>1
      <3> QED
        BY <1>3, <3>1, <3>2
    <2>. HIDE DEF T
    <2>3. m \in T
      BY <2>1, <2>2, PrefixInduction
    <2> QED
      BY <2>3 DEF T
  <1>5. h \in [0..n -> A]
    BY <1>4 DEF h
  <1>6. \A k \in 1..n : h[k] = g[<<h[k - 1], k>>]
    BY <1>1, <1>3, <1>4
  <1> QED
    BY <1>2, <1>5, <1>6 DEF HasPrefixes

\* Where the steps of such a fold lead
LEMMA LeftFoldStays ==
    ASSUME NEW n \in Nat, NEW A, NEW f, f[{}] \in A,
           \A s \in SUBSET (1..n) : s # {} /\ f[s \ {Max(s)}] \in A => f[s] \in A
    PROVE  f[1..n] \in A
  <1>. DEFINE B == {s \in SUBSET (1..n) : f[s] \in A}
  <1>1. {} \in B
    OBVIOUS
  <1>2. ASSUME NEW s \in SUBSET (1..n), s # {}, \A x \in s : s \ {x} \in B PROVE s \in B
    <2>1. Max(s) \in s
      BY <1>2, MaxIsGreatest
    <2>. QED
      BY <1>2, <2>1
  <1>3. B = SUBSET (1..n)
    <2>. HIDE DEF B
    <2>1. B \in SUBSET SUBSET (1..n)
      BY DEF B
    <2>2. IsFiniteSet(1..n)
      BY FS_Interval
    <2>. QED
      BY <1>1, <1>2, <2>1, <2>2, SubsetInduction
  <1>. QED
    BY <1>3

-----------------------------------------------------------------------------
(* Sums: MapThenSumSet folds a set by whatever element CHOOSE takes.        *)

Pick(s) == CHOOSE x \in s : TRUE

IsSummer(it, f, S) ==
    it = [s \in SUBSET S |-> IF s = {} THEN 0 ELSE f[Pick(s)] + it[s \ {Pick(s)}]]

Summer(f, S) == CHOOSE it : IsSummer(it, f, S)

SumOf(f, S) == MapThenSumSet(LAMBDA x : f[x], S)

LEMMA SumIsSummer ==
    ASSUME NEW S, NEW f
    PROVE  SumOf(f, S) = Summer(f, S)[S]
  BY Zenon DEF SumOf, MapThenSumSet, MapThenFoldSet, Summer, IsSummer, Pick

LEMMA SummerSteps ==
    ASSUME NEW S, IsFiniteSet(S), NEW f \in [S -> Nat]
    PROVE  /\ Summer(f, S)[{}] = 0
           /\ \A s \in SUBSET S : s # {} =>
                 /\ Pick(s) \in s
                 /\ Summer(f, S)[s] = f[Pick(s)] + Summer(f, S)[s \ {Pick(s)}]
  <1>. DEFINE g == [p \in Nat \X S |-> f[p[2]] + p[1]]
              pick == [s \in SUBSET S |-> Pick(s)]
              it == Summer(f, S)
  <1>1. \A s \in SUBSET S : s # {} => Pick(s) \in s
    BY DEF Pick
  <1>2. IsPicker(pick, S)
    BY <1>1 DEF IsPicker
  <1>3. g \in [Nat \X S -> Nat]
    OBVIOUS
  <1>4. PICK sum \in [SUBSET S -> Nat] : \A s \in SUBSET S : sum[s] = FoldStep(sum, 0, g, pick, s)
    <2>. HIDE DEF g, pick
    <2>1. 0 \in Nat
      OBVIOUS
    <2>2. HasFold(Nat, 0, g, pick, S)
      BY <1>2, <1>3, <2>1, FoldExists
    <2>. QED
      BY <2>2 DEF HasFold
  <1>5. \A s \in SUBSET S : sum[s] = IF s = {} THEN 0 ELSE f[Pick(s)] + sum[s \ {Pick(s)}]
    <2>1. ASSUME NEW s \in SUBSET S, s # {} PROVE sum[s] = f[Pick(s)] + sum[s \ {Pick(s)}]
      <3>1. pick[s] = Pick(s) /\ Pick(s) \in S /\ sum[s \ {Pick(s)}] \in Nat
        BY <1>1, <2>1
      <3>2. g[<<sum[s \ {Pick(s)}], Pick(s)>>] = f[Pick(s)] + sum[s \ {Pick(s)}]
        BY <3>1
      <3>. QED
        BY <1>4, <2>1, <3>1, <3>2 DEF FoldStep
    <2>2. sum[{}] = 0
      BY <1>4 DEF FoldStep
    <2>. QED
      BY <2>1, <2>2
  <1>6. IsSummer(sum, f, S)
    BY <1>5 DEF IsSummer
  <1>7. IsSummer(it, f, S)
    BY <1>6 DEF Summer
  <1>. HIDE DEF it
  <1>8. \A s \in SUBSET S : it[s] = IF s = {} THEN 0 ELSE f[Pick(s)] + it[s \ {Pick(s)}]
    BY <1>7 DEF IsSummer
  <1>. QED
    BY <1>1, <1>8 DEF it

LEMMA SummerNat ==
    ASSUME NEW S, IsFiniteSet(S), NEW f \in [S -> Nat]
    PROVE  \A s \in SUBSET S : Summer(f, S)[s] \in Nat
  <1>. DEFINE B == {s \in SUBSET S : Summer(f, S)[s] \in Nat}
  <1>1. {} \in B
    BY SummerSteps
  <1>2. ASSUME NEW s \in SUBSET S, s # {}, \A x \in s : s \ {x} \in B PROVE s \in B
    <2>1. f[Pick(s)] \in Nat
      BY <1>2, SummerSteps
    <2>2. Summer(f, S)[s] = f[Pick(s)] + Summer(f, S)[s \ {Pick(s)}]
      BY <1>2, SummerSteps
    <2>3. Summer(f, S)[s \ {Pick(s)}] \in Nat
      BY <1>2, SummerSteps
    <2>. QED
      BY <2>1, <2>2, <2>3
  <1>3. B = SUBSET S
    <2>. HIDE DEF B
    <2>1. B \in SUBSET SUBSET S
      BY DEF B
    <2>. QED
      BY <1>1, <1>2, <2>1, SubsetInduction
  <1>. QED
    BY <1>3

\* two functions that differ at most at x
LEMMA SummerUpdate ==
    ASSUME NEW S, IsFiniteSet(S), NEW f \in [S -> Nat], NEW g \in [S -> Nat], NEW x \in S,
           \A y \in S \ {x} : g[y] = f[y]
    PROVE  \A s \in SUBSET S :
              Summer(g, S)[s] = Summer(f, S)[s] + IF x \in s THEN g[x] - f[x] ELSE 0
  <1>. DEFINE F(s) == Summer(f, S)[s]
              G(s) == Summer(g, S)[s]
              B == {s \in SUBSET S : G(s) = F(s) + IF x \in s THEN g[x] - f[x] ELSE 0}
  <1>1. {} \in B
    BY SummerSteps
  <1>2. ASSUME NEW s \in SUBSET S, s # {}, \A y \in s : s \ {y} \in B PROVE s \in B
    <2>. DEFINE p == Pick(s)
    <2>1. p \in s /\ s \ {p} \in SUBSET S
      BY <1>2, SummerSteps
    <2>2. F(s) = f[p] + F(s \ {p}) /\ G(s) = g[p] + G(s \ {p})
      BY <1>2, SummerSteps
    <2>3. F(s) \in Nat /\ G(s) \in Nat /\ F(s \ {p}) \in Nat /\ G(s \ {p}) \in Nat
      BY <2>1, SummerNat
    <2>4. G(s \ {p}) = F(s \ {p}) + IF x \in s \ {p} THEN g[x] - f[x] ELSE 0
      BY <1>2, <2>1
    <2>. HIDE DEF F, G, p
    <2>5. CASE p = x
      BY <2>1, <2>2, <2>3, <2>4, <2>5
    <2>6. CASE p # x
      <3>1. g[p] = f[p] /\ p \in S
        BY <2>1, <2>6
      <3>. QED
        BY <2>1, <2>2, <2>3, <2>4, <2>6, <3>1
    <2>. QED
      BY <2>5, <2>6
  <1>3. B = SUBSET S
    <2>. HIDE DEF B
    <2>1. B \in SUBSET SUBSET S
      BY DEF B
    <2>. QED
      BY <1>1, <1>2, <2>1, SubsetInduction
  <1>. QED
    BY <1>3

\* A sum of zeros is zero.
LEMMA SumOfZeros ==
    ASSUME NEW S, IsFiniteSet(S), NEW f \in [S -> Nat], \A x \in S : f[x] = 0
    PROVE  SumOf(f, S) = 0
  <1>. DEFINE B == {s \in SUBSET S : Summer(f, S)[s] = 0}
  <1>1. {} \in B
    BY SummerSteps
  <1>2. ASSUME NEW s \in SUBSET S, s # {}, \A x \in s : s \ {x} \in B PROVE s \in B
    <2>1. Pick(s) \in s
      BY <1>2, SummerSteps
    <2>2. Summer(f, S)[s] = f[Pick(s)] + Summer(f, S)[s \ {Pick(s)}]
      BY <1>2, SummerSteps
    <2>3. f[Pick(s)] = 0 /\ Summer(f, S)[s \ {Pick(s)}] = 0
      BY <1>2, <2>1
    <2>. QED
      BY <2>2, <2>3
  <1>3. B = SUBSET S
    <2>. HIDE DEF B
    <2>1. B \in SUBSET SUBSET S
      BY DEF B
    <2>. QED
      BY <1>1, <1>2, <2>1, SubsetInduction
  <1>. QED
    BY <1>3, SumIsSummer

\* Changing one term of a sum changes the sum by as much.
LEMMA SumUpdate ==
    ASSUME NEW S, IsFiniteSet(S), NEW f \in [S -> Nat], NEW g \in [S -> Nat], NEW x \in S,
           \A y \in S \ {x} : g[y] = f[y]
    PROVE  /\ SumOf(f, S) \in Nat
           /\ SumOf(g, S) = SumOf(f, S) + g[x] - f[x]
  <1>1. Summer(f, S)[S] \in Nat
    BY SummerNat
  <1>2. Summer(g, S)[S] = Summer(f, S)[S] + (g[x] - f[x])
    BY SummerUpdate
  <1>3. g[x] \in Nat /\ f[x] \in Nat
    OBVIOUS
  <1>4. SumOf(f, S) = Summer(f, S)[S] /\ SumOf(g, S) = Summer(g, S)[S]
    BY SumIsSummer
  <1>. QED
    BY <1>1, <1>2, <1>3, <1>4

-----------------------------------------------------------------------------
(* The parts of a sequence.                                                 *)

\* how many of I are below i
Rank(I, i) == Cardinality({j \in I : j < i})

LEMMA Ranks ==
    ASSUME NEW I \in SUBSET Int, IsFiniteSet(I)
    PROVE  /\ Cardinality(I) \in Nat
           /\ \A i \in I : Rank(I, i) \in 0..(Cardinality(I) - 1)
           /\ \A i, j \in I : i < j => Rank(I, i) < Rank(I, j)
  <1>. DEFINE Below(i) == {j \in I : j < i}
  <1>1. Cardinality(I) \in Nat /\ \A s \in SUBSET I : IsFiniteSet(s) /\ Cardinality(s) \in Nat
    BY FS_Subset, FS_CardinalityType
  <1>2. ASSUME NEW i \in I, NEW s \in SUBSET I, Below(i) \cup {i} \subseteq s
        PROVE  Rank(I, i) < Cardinality(s)
    <2>1. Cardinality(Below(i) \cup {i}) = Cardinality(Below(i)) + 1
      BY <1>1, FS_AddElement
    <2>2. Cardinality(Below(i) \cup {i}) <= Cardinality(s)
      BY <1>1, <1>2, FS_Subset
    <2>. QED
      BY <1>1, <2>1, <2>2 DEF Rank
  <1>3. \A i \in I : Rank(I, i) \in 0..(Cardinality(I) - 1)
    <2>1. ASSUME NEW i \in I PROVE Rank(I, i) < Cardinality(I) /\ Rank(I, i) \in Nat
      BY <1>1, <1>2 DEF Rank
    <2>. QED
      BY <1>1, <2>1
  <1>4. ASSUME NEW i \in I, NEW j \in I, i < j PROVE Rank(I, i) < Rank(I, j)
    <2>1. Below(i) \cup {i} \subseteq Below(j)
      <3>1. \A x \in Int : x < i => x < j
        BY <1>4
      <3>. QED
        BY <1>4, <3>1
    <2>2. Below(j) \in SUBSET I
      OBVIOUS
    <2>. HIDE DEF Below
    <2>3. Rank(I, i) < Cardinality(Below(j))
      BY <1>2, <2>1, <2>2
    <2>. QED
      BY <2>3 DEF Rank, Below
  <1>. QED
    BY <1>1, <1>3, <1>4

\* Every rank is taken: as many ranks as elements, and no two share one.
LEMMA RankTaken ==
    ASSUME NEW I \in SUBSET Int, IsFiniteSet(I), NEW k \in 1..Cardinality(I)
    PROVE  \E i \in I : Rank(I, i) = k - 1
  <1>. DEFINE n == Cardinality(I)
              f == [i \in I |-> Rank(I, i)]
  <1>1. n \in Nat
    BY Ranks
  <1>2. f \in Injection(I, 0..(n - 1))
    <2>1. f \in [I -> 0..(n - 1)]
      BY Ranks
    <2>2. ASSUME NEW i \in I, NEW j \in I, f[i] = f[j] PROVE i = j
      <3>1. ~ (i < j) /\ ~ (j < i)
        BY <2>2, Ranks
      <3>. QED
        BY <3>1
    <2>. QED
      BY <2>1, <2>2, Fun_IsInj
  <1>3. IsFiniteSet(0..(n - 1)) /\ Cardinality(0..(n - 1)) = n
    <2>. HIDE DEF n
    <2>1. 0 \in Int /\ n - 1 \in Int
      BY <1>1
    <2>2. /\ IsFiniteSet(0..(n - 1))
          /\ Cardinality(0..(n - 1)) = IF 0 > n - 1 THEN 0 ELSE (n - 1) - 0 + 1
      BY Zenon, <2>1, FS_Interval
    <2>. QED
      BY <1>1, <2>2
  <1>4. f \in Surjection(I, 0..(n - 1))
    <2>. HIDE DEF f, n
    <2>1. Cardinality(I) = Cardinality(0..(n - 1))
      BY <1>3 DEF n
    <2>. QED
      BY <1>2, <1>3, <2>1, FS_Injection
  <1>5. k - 1 \in 0..(n - 1)
    BY <1>1
  <1>. QED
    BY <1>4, <1>5 DEF Surjection

LEMMA OrderedParts ==
    ASSUME NEW I \in SUBSET Int, IsFiniteSet(I)
    PROVE  /\ Ordered(I) \in Seq(I)
           /\ Len(Ordered(I)) = Cardinality(I) /\ Cardinality(I) \in Nat
           /\ \A k, l \in 1..Cardinality(I) : k < l => Ordered(I)[k] < Ordered(I)[l]
           /\ \A i \in I : \E k \in 1..Cardinality(I) : Ordered(I)[k] = i
  <1>. DEFINE at == Ordered(I)
              n == Cardinality(I)
  <1>1. n \in Nat
    BY Ranks
  <1>2. \A k \in 1..n : at[k] \in I /\ Rank(I, at[k]) = k - 1
    <2>1. ASSUME NEW k \in 1..n PROVE at[k] \in I /\ Rank(I, at[k]) = k - 1
      <3>1. \E i \in I : Rank(I, i) = k - 1
        BY RankTaken
      <3>2. at[k] = CHOOSE i \in I : Rank(I, i) = k - 1
        BY DEF Ordered, Rank
      <3>. QED
        BY <3>1, <3>2
    <2>. QED
      BY <2>1
  <1>3. at \in Seq(I) /\ Len(at) = n
    <2>1. at = [k \in 1..n |-> CHOOSE i \in I : Rank(I, i) = k - 1]
      BY DEF Ordered, Rank
    <2>. HIDE DEF at, n
    <2>. QED
      BY <1>1, <1>2, <2>1
  <1>. HIDE DEF at, n
  <1>4. ASSUME NEW k \in 1..n, NEW l \in 1..n, k < l PROVE at[k] < at[l]
    <2>1. ~ (at[l] < at[k])
      <3>1. at[l] < at[k] => Rank(I, at[l]) < Rank(I, at[k])
        BY <1>2, Ranks
      <3>. QED
        BY <1>1, <1>2, <1>4, <3>1
    <2>2. at[k] # at[l]
      BY <1>1, <1>2, <1>4
    <2>3. at[k] \in Int /\ at[l] \in Int
      BY <1>2
    <2>. QED
      BY <2>1, <2>2, <2>3
  <1>5. ASSUME NEW i \in I PROVE \E k \in 1..n : at[k] = i
    <2>1. Rank(I, i) \in 0..(n - 1)
      BY Ranks DEF n
    <2>2. Rank(I, i) + 1 \in 1..n
      BY <1>1, <2>1
    <2>. DEFINE k == Rank(I, i) + 1
    <2>3. at[k] \in I /\ Rank(I, at[k]) = Rank(I, i)
      BY <1>2, <2>1, <2>2
    <2>4. ~ (at[k] < i) /\ ~ (i < at[k])
      <3>1. at[k] < i => Rank(I, at[k]) < Rank(I, i)
        BY <2>3, Ranks
      <3>2. i < at[k] => Rank(I, i) < Rank(I, at[k])
        BY <2>3, Ranks
      <3>. QED
        BY <2>1, <2>3, <3>1, <3>2
    <2>5. at[k] = i
      <3>1. at[k] \in Int /\ i \in Int
        BY <2>3
      <3>. HIDE DEF k
      <3>. QED
        BY <2>4, <3>1
    <2>. QED
      BY <2>2, <2>5
  <1>. QED
    BY <1>1, <1>3, <1>4, <1>5 DEF at, n

\* Elements whose places are in lo..hi are no more than these.
LEMMA PlacesCount ==
  ASSUME NEW I \in SUBSET Int, IsFiniteSet(I), NEW T \in SUBSET I, NEW lo \in Nat, NEW hi \in Nat,
         lo <= hi + 1,
         \A j \in 1..Cardinality(I) : Ordered(I)[j] \in T => j \in lo..hi
  PROVE  Cardinality(T) <= hi - lo + 1
  <1>. DEFINE J == {j \in 1..Cardinality(I) : Ordered(I)[j] \in T}
              f == [j \in J |-> Ordered(I)[j]]
  <1>1. IsFiniteSet(lo..hi) /\ Cardinality(lo..hi) = hi - lo + 1
    BY FS_Interval
  <1>2. J \in SUBSET (lo..hi)
    OBVIOUS
  <1>3. IsFiniteSet(J) /\ Cardinality(J) <= hi - lo + 1 /\ Cardinality(J) \in Nat
    <2>. HIDE DEF J
    <2> QED
      BY <1>1, <1>2, FS_Subset, FS_CardinalityType
  <1>4. f \in Surjection(J, T)
    <2>1. \A x \in T : \E j \in 1..Cardinality(I) : Ordered(I)[j] = x
      BY OrderedParts
    <2>2. \A x \in T : \E j \in J : f[j] = x
      BY <2>1
    <2>3. f \in [J -> T]
      OBVIOUS
    <2>. HIDE DEF f, J
    <2> QED
      BY <2>2, <2>3, Fun_IsSurj
  <1>5. Cardinality(T) <= Cardinality(J) /\ IsFiniteSet(T)
    <2>. HIDE DEF f, J
    <2> QED
      BY <1>3, <1>4, FS_Surjection
  <1>6. Cardinality(T) \in Nat
    BY <1>5, FS_CardinalityType
  <1>. HIDE DEF J
  <1> QED
    BY <1>3, <1>5, <1>6

LEMMA KeptParts ==
    ASSUME NEW A, NEW s \in Seq(A), NEW I \in SUBSET DOMAIN s
    PROVE  /\ Kept(s, I) \in Seq({s[i] : i \in I})
           /\ Len(Kept(s, I)) = Cardinality(I)
           /\ \A k \in 1..Cardinality(I) : Kept(s, I)[k] = s[Ordered(I)[k]]
  <1>1. IsFiniteSet(I) /\ I \in SUBSET Int
    <2>1. IsFiniteSet(1..Len(s))
      BY FS_Interval
    <2>. QED
      BY <2>1, FS_Subset
  <1>2. /\ Ordered(I) \in Seq(I)
        /\ Len(Ordered(I)) = Cardinality(I) /\ Cardinality(I) \in Nat
    BY <1>1, OrderedParts
  <1>3. Kept(s, I) = [k \in 1..Cardinality(I) |-> s[Ordered(I)[k]]]
    BY <1>2 DEF Kept
  <1>4. \A k \in 1..Cardinality(I) : Ordered(I)[k] \in I
    BY <1>2
  <1>. QED
    BY <1>2, <1>3, <1>4

LEMMA KeptIn ==
  ASSUME NEW A, NEW ss \in Seq(A), NEW I \in SUBSET DOMAIN ss
  PROVE  Kept(ss, I) \in Seq(A)
  <1>1. Kept(ss, I) \in Seq({ss[i] : i \in I})
    BY KeptParts
  <1>2. {ss[i] : i \in I} \subseteq A
    OBVIOUS
  <1> QED
    BY <1>1, <1>2

\* What is kept is what stood at the chosen places.
LEMMA KeptRange ==
  ASSUME NEW A, NEW ss \in Seq(A), NEW I \in SUBSET DOMAIN ss
  PROVE  /\ Range(Kept(ss, I)) = {ss[i] : i \in I}
         /\ Kept(ss, I) \in Seq(A)
  <1>. DEFINE kept == Kept(ss, I)
  <1>1. IsFiniteSet(I) /\ I \in SUBSET Int
    <2>1. IsFiniteSet(1..Len(ss))
      BY FS_Interval
    <2> QED
      BY <2>1, FS_Subset
  <1>2. /\ Ordered(I) \in Seq(I) /\ Len(Ordered(I)) = Cardinality(I) /\ Cardinality(I) \in Nat
        /\ \A i \in I : \E k \in 1..Cardinality(I) : Ordered(I)[k] = i
    BY <1>1, OrderedParts
  <1>3. /\ Len(kept) = Cardinality(I) /\ kept \in Seq(A)
        /\ \A k \in 1..Cardinality(I) : kept[k] = ss[Ordered(I)[k]]
    BY KeptParts, KeptIn
  <1>4. DOMAIN kept = 1..Cardinality(I) /\ \A k \in 1..Cardinality(I) : Ordered(I)[k] \in I
    BY <1>2, <1>3
  <1>. HIDE DEF kept
  <1>5. Range(kept) = {ss[i] : i \in I}
    <2>1. ASSUME NEW k \in DOMAIN kept PROVE \E i \in I : kept[k] = ss[i]
      BY <1>3, <1>4
    <2>2. ASSUME NEW i \in I PROVE \E k \in DOMAIN kept : kept[k] = ss[i]
      <3>1. PICK k \in 1..Cardinality(I) : Ordered(I)[k] = i
        BY <1>2
      <3>2. k \in DOMAIN kept /\ kept[k] = ss[i]
        BY <1>3, <1>4, <3>1
      <3> QED
        BY <3>2
    <2> QED
      BY <2>1, <2>2 DEF Range
  <1> QED
    BY <1>3, <1>5 DEF kept

\* What stands in a sequence over A is in A.
LEMMA ItemsIn ==
  ASSUME NEW A, NEW s \in Seq(A)
  PROVE  \A k \in DOMAIN s : s[k] \in A
  OBVIOUS

LEMMA SameLength ==
  ASSUME NEW A, NEW B, NEW ss \in Seq(A), NEW f, f = [k \in DOMAIN ss |-> f[k]],
         \A k \in DOMAIN ss : f[k] \in B
  PROVE  f \in Seq(B)
  <1>1. Len(ss) \in Nat /\ DOMAIN ss = 1..Len(ss)
    OBVIOUS
  <1>2. f \in [1..Len(ss) -> B]
    BY <1>1
  <1> QED
    BY <1>1, <1>2

LEMMA PartIn ==
  ASSUME NEW C, NEW s \in Seq(C), NEW a \in Nat, NEW b \in Int, a >= 1, b <= Len(s)
  PROVE  SubSeq(s, a, b) \in Seq(C)
  <1>1. \A i \in 1..(b - a + 1) : i + a - 1 \in 1..Len(s)
    OBVIOUS
  <1> QED
    BY <1>1

LEMMA FunctionIsSequence ==
  ASSUME NEW A, NEW n \in Nat, NEW f \in [1..n -> A]
  PROVE  f \in Seq(A) /\ Len(f) = n
  OBVIOUS

\* The last element replaced
LEMMA NewLast ==
  ASSUME NEW A, NEW s \in Seq(A), s # <<>>, NEW h \in A
  PROVE  LET new == Append(Front(s), h)
         IN  /\ new \in Seq(A) /\ DOMAIN new = 1..Len(s) /\ Len(new) = Len(s)
             /\ new[Len(s)] = h /\ \A x \in 1..Len(s) : x # Len(s) => new[x] = s[x]
  <1>. DEFINE front == Front(s)
              new == Append(front, h)
  <1>1. Len(s) \in Nat /\ Len(s) >= 1 /\ \A x \in 1..Len(s) : s[x] \in A
    OBVIOUS
  <1>2. front = [x \in 1..(Len(s) - 1) |-> s[x]]
    BY <1>1 DEF Front
  <1>3. front \in Seq(A) /\ Len(front) = Len(s) - 1
    <2>. HIDE DEF front
    <2>1. front \in [1..(Len(s) - 1) -> A] /\ Len(s) - 1 \in Nat
      BY <1>1, <1>2
    <2> QED
      BY <2>1
  <1>. HIDE DEF front
  <1>4. /\ new \in Seq(A) /\ Len(new) = Len(s) /\ DOMAIN new = 1..Len(s) /\ new[Len(s)] = h
        /\ \A x \in 1..(Len(s) - 1) : new[x] = front[x]
    BY <1>1, <1>3
  <1>. HIDE DEF new
  <1>5. \A x \in 1..Len(s) : x # Len(s) => new[x] = s[x]
    <2>1. ASSUME NEW x \in 1..Len(s), x # Len(s) PROVE new[x] = s[x]
      <3>1. x \in 1..(Len(s) - 1)
        BY <1>1, <2>1
      <3>2. front[x] = s[x]
        BY <1>2, <3>1
      <3> QED
        BY <1>4, <3>1, <3>2
    <2> QED
      BY <2>1
  <1> QED
    BY <1>4, <1>5 DEF new, front

\* Turned round, a sequence has the same items, its first one last.
LEMMA ReverseParts ==
  ASSUME NEW A, NEW s \in Seq(A)
  PROVE  /\ Reverse(s) \in Seq(A) /\ Range(Reverse(s)) = Range(s)
         /\ s # <<>> => /\ Reverse(s)[1] = Last(s) /\ Last(Reverse(s)) = s[1]
                        /\ Reverse(s) # <<>>
  <1>. DEFINE r == Reverse(s)
  <1>1. Len(s) \in Nat /\ DOMAIN s = 1..Len(s) /\ \A x \in 1..Len(s) : s[x] \in A
    OBVIOUS
  <1>2. r = [i \in 1..Len(s) |-> s[(Len(s) - i) + 1]]
    BY DEF Reverse
  <1>3. \A i \in 1..Len(s) : (Len(s) - i) + 1 \in 1..Len(s)
    BY <1>1
  <1>4. DOMAIN r = 1..Len(s) /\ r \in [1..Len(s) -> A]
    BY <1>1, <1>2, <1>3
  <1>5. r \in Seq(A) /\ Len(r) = Len(s)
    BY <1>1, <1>4, FunctionIsSequence
  <1>. HIDE DEF r
  <1>6. Range(r) = Range(s)
    <2>1. ASSUME NEW i \in 1..Len(s) PROVE r[i] \in Range(s)
      BY <1>1, <1>2, <1>3 DEF Range
    <2>2. ASSUME NEW i \in 1..Len(s) PROVE s[i] \in Range(r)
      <3>1. (Len(s) - i) + 1 \in 1..Len(s) /\ (Len(s) - ((Len(s) - i) + 1)) + 1 = i
        BY <1>1
      <3>2. r[(Len(s) - i) + 1] = s[i]
        BY <1>2, <3>1
      <3> QED
        BY <1>4, <3>1, <3>2 DEF Range
    <2> QED
      BY <1>1, <1>4, <2>1, <2>2 DEF Range
  <1>7. ASSUME s # <<>> PROVE r[1] = Last(s) /\ Last(r) = s[1] /\ r # <<>>
    <2>1. Len(s) >= 1
      BY <1>7
    <2>2. 1 \in 1..Len(s) /\ Len(s) \in 1..Len(s) /\ (Len(s) - 1) + 1 = Len(s) /\ (Len(s) - Len(s)) + 1 = 1
      BY <1>1, <2>1
    <2>3. r[1] = s[Len(s)] /\ r[Len(s)] = s[1]
      BY <1>2, <2>2
    <2>4. Len(r) >= 1 /\ Len(<<>>) = 0
      BY <1>5, <2>1
    <2> QED
      BY <1>5, <2>3, <2>4 DEF Last
  <1> QED
    BY <1>5, <1>6, <1>7 DEF r

\* What is flattened holds what its parts hold.
Flat(it, ss, i) == IF i = 1 THEN ss[i] ELSE it[i - 1] \o ss[i]

HasFlat(A, ss, n) == \E it \in [1..n -> Seq(A)] : \A i \in 1..n : it[i] = Flat(it, ss, i)

LEMMA PartialFlatExists ==
    ASSUME NEW A, NEW ss \in Seq(Seq(A)), NEW n \in Nat
    PROVE  n <= Len(ss) => HasFlat(A, ss, n)
  <1>. DEFINE Good(it, m) == \A i \in 1..m : it[i] = Flat(it, ss, i)
              T == {m \in Nat : m <= Len(ss) => \E it \in [1..m -> Seq(A)] : Good(it, m)}
  <1>1. 0 \in T
    <2>. DEFINE it == [i \in 1..0 |-> <<>>]
    <2>1. it \in [1..0 -> Seq(A)] /\ Good(it, 0)
      OBVIOUS
    <2>. HIDE DEF it
    <2>. QED
      BY <2>1
  <1>2. ASSUME NEW m \in T PROVE m + 1 \in T
    <2>1. SUFFICES ASSUME m + 1 <= Len(ss)
                   PROVE  \E it \in [1..(m + 1) -> Seq(A)] : Good(it, m + 1)
      <3>. HIDE DEF Good
      <3>. QED
        OBVIOUS
    <2>2. PICK old \in [1..m -> Seq(A)] : Good(old, m)
      <3>. HIDE DEF Good
      <3>. QED
        BY <2>1
    <2>. DEFINE new == [i \in 1..(m + 1) |-> Flat(old, ss, i)]
    <2>3. \A i \in 1..m : new[i] = old[i]
      <3>1. \A i \in 1..m : i \in 1..(m + 1)
        OBVIOUS
      <3>. QED
        BY <2>2, <3>1
    <2>4. \A i \in 1..(m + 1) : i # 1 => i - 1 \in 1..m
      OBVIOUS
    <2>5. Good(new, m + 1)
      <3>2. \A i \in 1..(m + 1) : new[i] = Flat(old, ss, i)
        OBVIOUS
      <3>. HIDE DEF new
      <3>1. ASSUME NEW i \in 1..(m + 1) PROVE Flat(new, ss, i) = Flat(old, ss, i)
        BY <2>3, <2>4 DEF Flat
      <3>. QED
        BY <3>1, <3>2
    <2>6. new \in [1..(m + 1) -> Seq(A)]
      <3>1. ASSUME NEW i \in 1..(m + 1) PROVE Flat(old, ss, i) \in Seq(A)
        <4>1. ss[i] \in Seq(A)
          BY <2>1
        <4>2. i # 1 => old[i - 1] \in Seq(A)
          BY <2>4
        <4>. QED
          BY <4>1, <4>2 DEF Flat
      <3>. QED
        BY <3>1
    <2>. HIDE DEF new, Good
    <2>. QED
      BY <2>5, <2>6
  <1>3. T = Nat
    <2>. HIDE DEF T
    <2>1. T \in SUBSET Nat
      BY DEF T
    <2>. QED
      BY <1>1, <1>2, <2>1, SetInduction
  <1>. HIDE DEF Good
  <1>4. n \in T
    BY <1>3
  <1>5. n <= Len(ss) => \E it \in [1..n -> Seq(A)] : Good(it, n)
    BY <1>4
  <1>. QED
    BY <1>5 DEF Good, HasFlat

LEMMA JoinedItems ==
    ASSUME NEW A, NEW s \in Seq(A), NEW t \in Seq(A)
    PROVE  s \o t \in Seq(A) /\ Range(s \o t) = Range(s) \cup Range(t)
  <1>. DEFINE st == s \o t
  <1>1. /\ Len(s) \in Nat /\ Len(t) \in Nat /\ DOMAIN s = 1..Len(s) /\ DOMAIN t = 1..Len(t)
        /\ st \in Seq(A) /\ DOMAIN st = 1..(Len(s) + Len(t))
        /\ \A x \in 1..(Len(s) + Len(t)) : st[x] = IF x <= Len(s) THEN s[x] ELSE t[x - Len(s)]
    OBVIOUS
  <1>. HIDE DEF st
  <1>2. ASSUME NEW x \in DOMAIN st PROVE st[x] \in Range(s) \cup Range(t)
    <2>1. CASE x <= Len(s)
      BY <1>1, <2>1 DEF Range
    <2>2. CASE ~ (x <= Len(s))
      <3>1. x - Len(s) \in 1..Len(t) /\ st[x] = t[x - Len(s)]
        BY <1>1, <2>2
      <3> QED
        BY <1>1, <3>1 DEF Range
    <2> QED
      BY <2>1, <2>2
  <1>3. ASSUME NEW x \in DOMAIN s PROVE s[x] \in Range(st)
    <2>1. x \in DOMAIN st /\ st[x] = s[x]
      BY <1>1
    <2> QED
      BY <2>1 DEF Range
  <1>4. ASSUME NEW x \in DOMAIN t PROVE t[x] \in Range(st)
    <2>1. x + Len(s) \in DOMAIN st /\ st[x + Len(s)] = t[x]
      BY <1>1
    <2> QED
      BY <2>1 DEF Range
  <1>5. Range(st) = Range(s) \cup Range(t)
    BY <1>2, <1>3, <1>4 DEF Range
  <1>. QED
    BY <1>1, <1>5 DEF st

LEMMA FlattenParts ==
    ASSUME NEW A, NEW ss \in Seq(Seq(A))
    PROVE  /\ FlattenSeq(ss) \in Seq(A)
           /\ \A i \in DOMAIN ss : Range(ss[i]) \subseteq Range(FlattenSeq(ss))
  <1>. DEFINE n == Len(ss)
              IsFlat(it) == it = [i \in 1..n |-> IF i = 1 THEN ss[i] ELSE it[i - 1] \o ss[i]]
              flat == CHOOSE it : IsFlat(it)
  <1>1. n \in Nat /\ DOMAIN ss = 1..n /\ \A i \in 1..n : ss[i] \in Seq(A)
    OBVIOUS
  <1>2. PICK some \in [1..n -> Seq(A)] : \A i \in 1..n : some[i] = Flat(some, ss, i)
    <2>1. HasFlat(A, ss, n)
      BY <1>1, PartialFlatExists
    <2>. QED
      BY <2>1 DEF HasFlat
  <1>3. IsFlat(some)
    BY <1>2 DEF Flat
  <1>4. IsFlat(flat)
    BY <1>3
  <1>. HIDE DEF flat
  <1>5. \A i \in 1..n : flat[i] = IF i = 1 THEN ss[i] ELSE flat[i - 1] \o ss[i]
    BY <1>4
  <1>. DEFINE Joins(m) == flat[m] \in Seq(A) /\ \A i \in 1..m : Range(ss[i]) \subseteq Range(flat[m])
              U == {m \in Nat : m \in 1..n => Joins(m)}
  <1>6. U = Nat
    <2>1. 0 \in U
      OBVIOUS
    <2>2. ASSUME NEW m \in U PROVE m + 1 \in U
      <3>1. SUFFICES ASSUME m + 1 \in 1..n PROVE Joins(m + 1)
        OBVIOUS
      <3>2. ss[m + 1] \in Seq(A)
        BY <1>1, <3>1
      <3>3. CASE m = 0
        <4>1. flat[m + 1] = ss[m + 1] /\ 1..(m + 1) = {m + 1}
          <5>1. m + 1 = 1 /\ 1 \in 1..n
            BY <3>1, <3>3
          <5>2. flat[1] = ss[1]
            BY <1>5, <5>1
          <5>3. 1..1 = {1}
            OBVIOUS
          <5>. QED
            BY <5>1, <5>2, <5>3
        <4>. QED
          BY <3>2, <4>1
      <3>4. CASE m # 0
        <4>1. m \in 1..n /\ (m + 1) - 1 = m /\ m + 1 # 1 /\ 1..(m + 1) = (1..m) \cup {m + 1}
          BY <1>1, <3>1, <3>4
        <4>2. flat[m + 1] = flat[m] \o ss[m + 1]
          BY <1>5, <3>1, <4>1
        <4>3. flat[m] \in Seq(A) /\ \A i \in 1..m : Range(ss[i]) \subseteq Range(flat[m])
          BY <4>1
        <4>4. flat[m + 1] \in Seq(A) /\ Range(flat[m + 1]) = Range(flat[m]) \cup Range(ss[m + 1])
          BY <3>2, <4>2, <4>3, JoinedItems
        <4>5. \A i \in 1..(m + 1) : Range(ss[i]) \subseteq Range(flat[m + 1])
          BY <4>1, <4>3, <4>4
        <4>. QED
          BY <4>4, <4>5
      <3>. QED
        BY <3>3, <3>4
    <2>. HIDE DEF U
    <2>3. U \in SUBSET Nat
      BY DEF U
    <2>. QED
      BY <2>1, <2>2, <2>3, SetInduction
  <1>7. CASE n = 0
    BY <1>1, <1>7 DEF FlattenSeq
  <1>8. CASE n # 0
    <2>1. FlattenSeq(ss) = flat[n]
      BY Zenon, <1>8 DEF FlattenSeq, flat
    <2>2. n \in U /\ n \in 1..n
      <3>1. n \in Nat /\ n \in 1..n
        BY <1>1, <1>8
      <3>. HIDE DEF U, n
      <3>. QED
        BY <1>6, <3>1
    <2>3. Joins(n)
      BY <2>2
    <2>. QED
      BY <1>1, <2>1, <2>3
  <1>. QED
    BY <1>7, <1>8

-----------------------------------------------------------------------------
(* Items chosen from a sequence, and from a list of sequences              *)

\* What holds of the empty sequence, and of a longer one if of its front, holds
\* of every sequence.
LEMMA SequenceInduction ==
  ASSUME NEW A, NEW G, <<>> \in G, \A s \in Seq(A), x \in A : s \in G => Append(s, x) \in G
  PROVE  \A s \in Seq(A) : s \in G
  <1>. DEFINE T == {n \in Nat : \A s \in Seq(A) : Len(s) = n => s \in G}
  <1>1. 0 \in T
    BY DEF T
  <1>2. ASSUME NEW n \in T PROVE n + 1 \in T
    <2>1. n \in Nat /\ \A s \in Seq(A) : Len(s) = n => s \in G
      OBVIOUS
    <2>2. ASSUME NEW s \in Seq(A), Len(s) = n + 1 PROVE s \in G
      <3>. DEFINE front == SubSeq(s, 1, n)
      <3>1. front \in Seq(A) /\ Len(front) = n /\ s[n + 1] \in A
        BY <2>1, <2>2
      <3>2. s = Append(front, s[n + 1])
        BY <2>1, <2>2
      <3>. HIDE DEF front
      <3>3. front \in G
        BY <2>1, <3>1
      <3> QED
        BY <3>1, <3>2, <3>3
    <2> QED
      BY <2>1, <2>2
  <1>3. T = Nat
    <2>. HIDE DEF T
    <2>1. T \in SUBSET Nat
      BY DEF T
    <2> QED
      BY <1>1, <1>2, <2>1, SetInduction
  <1> QED
    <2>1. ASSUME NEW s \in Seq(A) PROVE s \in G
      <3>1. Len(s) \in T
        BY <1>3
      <3> QED
        BY <3>1
    <2> QED
      BY <2>1

\* The first k items and the next one
LEMMA NextPrefix ==
  ASSUME NEW A, NEW s \in Seq(A), NEW k \in 1..Len(s)
  PROVE  /\ SubSeq(s, 1, k - 1) \in Seq(A) /\ Len(SubSeq(s, 1, k - 1)) = k - 1
         /\ s[k] \in A /\ SubSeq(s, 1, k) = Append(SubSeq(s, 1, k - 1), s[k])
  OBVIOUS

\* The first part of none and of all of its items
LEMMA WholePrefix ==
  ASSUME NEW A, NEW s \in Seq(A)
  PROVE  SubSeq(s, 1, 0) = <<>> /\ SubSeq(s, 1, Len(s)) = s
  OBVIOUS

\* A sequence over part of a set is one over the set.
LEMMA SequenceOver ==
  ASSUME NEW A, NEW B, \A x \in A : x \in B, NEW s \in Seq(A)
  PROVE  s \in Seq(B)
  OBVIOUS

\* Two sequences of the same items are the same.
LEMMA SameItems ==
  ASSUME NEW A, NEW s \in Seq(A), NEW t \in Seq(A), Len(s) = Len(t),
         \A k \in 1..Len(s) : s[k] = t[k]
  PROVE  s = t
  OBVIOUS

\* The last place comes last.
LEMMA OrderedAppend ==
  ASSUME NEW n \in Nat, NEW I \in SUBSET (1..n)
  PROVE  Ordered(I \cup {n + 1}) = Append(Ordered(I), n + 1)
  <1>. DEFINE J == I \cup {n + 1}
              c == Cardinality(I)
  <1>1. /\ I \in SUBSET Int /\ IsFiniteSet(I) /\ J \in SUBSET Int /\ IsFiniteSet(J)
        /\ c \in Nat /\ Cardinality(J) = c + 1 /\ n + 1 \notin I
    <2>1. IsFiniteSet(1..n)
      BY FS_Interval
    <2>2. IsFiniteSet(I)
      BY <2>1, FS_Subset
    <2>3. n + 1 \notin I /\ I \in SUBSET Int
      OBVIOUS
    <2> QED
      BY <2>2, <2>3, FS_AddElement, FS_CardinalityType
  <1>2. \A i \in I : Rank(J, i) = Rank(I, i)
    <2>1. ASSUME NEW i \in I PROVE {j \in J : j < i} = {j \in I : j < i}
      <3>1. ~ (n + 1 < i)
        OBVIOUS
      <3> QED
        BY <3>1
    <2>. HIDE DEF J
    <2> QED
      BY <2>1 DEF Rank
  <1>3. Rank(J, n + 1) = c
    <2>1. {j \in J : j < n + 1} = I
      <3>1. ~ (n + 1 < n + 1) /\ \A i \in I : i < n + 1
        OBVIOUS
      <3> QED
        BY <3>1
    <2>. HIDE DEF J
    <2> QED
      BY <2>1 DEF Rank
  <1>. HIDE DEF J, c
  <1>4. ASSUME NEW K \in SUBSET Int, IsFiniteSet(K)
        PROVE  /\ \A k \in 1..Cardinality(K) : Ordered(K)[k] \in K /\ Rank(K, Ordered(K)[k]) = k - 1
               /\ Ordered(K) \in Seq(K) /\ Len(Ordered(K)) = Cardinality(K)
    <2>1. ASSUME NEW k \in 1..Cardinality(K)
          PROVE  Ordered(K)[k] \in K /\ Rank(K, Ordered(K)[k]) = k - 1
      <3>1. \E i \in K : Rank(K, i) = k - 1
        BY <1>4, RankTaken
      <3>2. Ordered(K)[k] = CHOOSE i \in K : Rank(K, i) = k - 1
        BY DEF Ordered, Rank
      <3> QED
        BY <3>1, <3>2
    <2> QED
      BY <1>4, <2>1, OrderedParts
  <1>5. \A i, j \in J : Rank(J, i) = Rank(J, j) => i = j
    <2>1. ASSUME NEW i \in J, NEW j \in J, Rank(J, i) = Rank(J, j) PROVE i = j
      <3>1. ~ (i < j) /\ ~ (j < i) /\ i \in Int /\ j \in Int
        BY <1>1, <2>1, Ranks
      <3> QED
        BY <3>1
    <2> QED
      BY <2>1
  <1>6. ASSUME NEW k \in 1..c PROVE Ordered(J)[k] = Ordered(I)[k]
    <2>1. Ordered(I)[k] \in I /\ Rank(I, Ordered(I)[k]) = k - 1
      BY <1>1, <1>4 DEF c
    <2>2. k \in 1..Cardinality(J)
      BY <1>1
    <2>3. Ordered(J)[k] \in J /\ Rank(J, Ordered(J)[k]) = k - 1
      BY <1>1, <1>4, <2>2
    <2>4. Ordered(I)[k] \in J /\ Rank(J, Ordered(I)[k]) = k - 1
      BY <1>2, <2>1 DEF J
    <2> QED
      BY <1>5, <2>3, <2>4
  <1>7. Ordered(J)[c + 1] = n + 1
    <2>1. c + 1 \in 1..Cardinality(J) /\ (c + 1) - 1 = c
      BY <1>1
    <2>2. Ordered(J)[c + 1] \in J /\ Rank(J, Ordered(J)[c + 1]) = c
      BY <1>1, <1>4, <2>1
    <2>3. n + 1 \in J
      BY DEF J
    <2> QED
      BY <1>3, <1>5, <2>2, <2>3
  <1>8. Ordered(J) \in Seq(Int) /\ Len(Ordered(J)) = c + 1 /\ Ordered(I) \in Seq(Int) /\ Len(Ordered(I)) = c
    <2>1. Ordered(J) \in Seq(J) /\ Len(Ordered(J)) = Cardinality(J)
      BY <1>1, <1>4
    <2>2. Ordered(I) \in Seq(I) /\ Len(Ordered(I)) = Cardinality(I)
      BY <1>1, <1>4
    <2>. DEFINE a == Ordered(J)
                b == Ordered(I)
    <2>3. a \in Seq(J) /\ b \in Seq(I) /\ Len(a) = c + 1 /\ Len(b) = c
      BY <1>1, <2>1, <2>2 DEF c
    <2>. HIDE DEF a, b
    <2>4. \A i \in J : i \in Int
      BY <1>1
    <2>5. \A i \in I : i \in Int
      BY <1>1
    <2>6. a \in Seq(Int)
      BY Zenon, <2>3, <2>4, SequenceOver
    <2>7. b \in Seq(Int)
      BY Zenon, <2>3, <2>5, SequenceOver
    <2> QED
      BY <2>3, <2>6, <2>7 DEF a, b
  <1> QED
    <2>. DEFINE a == Ordered(J)
                b == Ordered(I)
    <2>1. a \in Seq(Int) /\ Len(a) = c + 1 /\ b \in Seq(Int) /\ Len(b) = c /\ a[c + 1] = n + 1
          /\ \A k \in 1..c : a[k] = b[k]
      BY <1>6, <1>7, <1>8
    <2>. HIDE DEF a, b
    <2>2. a = Append(b, n + 1)
      BY <1>1, <2>1
    <2> QED
      BY <2>2 DEF a, b, J

\* The items that are in K, in order
Chosen(s, K) == Kept(s, {i \in DOMAIN s : s[i] \in K})

\* Whether the last item is kept or not
LEMMA KeptAppend ==
  ASSUME NEW A, NEW s \in Seq(A), NEW x \in A, NEW I \in SUBSET (1..Len(s))
  PROVE  /\ Kept(Append(s, x), I) = Kept(s, I)
         /\ Kept(Append(s, x), I \cup {Len(s) + 1}) = Append(Kept(s, I), x)
  <1>. DEFINE n == Len(s)
              long == Append(s, x)
              at == Ordered(I)
  <1>1. n \in Nat /\ long \in Seq(A) /\ long[n + 1] = x /\ \A i \in 1..n : long[i] = s[i]
    OBVIOUS
  <1>2. I \in SUBSET Int /\ IsFiniteSet(I)
    <2>1. IsFiniteSet(1..n)
      BY FS_Interval
    <2>2. IsFiniteSet(I)
      BY <2>1, FS_Subset
    <2> QED
      BY <2>2
  <1>3. at \in Seq(I) /\ Len(at) \in Nat /\ DOMAIN at = 1..Len(at) /\ \A k \in 1..Len(at) : at[k] \in 1..n
    <2>1. at \in Seq(I)
      BY <1>2, OrderedParts
    <2>. HIDE DEF at
    <2>2. Len(at) \in Nat /\ DOMAIN at = 1..Len(at) /\ \A k \in 1..Len(at) : at[k] \in I
      BY <2>1
    <2> QED
      BY <2>1, <2>2
  <1>4. Ordered(I \cup {n + 1}) = Append(at, n + 1)
    BY <1>1, OrderedAppend
  <1>. HIDE DEF at, n
  <1>5. Kept(s, I) = [k \in 1..Len(at) |-> s[at[k]]] /\ Kept(long, I) = [k \in 1..Len(at) |-> long[at[k]]]
    BY <1>3 DEF Kept, at
  <1>6. Kept(long, I) = Kept(s, I)
    BY <1>1, <1>3, <1>5
  <1>7. Kept(long, I \cup {n + 1}) = [k \in 1..(Len(at) + 1) |-> long[Append(at, n + 1)[k]]]
    <2>1. DOMAIN Append(at, n + 1) = 1..(Len(at) + 1)
      BY <1>3
    <2> QED
      BY <1>4, <2>1 DEF Kept
  <1>8. Kept(long, I \cup {n + 1}) = Append(Kept(s, I), x)
    <2>. DEFINE kept == Kept(s, I)
    <2>1. kept = [k \in 1..Len(at) |-> s[at[k]]]
      BY <1>5
    <2>2. kept \in Seq(A) /\ Len(kept) = Len(at)
      <3>1. \A k \in 1..Len(at) : s[at[k]] \in A
        BY <1>3 DEF n
      <3> QED
        BY <1>3, <2>1, <3>1
    <2>3. /\ Append(at, n + 1)[Len(at) + 1] = n + 1
          /\ \A k \in 1..Len(at) : Append(at, n + 1)[k] = at[k]
      BY <1>3
    <2>. DEFINE a == Kept(long, I \cup {n + 1})
                b == Append(kept, x)
    <2>. HIDE DEF kept, long
    <2>4. /\ b \in Seq(A) /\ Len(b) = Len(at) + 1 /\ b[Len(at) + 1] = x
          /\ \A k \in 1..Len(at) : b[k] = kept[k]
      BY <1>3, <2>2
    <2>. HIDE DEF b
    <2>5. ASSUME NEW k \in 1..(Len(at) + 1) PROVE long[Append(at, n + 1)[k]] = b[k]
      <3>1. CASE k = Len(at) + 1
        BY <1>1, <2>3, <2>4, <3>1
      <3>2. CASE k # Len(at) + 1
        <4>1. k \in 1..Len(at)
          BY <1>3, <3>2
        <4> QED
          BY <1>1, <1>3, <2>1, <2>3, <2>4, <4>1 DEF long
      <3> QED
        BY <3>1, <3>2
    <2>6. a = [k \in 1..(Len(at) + 1) |-> b[k]]
      BY <1>7, <2>5
    <2>7. a = b
      <3>1. a \in Seq(A) /\ Len(a) = Len(at) + 1 /\ \A k \in 1..(Len(at) + 1) : a[k] = b[k]
        <4>. HIDE DEF a
        <4>1. \A k \in 1..(Len(at) + 1) : b[k] \in A
          BY <1>3, <2>4
        <4>2. a \in [1..(Len(at) + 1) -> A] /\ Len(at) + 1 \in Nat
          BY <1>3, <2>6, <4>1
        <4> QED
          BY <2>6, <4>2, FunctionIsSequence
      <3>. HIDE DEF a
      <3> QED
        BY <2>4, <3>1, SameItems
    <2> QED
      BY <2>7 DEF a, b, kept
  <1> QED
    BY <1>6, <1>8 DEF n

\* Whether the last item is chosen or not
LEMMA ChosenAppend ==
  ASSUME NEW A, NEW s \in Seq(A), NEW x \in A, NEW K
  PROVE  Chosen(Append(s, x), K) = IF x \in K THEN Append(Chosen(s, K), x) ELSE Chosen(s, K)
  <1>. DEFINE long == Append(s, x)
              I == {i \in DOMAIN s : s[i] \in K}
              J == {i \in DOMAIN long : long[i] \in K}
  <1>1. I \in SUBSET (1..Len(s))
    OBVIOUS
  <1>2. J = IF x \in K THEN I \cup {Len(s) + 1} ELSE I
    <2>1. /\ DOMAIN long = (1..Len(s)) \cup {Len(s) + 1} /\ DOMAIN s = 1..Len(s)
          /\ long[Len(s) + 1] = x /\ \A i \in 1..Len(s) : long[i] = s[i]
      OBVIOUS
    <2>. HIDE DEF long
    <2> QED
      BY <2>1
  <1>. HIDE DEF I, J
  <1>3. Chosen(long, K) = Kept(long, J) /\ Chosen(s, K) = Kept(s, I)
    BY DEF Chosen, I, J
  <1>4. Kept(long, I) = Kept(s, I) /\ Kept(long, I \cup {Len(s) + 1}) = Append(Kept(s, I), x)
    BY <1>1, KeptAppend
  <1>. HIDE DEF long
  <1>5. Chosen(long, K) = IF x \in K THEN Append(Chosen(s, K), x) ELSE Chosen(s, K)
    BY <1>2, <1>3, <1>4
  <1> QED
    BY <1>5 DEF long

\* Nothing can be chosen of nothing.
LEMMA ChosenEmpty ==
  ASSUME NEW K
  PROVE  Chosen(<<>>, K) = <<>>
  <1>1. {i \in DOMAIN <<>> : <<>>[i] \in K} = {}
    OBVIOUS
  <1>2. {} \in SUBSET DOMAIN <<>> /\ <<>> \in Seq({})
    OBVIOUS
  <1>3. Len(Kept(<<>>, {})) = Cardinality({}) /\ Kept(<<>>, {}) \in Seq({})
    BY <1>2, KeptParts, KeptIn
  <1>4. Cardinality({}) = 0
    BY FS_EmptySet
  <1> QED
    BY <1>1, <1>3, <1>4 DEF Chosen

\* What is chosen of a sequence over A is one.
LEMMA ChosenIn ==
  ASSUME NEW A, NEW s \in Seq(A), NEW K
  PROVE  Chosen(s, K) \in Seq(A)
  BY KeptIn DEF Chosen

\* The choice of a joined sequence is the choices joined.
LEMMA ChosenJoin ==
  ASSUME NEW A, NEW s \in Seq(A), NEW t \in Seq(A), NEW K
  PROVE  Chosen(s \o t, K) = Chosen(s, K) \o Chosen(t, K)
  <1>. DEFINE G == {u \in Seq(A) : Chosen(s \o u, K) = Chosen(s, K) \o Chosen(u, K)}
  <1>1. <<>> \in G
    <2>1. Chosen(s, K) \in Seq(A)
      BY ChosenIn
    <2>2. s \o <<>> = s /\ Chosen(s, K) \o <<>> = Chosen(s, K) /\ <<>> \in Seq(A)
      BY <2>1
    <2>3. Chosen(<<>>, K) = <<>>
      BY ChosenEmpty
    <2> QED
      BY <2>2, <2>3
  <1>2. ASSUME NEW u \in Seq(A), NEW x \in A, u \in G PROVE Append(u, x) \in G
    <2>. DEFINE a == Chosen(s, K)
                b == Chosen(u, K)
    <2>1. s \o Append(u, x) = Append(s \o u, x) /\ s \o u \in Seq(A) /\ Append(u, x) \in Seq(A)
      OBVIOUS
    <2>2. a \in Seq(A) /\ b \in Seq(A) /\ Chosen(s \o u, K) = a \o b
      BY <1>2, ChosenIn
    <2>3. /\ Chosen(Append(s \o u, x), K) = IF x \in K THEN Append(Chosen(s \o u, K), x) ELSE Chosen(s \o u, K)
          /\ Chosen(Append(u, x), K) = IF x \in K THEN Append(b, x) ELSE b
      BY <2>1, ChosenAppend
    <2>. HIDE DEF a, b
    <2>4. a \o Append(b, x) = Append(a \o b, x)
      BY <2>2
    <2>5. Chosen(s \o Append(u, x), K) = a \o Chosen(Append(u, x), K)
      BY <2>1, <2>2, <2>3, <2>4
    <2> QED
      BY <2>1, <2>5 DEF a
  <1>. HIDE DEF G
  <1>3. t \in G
    BY <1>1, <1>2, SequenceInduction
  <1> QED
    BY <1>3 DEF G

\* The last of the joins that a flattened list is given by
LEMMA FlattenLast ==
  ASSUME NEW A, NEW ss \in Seq(Seq(A)), Len(ss) # 0, NEW it \in [1..Len(ss) -> Seq(A)],
         \A i \in 1..Len(ss) : it[i] = Flat(it, ss, i)
  PROVE  FlattenSeq(ss) = it[Len(ss)]
  <1>. DEFINE n == Len(ss)
              IsFlat(f) == f = [i \in 1..n |-> IF i = 1 THEN ss[i] ELSE f[i - 1] \o ss[i]]
              flat == CHOOSE f : IsFlat(f)
  <1>1. n \in Nat /\ n # 0
    OBVIOUS
  <1>2. IsFlat(it)
    BY DEF Flat
  <1>3. IsFlat(flat)
    BY <1>2
  <1>4. FlattenSeq(ss) = flat[n]
    BY Zenon, <1>1 DEF FlattenSeq, flat
  <1>. HIDE DEF flat
  <1>5. \A i \in 1..n : flat[i] = IF i = 1 THEN ss[i] ELSE flat[i - 1] \o ss[i]
    BY <1>3
  <1>6. \A i \in 1..n : it[i] = IF i = 1 THEN ss[i] ELSE it[i - 1] \o ss[i]
    BY DEF Flat
  <1>. DEFINE T == {k \in 0..n : k # 0 => flat[k] = it[k]}
  <1>. HIDE DEF n
  <1>7. 0 \in T
    BY <1>1
  <1>8. ASSUME NEW k \in 1..n, k - 1 \in T PROVE k \in T
    <2>1. k \in 0..n /\ (k # 1 => flat[k - 1] = it[k - 1])
      BY <1>1, <1>8
    <2>2. flat[k] = it[k]
      BY <1>5, <1>6, <2>1
    <2> QED
      BY <2>1, <2>2
  <1>. HIDE DEF T
  <1>9. n \in T
    BY <1>1, <1>7, <1>8, PrefixInduction
  <1> QED
    BY <1>1, <1>4, <1>9 DEF T, n

\* A list of no texts
LEMMA FlattenEmpty == FlattenSeq(<<>>) = <<>>
  <1>1. Len(<<>>) = 0
    OBVIOUS
  <1> QED
    BY <1>1 DEF FlattenSeq

\* One more text in a list
LEMMA FlattenAppend ==
  ASSUME NEW A, NEW ss \in Seq(Seq(A)), NEW s \in Seq(A)
  PROVE  FlattenSeq(Append(ss, s)) = FlattenSeq(ss) \o s
  <1>. DEFINE n == Len(ss)
              long == Append(ss, s)
  <1>1. /\ n \in Nat /\ long \in Seq(Seq(A)) /\ Len(long) = n + 1 /\ long[n + 1] = s
        /\ \A i \in 1..n : long[i] = ss[i]
    OBVIOUS
  <1>. HIDE DEF long
  <1>2. PICK it \in [1..(n + 1) -> Seq(A)] : \A i \in 1..(n + 1) : it[i] = Flat(it, long, i)
    <2>1. HasFlat(A, long, n + 1)
      <3>1. n + 1 \in Nat /\ n + 1 <= Len(long)
        BY <1>1
      <3> QED
        BY <1>1, <3>1, PartialFlatExists
    <2> QED
      BY <2>1 DEF HasFlat
  <1>3. FlattenSeq(long) = it[n + 1]
    <2>1. Len(long) # 0 /\ Len(long) = n + 1
      BY <1>1
    <2> QED
      BY <1>1, <1>2, <2>1, FlattenLast
  <1>4. n + 1 \in 1..(n + 1) /\ (n + 1) - 1 = n
    BY <1>1
  <1>5. CASE n = 0
    <2>1. it[n + 1] = s
      BY <1>1, <1>2, <1>4, <1>5 DEF Flat
    <2>2. ss = <<>> /\ <<>> \o s = s
      BY <1>5
    <2> QED
      BY <1>3, <2>1, <2>2, FlattenEmpty DEF long
  <1>6. CASE n # 0
    <2>. DEFINE old == [i \in 1..n |-> it[i]]
    <2>1. \A i \in 1..n : i \in 1..(n + 1) /\ (i # 1 => i - 1 \in 1..n)
      BY <1>1
    <2>2. old \in [1..n -> Seq(A)] /\ \A i \in 1..n : old[i] = it[i]
      BY <2>1
    <2>. HIDE DEF old
    <2>3. ASSUME NEW i \in 1..n PROVE old[i] = Flat(old, ss, i)
      <3>1. old[i] = Flat(it, long, i) /\ long[i] = ss[i]
        BY <1>1, <1>2, <2>1, <2>2
      <3>2. i # 1 => it[i - 1] = old[i - 1]
        BY <2>1, <2>2
      <3> QED
        BY <3>1, <3>2 DEF Flat
    <2>4. FlattenSeq(ss) = old[n]
      <3>1. Len(ss) # 0 /\ Len(ss) = n
        BY <1>6
      <3> QED
        BY <2>2, <2>3, <3>1, FlattenLast
    <2>5. n \in 1..n /\ n + 1 # 1
      BY <1>1, <1>6
    <2>6. it[n + 1] = it[n] \o s
      <3>1. it[n + 1] = Flat(it, long, n + 1)
        BY <1>2, <1>4
      <3>. HIDE DEF n
      <3> QED
        BY <1>1, <1>4, <2>5, <3>1 DEF Flat
    <2> QED
      BY <1>3, <2>2, <2>4, <2>5, <2>6 DEF long
  <1> QED
    BY <1>5, <1>6

\* A flattened list of sequences over A is one.
LEMMA FlattenIn ==
  ASSUME NEW A, NEW ss \in Seq(Seq(A))
  PROVE  FlattenSeq(ss) \in Seq(A)
  BY FlattenParts

\* Two lists joined
LEMMA FlattenJoin ==
  ASSUME NEW A, NEW ss \in Seq(Seq(A)), NEW tt \in Seq(Seq(A))
  PROVE  FlattenSeq(ss \o tt) = FlattenSeq(ss) \o FlattenSeq(tt)
  <1>. DEFINE G == {uu \in Seq(Seq(A)) : FlattenSeq(ss \o uu) = FlattenSeq(ss) \o FlattenSeq(uu)}
  <1>1. <<>> \in G
    <2>1. FlattenSeq(ss) \in Seq(A)
      BY FlattenIn
    <2>2. FlattenSeq(ss) \o <<>> = FlattenSeq(ss)
      BY <2>1
    <2>3. ss \o <<>> = ss /\ <<>> \in Seq(Seq(A))
      OBVIOUS
    <2> QED
      BY <2>2, <2>3, FlattenEmpty
  <1>2. ASSUME NEW uu \in Seq(Seq(A)), NEW u \in Seq(A), uu \in G PROVE Append(uu, u) \in G
    <2>. DEFINE a == FlattenSeq(ss)
                b == FlattenSeq(uu)
    <2>1. ss \o Append(uu, u) = Append(ss \o uu, u) /\ ss \o uu \in Seq(Seq(A)) /\ Append(uu, u) \in Seq(Seq(A))
      OBVIOUS
    <2>2. a \in Seq(A) /\ b \in Seq(A) /\ FlattenSeq(ss \o uu) = a \o b
      BY <1>2, FlattenIn
    <2>3. FlattenSeq(Append(ss \o uu, u)) = FlattenSeq(ss \o uu) \o u /\ FlattenSeq(Append(uu, u)) = b \o u
      BY <2>1, FlattenAppend
    <2>. HIDE DEF a, b
    <2>4. (a \o b) \o u = a \o (b \o u)
      BY SMTT(30), <2>2
    <2>5. FlattenSeq(ss \o Append(uu, u)) = a \o FlattenSeq(Append(uu, u))
      BY <2>1, <2>2, <2>3, <2>4
    <2> QED
      BY <2>1, <2>5 DEF a
  <1>. HIDE DEF G
  <1>3. tt \in G
    BY <1>1, <1>2, SequenceInduction
  <1> QED
    BY <1>3 DEF G

\* What a list of sequences says: of all its items, in order, those in K
Said(ss, K) == Chosen(FlattenSeq(ss), K)

\* A list of no texts says nothing.
LEMMA SaidEmpty ==
  ASSUME NEW K
  PROVE  Said(<<>>, K) = <<>>
  BY FlattenEmpty, ChosenEmpty DEF Said

\* What a list of texts over A says is over A.
LEMMA SaidIn ==
  ASSUME NEW A, NEW ss \in Seq(Seq(A)), NEW K
  PROVE  Said(ss, K) \in Seq(A)
  BY FlattenIn, ChosenIn DEF Said

\* One more text is said after the others.
LEMMA SaidAppend ==
  ASSUME NEW A, NEW ss \in Seq(Seq(A)), NEW s \in Seq(A), NEW K
  PROVE  Said(Append(ss, s), K) = Said(ss, K) \o Chosen(s, K)
  <1>1. FlattenSeq(ss) \in Seq(A)
    BY FlattenIn
  <1>2. FlattenSeq(Append(ss, s)) = FlattenSeq(ss) \o s
    BY FlattenAppend
  <1> QED
    BY <1>1, <1>2, ChosenJoin DEF Said

\* Two lists joined say what the first says, then what the second does.
LEMMA SaidJoin ==
  ASSUME NEW A, NEW ss \in Seq(Seq(A)), NEW tt \in Seq(Seq(A)), NEW K
  PROVE  Said(ss \o tt, K) = Said(ss, K) \o Said(tt, K)
  <1>1. FlattenSeq(ss) \in Seq(A) /\ FlattenSeq(tt) \in Seq(A)
    BY FlattenIn
  <1>2. FlattenSeq(ss \o tt) = FlattenSeq(ss) \o FlattenSeq(tt)
    BY FlattenJoin
  <1> QED
    BY <1>1, <1>2, ChosenJoin DEF Said

\* A list of one text
LEMMA SaidOne ==
  ASSUME NEW A, NEW s \in Seq(A), NEW K
  PROVE  Said(<<s>>, K) = Chosen(s, K)
  <1>1. <<s>> = Append(<<>>, s) /\ <<>> \in Seq(Seq(A))
    OBVIOUS
  <1>2. Said(<<s>>, K) = Said(<<>>, K) \o Chosen(s, K)
    BY Zenon, <1>1, SaidAppend
  <1>3. Chosen(s, K) \in Seq(A)
    BY ChosenIn
  <1>4. <<>> \o Chosen(s, K) = Chosen(s, K)
    BY <1>3
  <1> QED
    BY <1>2, <1>4, SaidEmpty

\* What the first k texts say, from what k - 1 do
LEMMA SaidNext ==
  ASSUME NEW A, NEW ss \in Seq(Seq(A)), NEW k \in 1..Len(ss), NEW K
  PROVE  Said(SubSeq(ss, 1, k), K) = Said(SubSeq(ss, 1, k - 1), K) \o Chosen(ss[k], K)
  <1>. DEFINE before == SubSeq(ss, 1, k - 1)
              after == SubSeq(ss, 1, k)
              s == ss[k]
  <1>1. before \in Seq(Seq(A)) /\ s \in Seq(A) /\ after = Append(before, s)
    BY NextPrefix
  <1>. HIDE DEF before, after, s
  <1>2. Said(Append(before, s), K) = Said(before, K) \o Chosen(s, K)
    BY <1>1, SaidAppend
  <1>3. Said(after, K) = Said(before, K) \o Chosen(s, K)
    BY <1>1, <1>2
  <1> QED
    BY <1>3 DEF before, after, s

\* What a list says, from what its first texts say
LEMMA SaidByPrefix ==
  ASSUME NEW A, NEW ss \in Seq(Seq(A)), NEW K, NEW says,
         says[0] = <<>>, \A k \in 1..Len(ss) : says[k] = says[k - 1] \o Chosen(ss[k], K)
  PROVE  Said(ss, K) = says[Len(ss)]
  <1>. DEFINE n == Len(ss)
              T == {k \in 0..n : Said(SubSeq(ss, 1, k), K) = says[k]}
  <1>1. n \in Nat
    OBVIOUS
  <1>2. 0 \in T
    <2>1. SubSeq(ss, 1, 0) = <<>> /\ 0 \in 0..n
      BY WholePrefix
    <2> QED
      BY <2>1, SaidEmpty
  <1>3. ASSUME NEW k \in 1..n, k - 1 \in T PROVE k \in T
    <2>2. Said(SubSeq(ss, 1, k), K) = Said(SubSeq(ss, 1, k - 1), K) \o Chosen(ss[k], K)
      BY SaidNext
    <2>3. k \in 0..n
      BY <1>1
    <2> QED
      BY <1>3, <2>2, <2>3
  <1>. HIDE DEF T
  <1>4. n \in T
    BY <1>1, <1>2, <1>3, PrefixInduction
  <1>5. SubSeq(ss, 1, n) = ss
    BY WholePrefix
  <1> QED
    BY <1>4, <1>5 DEF T

\* Lists that say the same, text by text, say the same.
LEMMA SaidSame ==
  ASSUME NEW A, NEW ss \in Seq(Seq(A)), NEW tt \in Seq(Seq(A)), Len(ss) = Len(tt), NEW K,
         \A k \in 1..Len(ss) : Chosen(ss[k], K) = Chosen(tt[k], K)
  PROVE  Said(ss, K) = Said(tt, K)
  <1>. DEFINE n == Len(ss)
              T == {k \in 0..n : Said(SubSeq(ss, 1, k), K) = Said(SubSeq(tt, 1, k), K)}
  <1>1. n \in Nat /\ n = Len(tt)
    OBVIOUS
  <1>2. 0 \in T
    <2>1. SubSeq(ss, 1, 0) = <<>> /\ SubSeq(tt, 1, 0) = <<>> /\ 0 \in 0..n
      BY WholePrefix
    <2> QED
      BY <2>1
  <1>3. ASSUME NEW k \in 1..n, k - 1 \in T PROVE k \in T
    <2>2. /\ Said(SubSeq(ss, 1, k), K) = Said(SubSeq(ss, 1, k - 1), K) \o Chosen(ss[k], K)
          /\ Said(SubSeq(tt, 1, k), K) = Said(SubSeq(tt, 1, k - 1), K) \o Chosen(tt[k], K)
      BY <1>1, SaidNext
    <2>3. k \in 0..n
      BY <1>1
    <2> QED
      BY <1>3, <2>2, <2>3
  <1>. HIDE DEF T
  <1>4. n \in T
    BY <1>1, <1>2, <1>3, PrefixInduction
  <1>5. SubSeq(ss, 1, n) = ss /\ SubSeq(tt, 1, n) = tt
    BY <1>1, WholePrefix
  <1> QED
    BY <1>4, <1>5 DEF T

\* The same of a list of lists
LEMMA SaidNested ==
  ASSUME NEW A, NEW parts \in Seq(Seq(Seq(A))), NEW ss \in Seq(Seq(A)), Len(parts) = Len(ss), NEW K,
         \A k \in 1..Len(ss) : Said(parts[k], K) = Chosen(ss[k], K)
  PROVE  Said(FlattenSeq(parts), K) = Said(ss, K)
  <1>. DEFINE n == Len(ss)
              T == {k \in 0..n : Said(FlattenSeq(SubSeq(parts, 1, k)), K) = Said(SubSeq(ss, 1, k), K)}
  <1>0. \A uu, vv \in Seq(Seq(A)) : Said(uu \o vv, K) = Said(uu, K) \o Said(vv, K)
    BY SaidJoin
  <1>1. n \in Nat /\ n = Len(parts)
    OBVIOUS
  <1>2. 0 \in T
    <2>1. SubSeq(ss, 1, 0) = <<>> /\ SubSeq(parts, 1, 0) = <<>> /\ 0 \in 0..n
      BY WholePrefix
    <2> QED
      BY <2>1, FlattenEmpty
  <1>3. ASSUME NEW k \in 1..n, k - 1 \in T PROVE k \in T
    <2>2. /\ SubSeq(parts, 1, k - 1) \in Seq(Seq(Seq(A))) /\ parts[k] \in Seq(Seq(A))
          /\ SubSeq(parts, 1, k) = Append(SubSeq(parts, 1, k - 1), parts[k])
      BY <1>1, NextPrefix
    <2>. DEFINE before == SubSeq(parts, 1, k - 1)
                after == SubSeq(parts, 1, k)
                part == parts[k]
    <2>3. before \in Seq(Seq(Seq(A))) /\ part \in Seq(Seq(A)) /\ after = Append(before, part)
      BY <2>2
    <2>4. Said(FlattenSeq(after), K) = Said(FlattenSeq(before), K) \o Said(part, K)
      <3>. HIDE DEF before, after, part
      <3>1. FlattenSeq(Append(before, part)) = FlattenSeq(before) \o part
        BY <2>3, FlattenAppend
      <3>. DEFINE flat == FlattenSeq(before)
      <3>2. flat \in Seq(Seq(A))
        BY <2>3, FlattenIn
      <3>. HIDE DEF flat
      <3>3. part \in Seq(Seq(A))
        BY <2>3
      <3>4. Said(flat \o part, K) = Said(flat, K) \o Said(part, K)
        BY <1>0, <3>2, <3>3
      <3> QED
        BY Zenon, <2>3, <3>1, <3>4 DEF flat
    <2>5. Said(FlattenSeq(SubSeq(parts, 1, k)), K) = Said(FlattenSeq(before), K) \o Said(parts[k], K)
      BY <2>4
    <2>6. Said(SubSeq(ss, 1, k), K) = Said(SubSeq(ss, 1, k - 1), K) \o Chosen(ss[k], K)
      BY SaidNext
    <2>7. k \in 0..n
      BY <1>1
    <2> QED
      BY <1>3, <2>5, <2>6, <2>7
  <1>. HIDE DEF T
  <1>4. n \in T
    BY <1>1, <1>2, <1>3, PrefixInduction
  <1>5. SubSeq(ss, 1, n) = ss /\ SubSeq(parts, 1, n) = parts
    BY <1>1, WholePrefix
  <1> QED
    BY <1>4, <1>5 DEF T

\* What is dropped from a list may say nothing.
LEMMA SaidChosen ==
  ASSUME NEW A, NEW ss \in Seq(Seq(A)), NEW K, NEW M,
         \A s \in Seq(A) : s \notin M => Chosen(s, K) = <<>>
  PROVE  Said(Chosen(ss, M), K) = Said(ss, K)
  <1>. DEFINE G == {uu \in Seq(Seq(A)) : Said(Chosen(uu, M), K) = Said(uu, K)}
  <1>1. <<>> \in G
    BY ChosenEmpty
  <1>2. ASSUME NEW uu \in Seq(Seq(A)), NEW u \in Seq(A), uu \in G PROVE Append(uu, u) \in G
    <2>1. Chosen(Append(uu, u), M) = IF u \in M THEN Append(Chosen(uu, M), u) ELSE Chosen(uu, M)
      BY ChosenAppend
    <2>2. Said(Append(uu, u), K) = Said(uu, K) \o Chosen(u, K) /\ Append(uu, u) \in Seq(Seq(A))
      BY SaidAppend
    <2>3. Chosen(uu, M) \in Seq(Seq(A)) /\ Said(uu, K) \in Seq(A)
      BY ChosenIn, SaidIn
    <2>4. CASE u \in M
      <3>1. Said(Append(Chosen(uu, M), u), K) = Said(Chosen(uu, M), K) \o Chosen(u, K)
        BY <2>3, SaidAppend
      <3> QED
        BY Zenon, <1>2, <2>1, <2>2, <2>4, <3>1
    <2>5. CASE u \notin M
      <3>1. Said(uu, K) \o <<>> = Said(uu, K)
        BY <2>3
      <3> QED
        BY <1>2, <2>1, <2>2, <2>5, <3>1
    <2>. HIDE DEF G
    <2> QED
      BY <2>4, <2>5
  <1>. HIDE DEF G
  <1>3. ss \in G
    BY <1>1, <1>2, SequenceInduction
  <1> QED
    BY <1>3 DEF G
=============================================================================
