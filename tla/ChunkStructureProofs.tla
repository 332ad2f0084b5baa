------------------------- MODULE ChunkStructureProofs -------------------------
(***************************************************************************)
(* Theorems about chunking by structure, for documents of any length: what *)
(* hierarchical_merge keeps and where it puts it, which pairs the readers  *)
(* of the qa preset make, and how long the parts of an answer are.         *)
(*                                                                         *)
(* A reader is a fold over the lines, and what it has made of the first k  *)
(* of them is an invariant, from k - 1 to k like that of a specification.  *)
(***************************************************************************)
EXTENDS ChunkStructure, InductionLemmas, TLAPS

-----------------------------------------------------------------------------
(* The hand-written binary search                                           *)

\* The lines of a level are in document order.
Increasing(arr) == \A k, l \in DOMAIN arr : k < l => arr[k] < arr[l]

Halves(arr, target, Search, s, e) ==
    LET mid == (s + e) \div 2
    IN  IF e - s <= 1 THEN s
        ELSE IF target > arr[mid] THEN Search[<<mid, e>>]
        ELSE IF target < arr[mid] THEN Search[<<s, mid>>]
        ELSE mid
IsSearch(arr, target, Search) ==
    LET n == Len(arr)
    IN  Search = [p \in (1..n) \X (2..(n + 1)) |-> Halves(arr, target, Search, p[1], p[2])]

LEMMA BinarySearchIs ==
  ASSUME NEW arr, NEW target
  PROVE  BinarySearch(arr, target) =
            LET Search == CHOOSE f : IsSearch(arr, target, f)
            IN  IF Len(arr) = 0 \/ target < arr[1] THEN 0
                ELSE IF target > arr[Len(arr)] THEN Len(arr)
                ELSE Search[<<1, Len(arr) + 1>>]
  BY Zenon DEF BinarySearch, IsSearch, Halves

HalvesUpTo(arr, target, n, m) ==
    \E f \in [(1..n) \X (2..(n + 1)) -> 1..n] :
        \A s \in 1..n, e \in 2..(n + 1) : e - s <= m => f[<<s, e>>] = Halves(arr, target, f, s, e)

LEMMA SearchExists ==
  ASSUME NEW arr \in Seq(Nat), NEW target \in Nat, Len(arr) # 0
  PROVE  \E f : IsSearch(arr, target, f) /\ f \in [(1..Len(arr)) \X (2..(Len(arr) + 1)) -> 1..Len(arr)]
  <1>. DEFINE n == Len(arr)
              S == 1..n
              E == 2..(n + 1)
              T == {m \in Nat : HalvesUpTo(arr, target, n, m)}
  <1>1. n \in Nat /\ n >= 1 /\ \A k \in S : arr[k] \in Nat
    OBVIOUS
  <1>2. \A s \in S, e \in E : ~ (e - s <= 1) =>
           /\ (s + e) \div 2 \in S /\ (s + e) \div 2 \in E
           /\ e - (s + e) \div 2 < e - s /\ (s + e) \div 2 - s < e - s
    BY <1>1
  <1>. HIDE DEF n
  <1>3. 0 \in T
    <2>. DEFINE f == [p \in S \X E |-> p[1]]
    <2>1. f \in [S \X E -> S] /\ \A s \in S, e \in E : f[<<s, e>>] = s
      OBVIOUS
    <2>. HIDE DEF f
    <2>2. \A s \in S, e \in E : e - s <= 0 => f[<<s, e>>] = Halves(arr, target, f, s, e)
      BY <1>1, <2>1 DEF Halves
    <2> QED
      BY <2>1, <2>2 DEF HalvesUpTo
  <1>4. ASSUME NEW m \in T PROVE m + 1 \in T
    <2>1. PICK f \in [S \X E -> S] :
            \A s \in S, e \in E : e - s <= m => f[<<s, e>>] = Halves(arr, target, f, s, e)
      BY <1>4 DEF HalvesUpTo
    <2>. DEFINE new == [p \in S \X E |-> Halves(arr, target, f, p[1], p[2])]
    <2>2. \A s \in S, e \in E : new[<<s, e>>] = Halves(arr, target, f, s, e)
      OBVIOUS
    <2>3. \A s \in S, e \in E : Halves(arr, target, f, s, e) \in S
      BY <1>2 DEF Halves
    <2>4. new \in [S \X E -> S]
      BY <2>3
    <2>. HIDE DEF new
    <2>5. \A s \in S, e \in E : e - s <= m => new[<<s, e>>] = f[<<s, e>>]
      BY <2>1, <2>2
    <2>6. ASSUME NEW s \in S, NEW e \in E, e - s <= m + 1
          PROVE  new[<<s, e>>] = Halves(arr, target, new, s, e)
      <3>1. CASE e - s <= 1
        BY <2>2, <3>1 DEF Halves
      <3>2. CASE ~ (e - s <= 1)
        <4>. DEFINE mid == (s + e) \div 2
        <4>1. mid \in S /\ mid \in E /\ e - mid <= m /\ mid - s <= m
          BY <1>1, <1>2, <2>6, <3>2
        <4>. HIDE DEF mid
        <4>2. new[<<mid, e>>] = f[<<mid, e>>] /\ new[<<s, mid>>] = f[<<s, mid>>]
          BY <2>5, <4>1
        <4> QED
          BY <2>2, <4>2 DEF Halves, mid
      <3> QED
        BY <3>1, <3>2
    <2>7. HalvesUpTo(arr, target, n, m + 1)
      BY <2>4, <2>6 DEF HalvesUpTo
    <2>8. m + 1 \in Nat
      OBVIOUS
    <2> QED
      BY <2>7, <2>8
  <1>5. T = Nat
    <2>. HIDE DEF T
    <2>1. T \in SUBSET Nat
      BY DEF T
    <2> QED
      BY <1>3, <1>4, <2>1, SetInduction
  <1>6. PICK f \in [S \X E -> S] :
          \A s \in S, e \in E : e - s <= n => f[<<s, e>>] = Halves(arr, target, f, s, e)
    BY <1>1, <1>5 DEF HalvesUpTo
  <1>7. \A s \in S, e \in E : f[<<s, e>>] = Halves(arr, target, f, s, e)
    <2>1. ASSUME NEW s \in S, NEW e \in E PROVE f[<<s, e>>] = Halves(arr, target, f, s, e)
      <3>1. e - s <= n
        BY <1>1
      <3> QED
        BY <1>6, <3>1
    <2> QED
      BY <2>1
  <1>8. f = [p \in S \X E |-> Halves(arr, target, f, p[1], p[2])]
    BY <1>7
  <1>9. IsSearch(arr, target, f)
    BY <1>8 DEF IsSearch, n
  <1> QED
    BY <1>9 DEF n

\* The search finds how many entries are not after the target.
LEMMA SearchFinds ==
  ASSUME NEW arr \in Seq(Nat), NEW target \in Nat, Increasing(arr)
  PROVE  /\ BinarySearch(arr, target) \in 0..Len(arr)
         /\ \A k \in DOMAIN arr : arr[k] <= target <=> k <= BinarySearch(arr, target)
  <1>. DEFINE n == Len(arr)
              found == BinarySearch(arr, target)
  <1>1. n \in Nat /\ DOMAIN arr = 1..n /\ \A k \in 1..n : arr[k] \in Nat
    OBVIOUS
  <1>2. \A k, l \in 1..n : k < l => arr[k] < arr[l]
    BY <1>1 DEF Increasing
  <1>3. CASE n = 0 \/ target < arr[1]
    <2>1. found = 0
      BY <1>3, BinarySearchIs
    <2>2. \A k \in 1..n : arr[1] <= arr[k]
      <3>1. ASSUME NEW k \in 1..n PROVE arr[1] <= arr[k]
        <4>1. k = 1 \/ (1 \in 1..n /\ 1 < k)
          BY <1>1
        <4> QED
          BY <1>1, <1>2, <4>1
      <3> QED
        BY <3>1
    <2>. HIDE DEF found, n
    <2>3. \A k \in 1..n : ~ (arr[k] <= target)
      <3>1. ASSUME NEW k \in 1..n PROVE ~ (arr[k] <= target)
        <4>1. 1 \in 1..n /\ target < arr[1] /\ arr[1] <= arr[k]
          BY <1>1, <1>3, <2>2
        <4> QED
          BY <1>1, <4>1
      <3> QED
        BY <3>1
    <2>4. found \in 0..n /\ \A k \in 1..n : arr[k] <= target <=> k <= found
      BY <1>1, <2>1, <2>3
    <2> QED
      BY <1>1, <2>4 DEF found, n
  <1>4. CASE ~ (n = 0 \/ target < arr[1]) /\ target > arr[n]
    <2>1. found = n
      BY <1>4, BinarySearchIs
    <2>2. \A k \in 1..n : arr[k] <= arr[n]
      BY <1>1, <1>2, <1>4
    <2>. HIDE DEF found, n
    <2>3. found \in 0..n /\ \A k \in 1..n : arr[k] <= target <=> k <= found
      <3>1. ASSUME NEW k \in 1..n PROVE arr[k] <= target
        <4>1. n \in 1..n /\ arr[k] <= arr[n] /\ target > arr[n]
          BY <1>1, <1>4, <2>2
        <4> QED
          BY <1>1, <4>1
      <3> QED
        BY <1>1, <2>1, <3>1
    <2> QED
      BY <1>1, <2>3 DEF found, n
  <1>5. CASE ~ (n = 0 \/ target < arr[1]) /\ ~ (target > arr[n])
    <2>. DEFINE S == 1..n
                E == 2..(n + 1)
                f == CHOOSE g : IsSearch(arr, target, g)
    <2>1. IsSearch(arr, target, f)
      BY <1>1, <1>5, SearchExists
    <2>2. found = f[<<1, n + 1>>]
      BY <1>5, BinarySearchIs
    <2>. HIDE DEF f, found, n
    <2>3. \A s \in S, e \in E : f[<<s, e>>] = Halves(arr, target, f, s, e)
      BY <2>1 DEF IsSearch, n
    <2>. DEFINE Within(s, e) == arr[s] <= target /\ (e = n + 1 \/ target < arr[e])
                Right(r) == r \in S /\ arr[r] <= target /\ (r = n \/ target < arr[r + 1])
                T == {m \in Nat : \A s \in S, e \in E :
                        s < e /\ e - s <= m /\ Within(s, e) => Right(f[<<s, e>>])}
    <2>4. 0 \in T
      OBVIOUS
    <2>5. ASSUME NEW m \in T PROVE m + 1 \in T
      <3>1. ASSUME NEW s \in S, NEW e \in E, s < e, e - s <= m + 1, Within(s, e)
            PROVE  Right(f[<<s, e>>])
        <4>1. f[<<s, e>>] = Halves(arr, target, f, s, e)
          BY <2>3
        <4>2. CASE e - s <= 1
          <5>1. f[<<s, e>>] = s
            BY <4>1, <4>2 DEF Halves
          <5>2. e = s + 1
            BY SMTT(30), <1>1, <3>1, <4>2
          <5> QED
            BY <1>1, <3>1, <5>1, <5>2
        <4>3. CASE ~ (e - s <= 1)
          <5>. DEFINE mid == (s + e) \div 2
          <5>1. /\ mid \in S /\ mid \in E /\ mid < e /\ s < mid
                /\ e - mid <= m /\ mid - s <= m
            <6>1. s \in Nat /\ e \in Nat /\ m \in Nat /\ s >= 1 /\ e <= n + 1
              BY <1>1
            <6>2. mid \in Nat /\ s < mid /\ mid < e
              BY <4>3, <6>1
            <6>. HIDE DEF mid
            <6> QED
              BY SMTT(30), <1>1, <3>1, <6>1, <6>2
          <5>2. f[<<s, e>>] = IF target > arr[mid] THEN f[<<mid, e>>]
                              ELSE IF target < arr[mid] THEN f[<<s, mid>>] ELSE mid
            BY <4>1, <4>3 DEF Halves
          <5>. HIDE DEF mid
          <5>3. CASE target > arr[mid]
            <6>1. Within(mid, e)
              BY <1>1, <3>1, <5>1, <5>3
            <6>2. Right(f[<<mid, e>>])
              BY <2>5, <5>1, <6>1
            <6> QED
              BY <5>2, <5>3, <6>2
          <5>4. CASE target < arr[mid]
            <6>1. Within(s, mid)
              BY <3>1, <5>4
            <6>2. Right(f[<<s, mid>>])
              BY <2>5, <5>1, <6>1
            <6>3. ~ (target > arr[mid])
              BY <1>1, <5>1, <5>4
            <6> QED
              BY <5>2, <5>4, <6>2, <6>3
          <5>5. CASE ~ (target > arr[mid]) /\ ~ (target < arr[mid])
            <6>1. arr[mid] = target /\ f[<<s, e>>] = mid
              BY SMTT(30), <1>1, <5>1, <5>2, <5>5
            <6>2. mid = n \/ (mid + 1 \in 1..n /\ mid < mid + 1)
              BY <1>1, <5>1
            <6> QED
              BY <1>1, <1>2, <5>1, <6>1, <6>2
          <5> QED
            BY <5>3, <5>4, <5>5
        <4> QED
          BY <4>2, <4>3
      <3>. HIDE DEF Within, Right
      <3> QED
        BY <3>1
    <2>6. T = Nat
      <3>. HIDE DEF T
      <3>1. T \in SUBSET Nat
        BY DEF T
      <3> QED
        BY <2>4, <2>5, <3>1, SetInduction
    <2>7. Right(found)
      <3>1. n >= 1 /\ arr[1] \in Nat /\ ~ (target < arr[1])
        BY <1>1, <1>5
      <3>2. Within(1, n + 1) /\ 1 \in S /\ n + 1 \in E /\ 1 < n + 1 /\ (n + 1) - 1 <= n
        BY <1>1, <3>1
      <3>. HIDE DEF Within, Right
      <3> QED
        BY <1>1, <2>2, <2>6, <3>2
    <2>8. ASSUME NEW k \in 1..n PROVE arr[k] <= target <=> k <= found
      <3>1. CASE k <= found
        <4>1. k = found \/ arr[k] < arr[found]
          BY <1>1, <1>2, <2>7, <3>1
        <4> QED
          BY <1>1, <2>7, <3>1, <4>1
      <3>2. CASE ~ (k <= found)
        <4>1. found + 1 \in 1..n /\ target < arr[found + 1] /\ (k = found + 1 \/ found + 1 < k)
          BY <1>1, <2>7, <3>2
        <4>2. k = found + 1 \/ arr[found + 1] < arr[k]
          BY <1>2, <4>1
        <4> QED
          BY <1>1, <2>7, <3>2, <4>1, <4>2
      <3> QED
        BY <3>1, <3>2
    <2> QED
      BY <1>1, <2>7, <2>8 DEF found, n
  <1> QED
    BY <1>3, <1>4, <1>5

-----------------------------------------------------------------------------
(* The chain of headings above a section                                    *)

LinesOf(d, i) == {k \in DOMAIN d : d[k] = i}

LEMMA LevelLinesParts ==
  ASSUME NEW d \in Seq(Nat), NEW i
  PROVE  /\ LevelLines(d, i) \in Seq(LinesOf(d, i)) /\ LevelLines(d, i) \in Seq(Nat)
         /\ Increasing(LevelLines(d, i))
         /\ \A k \in LinesOf(d, i) : \E x \in DOMAIN LevelLines(d, i) : LevelLines(d, i)[x] = k
  <1>. DEFINE arr == LevelLines(d, i)
              I == LinesOf(d, i)
  <1>1. arr = Ordered(I)
    BY DEF LevelLines, Where, LinesOf
  <1>2. I \in SUBSET (1..Len(d)) /\ IsFiniteSet(1..Len(d))
    BY FS_Interval DEF LinesOf
  <1>. HIDE DEF I, arr
  <1>3. I \in SUBSET Int /\ I \in SUBSET Nat /\ IsFiniteSet(I)
    <2>1. \A k \in I : k \in Nat /\ k \in Int
      BY <1>2
    <2>2. IsFiniteSet(I)
      BY <1>2, FS_Subset
    <2> QED
      BY <2>1, <2>2
  <1>4. /\ arr \in Seq(I) /\ Len(arr) = Cardinality(I) /\ Cardinality(I) \in Nat
        /\ \A k, l \in 1..Cardinality(I) : k < l => arr[k] < arr[l]
        /\ \A k \in I : \E x \in 1..Cardinality(I) : arr[x] = k
    BY <1>1, <1>3, OrderedParts
  <1>5. DOMAIN arr = 1..Cardinality(I) /\ arr \in Seq(Nat)
    <2>1. DOMAIN arr = 1..Cardinality(I)
      BY <1>4
    <2>2. \A x \in DOMAIN arr : arr[x] \in Nat
      BY <1>3, <1>4, ItemsIn
    <2>3. arr = [x \in 1..Cardinality(I) |-> arr[x]]
      BY <1>4
    <2>4. arr \in [1..Cardinality(I) -> Nat]
      BY <2>1, <2>2, <2>3
    <2>5. arr \in Seq(Nat)
      BY <1>4, <2>4, FunctionIsSequence
    <2> QED
      BY <2>1, <2>5
  <1> QED
    BY <1>4, <1>5 DEF I, arr, Increasing

\* The nearest heading of another level before a line
LEMMA NearestHeading ==
  ASSUME NEW d \in Seq(Nat), NEW j \in DOMAIN d, NEW ii, d[j] # ii
  PROVE  LET arr == LevelLines(d, ii)
             jj == BinarySearch(arr, j)
         IN  /\ jj \in 0..Len(arr)
             /\ jj = 0 => \A k \in LinesOf(d, ii) : ~ (k <= j)
             /\ jj # 0 => /\ arr[jj] \in LinesOf(d, ii) /\ arr[jj] < j
                          /\ \A k \in LinesOf(d, ii) : k <= j => k <= arr[jj]
  <1>. DEFINE arr == LevelLines(d, ii)
              jj == BinarySearch(arr, j)
              I == LinesOf(d, ii)
  <1>1. /\ arr \in Seq(I) /\ arr \in Seq(Nat) /\ Increasing(arr)
        /\ \A k \in I : \E x \in DOMAIN arr : arr[x] = k
    BY LevelLinesParts
  <1>2. j \in Nat /\ j \notin I /\ \A k \in I : k \in Nat /\ k # j
    BY DEF LinesOf
  <1>. HIDE DEF arr, I
  <1>3. jj \in 0..Len(arr) /\ \A k \in DOMAIN arr : arr[k] <= j <=> k <= jj
    BY <1>1, <1>2, SearchFinds
  <1>. HIDE DEF jj
  <1>4. DOMAIN arr = 1..Len(arr) /\ Len(arr) \in Nat /\ \A x \in DOMAIN arr : arr[x] \in I
    BY <1>1
  <1>5. CASE jj = 0
    <2>1. \A x \in DOMAIN arr : ~ (arr[x] <= j)
      BY <1>3, <1>4, <1>5
    <2>2. \A k \in I : ~ (k <= j)
      BY <1>1, <2>1
    <2> QED
      BY <1>3, <1>5, <2>2 DEF jj, arr, I
  <1>6. CASE jj # 0
    <2>1. jj \in DOMAIN arr /\ jj <= jj
      BY <1>3, <1>4, <1>6
    <2>2. arr[jj] \in I /\ arr[jj] <= j
      BY <1>3, <1>4, <2>1
    <2>3. arr[jj] < j
      BY <1>2, <2>2
    <2>4. ASSUME NEW k \in I, k <= j PROVE k <= arr[jj]
      <3>1. PICK x \in DOMAIN arr : arr[x] = k
        BY <1>1
      <3>2. x <= jj
        BY <1>3, <2>4, <3>1
      <3>3. x = jj \/ x < jj
        BY <1>3, <1>4, <3>2
      <3>4. x < jj => arr[x] < arr[jj]
        BY <1>1, <2>1 DEF Increasing
      <3> QED
        BY <1>2, <2>2, <3>1, <3>3, <3>4
    <2> QED
      BY <1>3, <1>6, <2>2, <2>3, <2>4 DEF jj, arr, I
  <1> QED
    BY <1>5, <1>6

\* A chain starts at its section and goes on with headings above it.
ChainsFrom(d, i, j) ==
    {chain \in Seq(DOMAIN d) :
        /\ chain # <<>> /\ chain[1] = j
        /\ \A x \in DOMAIN chain : x # 1 => chain[x] < j /\ d[chain[x]] > i}

LEMMA ClimbIsChain ==
  ASSUME NEW d \in Seq(Nat), NEW j \in DOMAIN d, NEW i \in Nat, d[j] = i,
         NEW chain \in ChainsFrom(d, i, j), NEW ii \in Nat, ii > i
  PROVE  LET above == {k \in LinesOf(d, ii) : k <= j}
             up == Climb(d, j, chain, ii)
         IN  /\ up \in ChainsFrom(d, i, j)
             /\ above # {} => Last(up) \in above /\ \A k \in above : k <= Last(up)
  <1>. DEFINE above == {k \in LinesOf(d, ii) : k <= j}
              up == Climb(d, j, chain, ii)
              arr == LevelLines(d, ii)
              jj == BinarySearch(arr, j)
              h == arr[jj]
  <1>1. /\ jj \in 0..Len(arr)
        /\ jj = 0 => \A k \in LinesOf(d, ii) : ~ (k <= j)
        /\ jj # 0 => /\ h \in LinesOf(d, ii) /\ h < j
                     /\ \A k \in LinesOf(d, ii) : k <= j => k <= h
    BY NearestHeading
  <1>2. up = IF jj = 0 THEN chain
             ELSE IF h > Last(chain) THEN Append(Front(chain), h) ELSE Append(chain, h)
    BY DEF Climb
  <1>3. /\ chain \in Seq(DOMAIN d) /\ chain # <<>> /\ chain[1] = j
        /\ \A x \in DOMAIN chain : x # 1 => chain[x] < j /\ d[chain[x]] > i
    BY DEF ChainsFrom
  <1>4. /\ Len(chain) \in Nat /\ Len(chain) >= 1 /\ DOMAIN chain = 1..Len(chain)
        /\ Last(chain) = chain[Len(chain)] /\ DOMAIN d \in SUBSET Nat
    BY <1>3 DEF Last
  <1>. HIDE DEF up, jj, h
  <1>5. CASE jj = 0
    BY <1>1, <1>2, <1>5 DEF up
  <1>6. CASE jj # 0
    <2>1. h \in DOMAIN d /\ d[h] = ii /\ h < j /\ h \in above /\ \A k \in above : k <= h
      BY <1>1, <1>6 DEF LinesOf
    <2>. HIDE DEF above
    <2>2. CASE h > Last(chain)
      <3>1. Len(chain) # 1
        <4>1. h \in Nat /\ j \in Nat /\ ~ (h > j)
          BY <1>4, <2>1
        <4>2. Last(chain) # j
          BY <2>2, <4>1
        <4> QED
          BY <1>3, <1>4, <4>2
      <3>. DEFINE m == Len(chain)
                  new == Append(Front(chain), h)
      <3>5. up = new
        BY <1>2, <1>6, <2>2
      <3>6. /\ new \in Seq(DOMAIN d) /\ DOMAIN new = 1..m /\ Len(new) = m /\ new[m] = h
            /\ \A x \in 1..m : x # m => new[x] = chain[x]
        BY <1>3, <2>1, NewLast
      <3>. HIDE DEF new
      <3>7. new # <<>> /\ new[1] = j /\ Last(new) = h
        <4>1. 1 \in 1..m /\ 1 # m
          BY <1>4, <3>1
        <4>2. new[1] = chain[1]
          BY <3>6, <4>1
        <4>3. Last(new) = h
          BY <3>6 DEF Last
        <4>4. new # <<>>
          <5>1. Len(new) >= 1 /\ Len(<<>>) = 0
            BY <1>4, <3>6
          <5> QED
            BY <5>1
        <4> QED
          BY <1>3, <4>2, <4>3, <4>4
      <3>8. \A x \in DOMAIN new : x # 1 => new[x] < j /\ d[new[x]] > i
        BY <1>3, <1>4, <2>1, <3>6
      <3>9. new \in ChainsFrom(d, i, j)
        BY <3>6, <3>7, <3>8 DEF ChainsFrom
      <3> QED
        BY <2>1, <3>5, <3>7, <3>9 DEF up, above
    <2>3. CASE ~ (h > Last(chain))
      <3>. DEFINE m == Len(chain)
                  new == Append(chain, h)
      <3>1. up = new
        BY <1>2, <1>6, <2>3
      <3>2. /\ new \in Seq(DOMAIN d) /\ Len(new) = m + 1 /\ DOMAIN new = 1..(m + 1)
            /\ new[m + 1] = h /\ \A x \in 1..m : new[x] = chain[x]
        BY <1>3, <1>4, <2>1
      <3>. HIDE DEF new
      <3>3. new # <<>> /\ new[1] = j /\ Last(new) = h
        BY <1>3, <1>4, <3>2 DEF Last
      <3>4. \A x \in DOMAIN new : x # 1 => new[x] < j /\ d[new[x]] > i
        <4>1. ASSUME NEW x \in DOMAIN new, x # 1 PROVE new[x] < j /\ d[new[x]] > i
          <5>1. CASE x = m + 1
            BY <2>1, <3>2, <5>1
          <5>2. CASE x # m + 1
            <6>1. x \in 1..m
              BY <1>4, <3>2, <5>2
            <6> QED
              BY <1>3, <1>4, <3>2, <4>1, <6>1
          <5> QED
            BY <5>1, <5>2
        <4> QED
          BY <4>1
      <3>5. new \in ChainsFrom(d, i, j)
        BY <3>2, <3>3, <3>4 DEF ChainsFrom
      <3> QED
        BY <2>1, <3>1, <3>3, <3>5 DEF up, above
    <2> QED
      BY <2>2, <2>3
  <1> QED
    BY <1>5, <1>6

\* A section's chain, and the heading of the first level at its end
LEMMA HeadingChainParts ==
  ASSUME NEW d \in Seq(Nat), NEW j \in DOMAIN d, NEW i \in 0..(LevelCount - 1), d[j] = i
  PROVE  LET chain == HeadingChain(d, i, j)
             tops == {k \in LinesOf(d, LevelCount - 1) : k <= j}
         IN  /\ chain \in ChainsFrom(d, i, j)
             /\ i + 1 < LevelCount - 1 /\ tops # {} =>
                    Last(chain) \in tops /\ \A k \in tops : k <= Last(chain)
  <1>. DEFINE chain == HeadingChain(d, i, j)
              tops == {k \in LinesOf(d, LevelCount - 1) : k <= j}
              n == LevelCount - 1 - i
              A == ChainsFrom(d, i, j)
              base == <<j>>
              Step(acc, k) == Climb(d, j, acc, i + k)
              g == [p \in A \X (1..n) |-> Step(p[1], p[2])]
              places == [k \in 1..n |-> i + k]
              IsRead(it) == it = [s \in SUBSET (1..n) |->
                                    IF s = {} THEN base
                                    ELSE Climb(d, j, it[s \ {Max(s)}], places[Max(s)])]
              read == CHOOSE it : IsRead(it)
  <1>1. n \in Nat /\ i \in Nat /\ LevelCount \in Nat /\ n + i = LevelCount - 1
    BY StructureAssumption
  <1>2. base \in A
    BY DEF ChainsFrom
  <1>3. \A acc \in A, k \in 1..n : Step(acc, k) \in A
    <2>1. ASSUME NEW acc \in A, NEW k \in 1..n PROVE Step(acc, k) \in A
      <3>1. i + k \in Nat /\ i + k > i
        BY <1>1
      <3> QED
        BY <1>1, <3>1, ClimbIsChain
    <2> QED
      BY <2>1
  <1>4. \A s \in SUBSET (1..n) : s # {} => Max(s) \in 1..n
    BY <1>1, MaxOfPlaces
  <1>5. \A k \in 1..n : \A acc : Climb(d, j, acc, places[k]) = Step(acc, k)
    OBVIOUS
  <1>6. DOMAIN places = 1..n
    OBVIOUS
  <1>. HIDE DEF A, base, Step, n, places
  <1>7. g \in [A \X (1..n) -> A] /\ \A acc \in A, k \in 1..n : g[<<acc, k>>] = Step(acc, k)
    BY <1>3
  <1>. HIDE DEF g
  <1>8. \E it : IsRead(it)
    <2>1. PICK it \in [SUBSET (1..n) -> A] :
            /\ it[{}] = base
            /\ \A s \in SUBSET (1..n) : s # {} => it[s] = g[<<it[s \ {Max(s)}], Max(s)>>]
      <3>1. HasSteps(A, base, g, n)
        BY <1>1, <1>2, <1>7, FoldHasSteps
      <3> QED
        BY <3>1 DEF HasSteps
    <2>2. \A s \in SUBSET (1..n) : s # {} =>
            it[s] = Climb(d, j, it[s \ {Max(s)}], places[Max(s)])
      BY <1>1, <1>4, <1>7, <1>5, <2>1
    <2>3. IsRead(it)
      BY <2>1, <2>2
    <2> QED
      BY <2>3
  <1>9. IsRead(read)
    BY <1>8
  <1>10. CASE i + 1 = LevelCount - 1
    BY <1>2, <1>10 DEF HeadingChain, A, base
  <1>11. CASE i + 1 # LevelCount - 1
    <2>1. chain = read[1..n]
      BY Zenon, <1>11, <1>6 DEF HeadingChain, FoldLeft, MapThenFoldSet, read, base, n, places
    <2>. HIDE DEF read, chain
    <2>2. /\ read[{}] = base
          /\ \A s \in SUBSET (1..n) : s # {} /\ read[s \ {Max(s)}] \in A =>
                 read[s] = g[<<read[s \ {Max(s)}], Max(s)>>]
      <3>1. read = [s \in SUBSET (1..n) |->
                      IF s = {} THEN base ELSE Climb(d, j, read[s \ {Max(s)}], places[Max(s)])]
        BY <1>9
      <3>2. ASSUME NEW s \in SUBSET (1..n), s # {}, read[s \ {Max(s)}] \in A
            PROVE  read[s] = g[<<read[s \ {Max(s)}], Max(s)>>]
        <4>1. read[s] = Climb(d, j, read[s \ {Max(s)}], places[Max(s)])
          BY <3>1, <3>2
        <4> QED
          BY <1>4, <1>7, <1>5, <3>2, <4>1
      <3>3. read[{}] = base
        BY <3>1
      <3> QED
        BY <3>2, <3>3
    <2>3. PICK f \in [0..n -> A] :
            f[0] = base /\ f[n] = read[1..n] /\ \A k \in 1..n : f[k] = g[<<f[k - 1], k>>]
      <3>1. HasPrefixes(A, base, g, n, read)
        BY <1>1, <1>2, <1>7, <2>2, FoldByPrefixes
      <3> QED
        BY <3>1 DEF HasPrefixes
    <2>4. chain \in A /\ f[n] = chain
      BY <1>1, <2>1, <2>3
    <2>5. ASSUME i + 1 < LevelCount - 1, tops # {}
          PROVE  Last(chain) \in tops /\ \A k \in tops : k <= Last(chain)
      <3>1. n \in 1..n /\ n - 1 \in 0..n /\ i + n = LevelCount - 1
        BY <1>1, <2>5 DEF n
      <3>2. f[n] = Step(f[n - 1], n) /\ f[n - 1] \in A
        BY <1>7, <2>3, <3>1
      <3>3. chain = Climb(d, j, f[n - 1], LevelCount - 1)
        BY <2>4, <3>1, <3>2 DEF Step
      <3>4. LevelCount - 1 \in Nat /\ LevelCount - 1 > i /\ f[n - 1] \in ChainsFrom(d, i, j)
        BY <1>1, <2>5, <3>2 DEF A
      <3> QED
        BY <1>1, <2>5, <3>3, <3>4, ClimbIsChain
    <2> QED
      BY <2>4, <2>5 DEF A, chain
  <1> QED
    BY <1>10, <1>11

-----------------------------------------------------------------------------
(* The sections a document is visited by, and their chains                  *)

Levels == 0..(LevelCount - 1)
SectionsOf(d) == {p \in [level : Levels, line : DOMAIN d] : d[p.line] = p.level}

LEMMA VisitOrderParts ==
  ASSUME NEW d \in Seq(Levels)
  PROVE  /\ VisitOrder(d) \in Seq(SectionsOf(d))
         /\ \A j \in DOMAIN d : d[j] < Depth =>
                \E x \in DOMAIN VisitOrder(d) : VisitOrder(d)[x].line = j
  <1>. DEFINE most == Min({Depth, LevelCount})
              At(i) == [k \in DOMAIN LevelLines(d, i - 1) |->
                          [level |-> i - 1, line |-> LevelLines(d, i - 1)[k]]]
              parts == [i \in 1..most |-> At(i)]
              A == SectionsOf(d)
  <1>1. most \in Nat /\ most <= LevelCount /\ \A i \in Nat : i < Depth /\ i < LevelCount => i < most
    <2>1. {Depth, LevelCount} \in SUBSET Nat /\ {Depth, LevelCount} # {}
      BY StructureAssumption
    <2>2. most \in {Depth, LevelCount} /\ \A x \in {Depth, LevelCount} : most <= x
      BY <2>1, MinIsLeast
    <2>. HIDE DEF most
    <2> QED
      BY StructureAssumption, <2>2
  <1>2. VisitOrder(d) = FlattenSeq(parts)
    BY DEF VisitOrder
  <1>3. d \in Seq(Nat) /\ \A j \in DOMAIN d : d[j] \in Levels
    <2>1. \A j \in DOMAIN d : d[j] \in Nat
      <3>1. \A j \in DOMAIN d : d[j] \in Levels
        BY ItemsIn
      <3> QED
        BY <3>1, StructureAssumption DEF Levels
    <2>2. d \in [1..Len(d) -> Nat] /\ Len(d) \in Nat
      BY <2>1
    <2> QED
      BY <2>2, FunctionIsSequence
  <1>. HIDE DEF most
  <1>4. ASSUME NEW i \in 1..most
        PROVE  /\ At(i) \in Seq(A)
               /\ \A j \in DOMAIN d : d[j] = i - 1 => [level |-> i - 1, line |-> j] \in Range(At(i))
    <2>. DEFINE arr == LevelLines(d, i - 1)
    <2>1. /\ arr \in Seq(LinesOf(d, i - 1))
          /\ \A k \in LinesOf(d, i - 1) : \E x \in DOMAIN arr : arr[x] = k
      BY <1>3, LevelLinesParts
    <2>. HIDE DEF arr
    <2>2. i - 1 \in Levels
      BY <1>1, StructureAssumption DEF Levels
    <2>3. \A k \in DOMAIN arr : [level |-> i - 1, line |-> arr[k]] \in A
      BY <2>1, <2>2 DEF LinesOf, SectionsOf
    <2>4. At(i) = [k \in DOMAIN arr |-> [level |-> i - 1, line |-> arr[k]]]
      BY DEF arr
    <2>. HIDE DEF At
    <2>5. At(i) \in Seq(A)
      <3>. DEFINE f == At(i)
      <3>1. DOMAIN arr = 1..Len(arr) /\ Len(arr) \in Nat
        BY <2>1
      <3>2. f \in [1..Len(arr) -> A]
        BY <2>3, <2>4, <3>1
      <3>. HIDE DEF f
      <3>3. f \in Seq(A)
        BY <3>1, <3>2, FunctionIsSequence
      <3> QED
        BY <3>3 DEF f
    <2>6. ASSUME NEW j \in DOMAIN d, d[j] = i - 1
          PROVE  [level |-> i - 1, line |-> j] \in Range(At(i))
      <3>1. j \in LinesOf(d, i - 1)
        BY <2>6 DEF LinesOf
      <3>2. PICK x \in DOMAIN arr : arr[x] = j
        BY <2>1, <3>1
      <3>3. x \in DOMAIN At(i) /\ At(i)[x] = [level |-> i - 1, line |-> j]
        BY <2>4, <3>2
      <3> QED
        BY <3>3 DEF Range
    <2> QED
      BY <2>5, <2>6
  <1>. HIDE DEF At, A
  <1>5. parts \in Seq(Seq(A)) /\ DOMAIN parts = 1..most
    BY <1>1, <1>4, FunctionIsSequence
  <1>6. /\ FlattenSeq(parts) \in Seq(A)
        /\ \A i \in DOMAIN parts : Range(parts[i]) \subseteq Range(FlattenSeq(parts))
    <2>. HIDE DEF parts
    <2> QED
      BY <1>5, FlattenParts
  <1>7. ASSUME NEW j \in DOMAIN d, d[j] < Depth
        PROVE  \E x \in DOMAIN FlattenSeq(parts) : FlattenSeq(parts)[x].line = j
    <2>1. d[j] \in Nat /\ d[j] < LevelCount /\ d[j] + 1 \in 1..most /\ (d[j] + 1) - 1 = d[j]
      <3>1. d[j] \in Nat /\ d[j] < LevelCount
        BY <1>3, StructureAssumption DEF Levels
      <3>2. d[j] < most
        BY <1>1, <1>7, <3>1
      <3> QED
        BY <1>1, <3>1, <3>2
    <2>2. [level |-> d[j], line |-> j] \in Range(At(d[j] + 1))
      BY <1>4, <2>1
    <2>3. parts[d[j] + 1] = At(d[j] + 1)
      BY <2>1
    <2>4. [level |-> d[j], line |-> j] \in Range(FlattenSeq(parts))
      BY <1>5, <1>6, <2>1, <2>2, <2>3
    <2>. HIDE DEF parts
    <2>5. \E x \in DOMAIN FlattenSeq(parts) : FlattenSeq(parts)[x] = [level |-> d[j], line |-> j]
      BY <2>4 DEF Range
    <2> QED
      BY <2>5
  <1> QED
    BY <1>2, <1>6, <1>7 DEF A

ChunkReader == [readed : SUBSET Nat, cks : Seq(Seq(Nat))]
FreshChunkReader == [readed |-> {}, cks |-> <<>>]

\* What has been read after k sections
ChainsRead(d, k, acc) ==
    /\ acc.readed = UNION {Range(acc.cks[c]) : c \in DOMAIN acc.cks}
    /\ \A x \in 1..k : VisitOrder(d)[x].line \in acc.readed
    /\ \A c \in DOMAIN acc.cks : \E p \in SectionsOf(d) :
            acc.cks[c] = Reverse(HeadingChain(d, p.level, p.line))
    /\ \A j \in DOMAIN d : d[j] = 0 =>
            \A c, e \in DOMAIN acc.cks : j \in Range(acc.cks[c]) /\ j \in Range(acc.cks[e]) => c = e

\* The chain of a section, turned round
LEMMA SectionChain ==
  ASSUME NEW d \in Seq(Levels), NEW p \in SectionsOf(d)
  PROVE  LET chain == HeadingChain(d, p.level, p.line)
             ck == Reverse(chain)
             tops == {k \in LinesOf(d, LevelCount - 1) : k <= p.line}
         IN  /\ ck \in Seq(Nat) /\ Range(ck) = Range(chain) /\ p.line \in Range(chain)
             /\ Last(ck) = p.line
             /\ \A j \in Range(chain) : d[j] = 0 => j = p.line
             /\ p.level = 0 /\ tops # {} => ck[1] \in tops /\ \A k \in tops : k <= ck[1]
  <1>. DEFINE chain == HeadingChain(d, p.level, p.line)
              ck == Reverse(chain)
              tops == {k \in LinesOf(d, LevelCount - 1) : k <= p.line}
  <1>1. d \in Seq(Nat) /\ DOMAIN d \in SUBSET Nat
    <2>1. \A j \in DOMAIN d : d[j] \in Nat
      <3>1. \A j \in DOMAIN d : d[j] \in Levels
        BY ItemsIn
      <3> QED
        BY <3>1, StructureAssumption DEF Levels
    <2>2. d \in [1..Len(d) -> Nat] /\ Len(d) \in Nat
      BY <2>1
    <2> QED
      BY <2>2, FunctionIsSequence
  <1>2. p.line \in DOMAIN d /\ p.level \in Levels /\ d[p.line] = p.level
    BY DEF SectionsOf
  <1>3. /\ chain \in ChainsFrom(d, p.level, p.line)
        /\ p.level + 1 < LevelCount - 1 /\ tops # {} =>
               Last(chain) \in tops /\ \A k \in tops : k <= Last(chain)
    BY <1>1, <1>2, HeadingChainParts DEF Levels
  <1>. HIDE DEF chain, tops
  <1>4. /\ chain \in Seq(DOMAIN d) /\ chain # <<>> /\ chain[1] = p.line
        /\ \A x \in DOMAIN chain : x # 1 => chain[x] < p.line /\ d[chain[x]] > p.level
    BY <1>3 DEF ChainsFrom
  <1>5. chain \in Seq(Nat)
    <2>1. \A x \in DOMAIN chain : chain[x] \in Nat
      BY <1>1, <1>4, ItemsIn
    <2>2. Len(chain) \in Nat /\ chain \in [1..Len(chain) -> Nat]
      BY <1>4, <2>1
    <2> QED
      BY <2>2, FunctionIsSequence
  <1>6. /\ ck \in Seq(Nat) /\ Range(ck) = Range(chain)
        /\ ck[1] = Last(chain) /\ Last(ck) = p.line
    BY <1>4, <1>5, ReverseParts
  <1>7. p.line \in Range(chain)
    <2>1. 1 \in DOMAIN chain
      BY <1>4
    <2> QED
      BY <1>4, <2>1 DEF Range
  <1>8. ASSUME NEW j \in Range(chain), d[j] = 0 PROVE j = p.line
    <2>1. PICK x \in DOMAIN chain : chain[x] = j
      BY DEF Range
    <2>2. p.level \in Nat
      BY <1>2 DEF Levels
    <2> QED
      BY <1>4, <1>8, <2>1, <2>2
  <1>9. ASSUME p.level = 0, tops # {} PROVE ck[1] \in tops /\ \A k \in tops : k <= ck[1]
    <2>1. p.level + 1 < LevelCount - 1
      BY <1>9, StructureAssumption
    <2> QED
      BY <1>3, <1>6, <1>9, <2>1
  <1> QED
    BY <1>6, <1>7, <1>8, <1>9 DEF chain, tops

LEMMA VisitTypes ==
  ASSUME NEW d \in Seq(Levels), NEW acc \in ChunkReader, NEW p \in SectionsOf(d)
  PROVE  LET chain == HeadingChain(d, p.level, p.line)
             out == Visit(d, acc, p)
         IN  /\ out \in ChunkReader
             /\ p.line \in acc.readed => out = acc
             /\ p.line \notin acc.readed =>
                    /\ out.readed = acc.readed \cup Range(chain)
                    /\ out.cks = Append(acc.cks, Reverse(chain))
  <1>. DEFINE chain == HeadingChain(d, p.level, p.line)
              more == acc.readed \cup Range(chain)
              longer == Append(acc.cks, Reverse(chain))
  <1>1. Visit(d, acc, p) = IF p.line \in acc.readed THEN acc ELSE [readed |-> more, cks |-> longer]
    BY DEF Visit
  <1>2. Reverse(chain) \in Seq(Nat) /\ Range(Reverse(chain)) = Range(chain)
    BY SectionChain
  <1>. HIDE DEF chain
  <1>3. longer \in Seq(Seq(Nat)) /\ acc.readed \in SUBSET Nat
    BY <1>2 DEF ChunkReader
  <1>4. Range(chain) \in SUBSET Nat
    <2>. DEFINE ck == Reverse(chain)
    <2>. HIDE DEF ck
    <2>1. Range(ck) \in SUBSET Nat
      <3>1. \A x \in DOMAIN ck : ck[x] \in Nat
        BY <1>2, ItemsIn DEF ck
      <3> QED
        BY <3>1 DEF Range
    <2> QED
      BY <1>2, <2>1 DEF ck
  <1>5. more \in SUBSET Nat
    BY <1>3, <1>4
  <1>. HIDE DEF more, longer
  <1>6. [readed |-> more, cks |-> longer] \in ChunkReader
    BY <1>3, <1>5 DEF ChunkReader
  <1> QED
    BY <1>1, <1>6 DEF more, longer, chain

LEMMA VisitKeepsChains ==
  ASSUME NEW d \in Seq(Levels), NEW k \in DOMAIN VisitOrder(d), NEW acc \in ChunkReader,
         ChainsRead(d, k - 1, acc)
  PROVE  ChainsRead(d, k, Visit(d, acc, VisitOrder(d)[k]))
  <1>. DEFINE p == VisitOrder(d)[k]
              out == Visit(d, acc, p)
              chain == HeadingChain(d, p.level, p.line)
              ck == Reverse(chain)
  <1>1. p \in SectionsOf(d) /\ k \in Nat /\ k >= 1
    BY VisitOrderParts
  <1>2. /\ p.line \in acc.readed => out = acc
        /\ p.line \notin acc.readed =>
               out.readed = acc.readed \cup Range(chain) /\ out.cks = Append(acc.cks, ck)
    BY <1>1, VisitTypes
  <1>3. /\ Range(ck) = Range(chain) /\ p.line \in Range(chain)
        /\ \A j \in Range(chain) : d[j] = 0 => j = p.line
    BY <1>1, SectionChain
  <1>4. \A x \in 1..k : x \in 1..(k - 1) \/ x = k
    BY <1>1
  <1>. DEFINE old == acc.cks
              m == Len(old)
  <1>5. old \in Seq(Seq(Nat)) /\ m \in Nat /\ DOMAIN old = 1..m
    BY DEF ChunkReader
  <1>6. /\ acc.readed = UNION {Range(old[c]) : c \in DOMAIN old}
        /\ \A x \in 1..(k - 1) : VisitOrder(d)[x].line \in acc.readed
        /\ \A c \in DOMAIN old : \E s \in SectionsOf(d) : old[c] = Reverse(HeadingChain(d, s.level, s.line))
        /\ \A j \in DOMAIN d : d[j] = 0 =>
              \A c, e \in DOMAIN old : j \in Range(old[c]) /\ j \in Range(old[e]) => c = e
    BY DEF ChainsRead
  <1>7. CASE p.line \in acc.readed
    <2>1. \A x \in 1..k : VisitOrder(d)[x].line \in acc.readed
      BY <1>4, <1>6, <1>7
    <2> QED
      BY <1>2, <1>6, <1>7, <2>1 DEF ChainsRead
  <1>8. CASE p.line \notin acc.readed
    <2>. DEFINE new == Append(old, ck)
    <2>. HIDE DEF chain, ck, old, out
    <2>1. /\ DOMAIN new = DOMAIN old \cup {m + 1} /\ m + 1 \notin DOMAIN old
          /\ new[m + 1] = ck /\ \A c \in DOMAIN old : new[c] = old[c]
      BY <1>5
    <2>. HIDE DEF new, m
    <2>2. out.readed = acc.readed \cup Range(ck) /\ out.cks = new
      BY <1>2, <1>3, <1>8 DEF new, old
    <2>3. out.readed = UNION {Range(new[c]) : c \in DOMAIN new}
      <3>1. \A i \in out.readed : \E c \in DOMAIN new : i \in Range(new[c])
        BY <1>6, <2>1, <2>2
      <3>2. \A c \in DOMAIN new : Range(new[c]) \subseteq out.readed
        BY <1>6, <2>1, <2>2
      <3> QED
        BY <3>1, <3>2
    <2>4. \A x \in 1..k : VisitOrder(d)[x].line \in out.readed
      BY <1>3, <1>4, <1>6, <2>2
    <2>5. \A c \in DOMAIN new : \E s \in SectionsOf(d) : new[c] = Reverse(HeadingChain(d, s.level, s.line))
      BY <1>1, <1>6, <2>1 DEF ck, chain
    <2>6. ASSUME NEW j \in DOMAIN d, d[j] = 0, NEW c \in DOMAIN new, NEW e \in DOMAIN new,
                 j \in Range(new[c]), j \in Range(new[e])
          PROVE  c = e
      <3>1. j \in Range(ck) => j \notin acc.readed
        BY <1>3, <1>8, <2>6
      <3>2. \A b \in DOMAIN old : j \in Range(old[b]) => j \in acc.readed
        BY <1>6
      <3> QED
        BY <1>6, <2>1, <2>6, <3>1, <3>2
    <2> QED
      BY SMTT(30), <2>2, <2>3, <2>4, <2>5, <2>6 DEF ChainsRead, out
  <1> QED
    BY <1>7, <1>8

\* f[k] is what the merge keeps after k sections.
MergesSections(d, f) ==
    LET n == Len(VisitOrder(d))
    IN  /\ f \in [0..n -> ChunkReader]
        /\ f[0] = FreshChunkReader
        /\ \A k \in 1..n : f[k] = Visit(d, f[k - 1], VisitOrder(d)[k])
        /\ Chains(d) = f[n].cks

LEMMA SectionsAreMerged ==
  ASSUME NEW d \in Seq(Levels)
  PROVE  \E f : MergesSections(d, f)
  <1>. DEFINE places == VisitOrder(d)
              n == Len(places)
              A == ChunkReader
              base == FreshChunkReader
              Step(acc, k) == Visit(d, acc, places[k])
              g == [p \in A \X (1..n) |-> Step(p[1], p[2])]
              IsRead(it) == it = [s \in SUBSET (1..n) |->
                                    IF s = {} THEN base
                                    ELSE Visit(d, it[s \ {Max(s)}], places[Max(s)])]
              read == CHOOSE it : IsRead(it)
  <1>1. /\ n \in Nat /\ DOMAIN places = 1..n /\ \A k \in 1..n : places[k] \in SectionsOf(d)
    <2>1. places \in Seq(SectionsOf(d))
      BY VisitOrderParts
    <2>. HIDE DEF places
    <2> QED
      BY <2>1, ItemsIn
  <1>2. base \in A
    BY DEF FreshChunkReader, ChunkReader
  <1>3. \A acc \in A, k \in 1..n : Step(acc, k) \in A
    <2>1. ASSUME NEW acc \in A, NEW k \in 1..n PROVE Step(acc, k) \in A
      BY <1>1, VisitTypes
    <2> QED
      BY <2>1
  <1>4. \A s \in SUBSET (1..n) : s # {} => Max(s) \in 1..n
    BY <1>1, MaxOfPlaces
  <1>. HIDE DEF A, base, n, places
  <1>5. g \in [A \X (1..n) -> A] /\ \A acc \in A, k \in 1..n : g[<<acc, k>>] = Step(acc, k)
    BY <1>3
  <1>. HIDE DEF g
  <1>6. \E it : IsRead(it)
    <2>1. PICK it \in [SUBSET (1..n) -> A] :
            /\ it[{}] = base
            /\ \A s \in SUBSET (1..n) : s # {} => it[s] = g[<<it[s \ {Max(s)}], Max(s)>>]
      <3>1. HasSteps(A, base, g, n)
        BY <1>1, <1>2, <1>5, FoldHasSteps
      <3> QED
        BY <3>1 DEF HasSteps
    <2>2. \A s \in SUBSET (1..n) : s # {} => it[s] = Step(it[s \ {Max(s)}], Max(s))
      BY <1>1, <1>4, <1>5, <2>1
    <2>3. IsRead(it)
      BY <2>1, <2>2
    <2> QED
      BY <2>3
  <1>7. IsRead(read)
    BY <1>6
  <1>8. Chains(d) = read[1..n].cks
    BY Zenon, <1>1 DEF Chains, FoldLeft, MapThenFoldSet, read, base, FreshChunkReader, n, places
  <1>. HIDE DEF read
  <1>9. /\ read[{}] = base
        /\ \A s \in SUBSET (1..n) : s # {} /\ read[s \ {Max(s)}] \in A =>
               read[s] = g[<<read[s \ {Max(s)}], Max(s)>>]
    BY <1>1, <1>4, <1>5, <1>7
  <1>10. PICK f \in [0..n -> A] :
           f[0] = base /\ f[n] = read[1..n] /\ \A k \in 1..n : f[k] = g[<<f[k - 1], k>>]
    <2>1. HasPrefixes(A, base, g, n, read)
      BY <1>1, <1>2, <1>5, <1>9, FoldByPrefixes
    <2> QED
      BY <2>1 DEF HasPrefixes
  <1>11. \A k \in 1..n : f[k] = Step(f[k - 1], k)
    <2>1. \A k \in 1..n : k - 1 \in 0..n
      BY <1>1
    <2> QED
      BY <1>5, <1>10, <2>1
  <1>12. MergesSections(d, f)
    BY <1>8, <1>10, <1>11 DEF MergesSections, A, base, n, places
  <1> QED
    BY <1>12

\* The chunks: chains of sections, which leave no visited line out
LEMMA ChainsOfDocument ==
  ASSUME NEW d \in Seq(Levels)
  PROVE  LET cks == Chains(d)
         IN  /\ \A j \in DOMAIN d : d[j] < Depth => \E c \in DOMAIN cks : j \in Range(cks[c])
             /\ \A c \in DOMAIN cks : \E p \in SectionsOf(d) :
                    cks[c] = Reverse(HeadingChain(d, p.level, p.line))
             /\ \A j \in DOMAIN d : d[j] = 0 =>
                    \A c, e \in DOMAIN cks : j \in Range(cks[c]) /\ j \in Range(cks[e]) => c = e
  <1>. DEFINE order == VisitOrder(d)
              n == Len(order)
  <1>1. /\ order \in Seq(SectionsOf(d)) /\ n \in Nat /\ DOMAIN order = 1..n
        /\ \A j \in DOMAIN d : d[j] < Depth => \E x \in 1..n : order[x].line = j
    <2>1. /\ order \in Seq(SectionsOf(d))
          /\ \A j \in DOMAIN d : d[j] < Depth => \E x \in DOMAIN order : order[x].line = j
      BY VisitOrderParts
    <2>. HIDE DEF order
    <2> QED
      BY <2>1
  <1>2. PICK f : MergesSections(d, f)
    BY SectionsAreMerged
  <1>. HIDE DEF n
  <1>3. /\ \A k \in 0..n : f[k] \in ChunkReader
        /\ f[0] = FreshChunkReader
        /\ \A k \in 1..n : f[k] = Visit(d, f[k - 1], VisitOrder(d)[k])
        /\ Chains(d) = f[n].cks
    BY <1>2 DEF MergesSections, n
  <1>. DEFINE T == {k \in 0..n : ChainsRead(d, k, f[k])}
  <1>4. 0 \in T
    <2>1. f[0].readed = {} /\ f[0].cks = <<>>
      BY <1>3 DEF FreshChunkReader
    <2>2. DOMAIN f[0].cks = {} /\ 1..0 = {}
      BY <2>1
    <2>3. ChainsRead(d, 0, f[0])
      BY <2>1, <2>2 DEF ChainsRead
    <2> QED
      BY <1>1, <2>3
  <1>5. ASSUME NEW k \in 1..n, k - 1 \in T PROVE k \in T
    <2>1. k - 1 \in 0..n /\ k \in 0..n /\ k \in DOMAIN VisitOrder(d)
      BY <1>1
    <2>2. ChainsRead(d, k, Visit(d, f[k - 1], VisitOrder(d)[k]))
      BY <1>3, <1>5, <2>1, VisitKeepsChains
    <2> QED
      BY <1>3, <2>1, <2>2
  <1>6. n \in T
    <2>. HIDE DEF T
    <2> QED
      BY <1>1, <1>4, <1>5, PrefixInduction
  <1>7. ChainsRead(d, n, f[n])
    BY <1>6
  <1>8. ASSUME NEW j \in DOMAIN d, d[j] < Depth
        PROVE  \E c \in DOMAIN Chains(d) : j \in Range(Chains(d)[c])
    <2>1. PICK x \in 1..n : order[x].line = j
      BY <1>1, <1>8
    <2>2. j \in f[n].readed
      BY <1>7, <2>1 DEF ChainsRead
    <2> QED
      BY <1>3, <1>7, <2>2 DEF ChainsRead
  <1> QED
    BY <1>3, <1>7, <1>8 DEF ChainsRead

LEMMA LevelDocument ==
  ASSUME DocTypeOK, kind = "levels"
  PROVE  doc \in Seq(Levels)
  BY DEF DocTypeOK, Alphabet, Levels

-----------------------------------------------------------------------------
(* Reading a document line by line                                          *)

\* What the readers keep in their two kinds of state
Pair(Q) == [q: Q, a: Seq(Nat)]
PrefixReader == [q: Nat, a: Seq(Nat), pairs: Seq(Pair(Nat)), fence: BOOLEAN]
HeadingReader == [stack: Seq(Nat), a: Seq(Nat), pairs: Seq(Pair(Seq(Nat))), fence: BOOLEAN]

LEMMA EmitTypes ==
  ASSUME NEW d, NEW acc \in HeadingReader
  PROVE  Emit(d, acc) \in HeadingReader
  <1>. USE DEF HeadingReader, Pair
  <1>1. CASE ~ HasText(d, acc.a)
    BY <1>1 DEF Emit
  <1>2. CASE HasText(d, acc.a)
    <2>. DEFINE more == IF Asks(d, acc.stack)
                        THEN Append(acc.pairs, [q |-> acc.stack, a |-> acc.a]) ELSE acc.pairs
    <2>1. Emit(d, acc) = [stack |-> acc.stack, a |-> <<>>, pairs |-> more, fence |-> acc.fence]
      BY <1>2 DEF Emit
    <2>2. more \in Seq(Pair(Seq(Nat)))
      <3>1. [q |-> acc.stack, a |-> acc.a] \in Pair(Seq(Nat)) /\ acc.pairs \in Seq(Pair(Seq(Nat)))
        OBVIOUS
      <3>. HIDE DEF Pair
      <3> QED
        BY <3>1
    <2>3. acc.stack \in Seq(Nat) /\ acc.fence \in BOOLEAN /\ <<>> \in Seq(Nat)
      OBVIOUS
    <2>. HIDE DEF more, Pair
    <2> QED
      BY <2>1, <2>2, <2>3
  <1> QED
    BY <1>1, <1>2

LEMMA ReadByHeadingTypes ==
  ASSUME NEW d, NEW acc \in HeadingReader, NEW i \in Nat
  PROVE  ReadByHeading(d, acc, i) \in HeadingReader
  <1>. DEFINE in == [acc EXCEPT !.fence = Toggle(acc.fence, d[i])]
  <1>1. in \in HeadingReader
    BY DEF HeadingReader, Toggle
  <1>. HIDE DEF in
  <1>2. CASE in.fence \/ d[i] \notin Headings
    <2>1. ReadByHeading(d, acc, i) = [in EXCEPT !.a = Append(in.a, i)]
      BY <1>2 DEF ReadByHeading, in
    <2>2. Append(in.a, i) \in Seq(Nat)
      BY <1>1 DEF HeadingReader
    <2>. DEFINE longer == Append(in.a, i)
    <2>. HIDE DEF longer
    <2>3. [in EXCEPT !.a = longer] \in HeadingReader
      BY <1>1, <2>2 DEF HeadingReader, longer
    <2> QED
      BY <2>1, <2>3 DEF longer
  <1>3. CASE ~ (in.fence \/ d[i] \notin Headings)
    <2>. DEFINE out == Emit(d, in)
    <2>1. out \in HeadingReader
      BY <1>1, EmitTypes
    <2>2. ReadByHeading(d, acc, i) = [out EXCEPT !.stack = Append(PopStack(d, out.stack, i), i)]
      BY <1>3 DEF ReadByHeading, in
    <2>. HIDE DEF out
    <2>3. PopStack(d, out.stack, i) \in Seq(Nat)
      <3>1. out.stack \in Seq(Nat)
        BY <2>1 DEF HeadingReader
      <3>2. {k \in DOMAIN out.stack : Level(d[out.stack[k]]) < Level(d[i])} \in SUBSET DOMAIN out.stack
        OBVIOUS
      <3> QED
        BY <3>1, <3>2, KeptIn DEF PopStack
    <2>. DEFINE path == Append(PopStack(d, out.stack, i), i)
    <2>4. path \in Seq(Nat)
      BY <2>3
    <2>. HIDE DEF path
    <2>5. [out EXCEPT !.stack = path] \in HeadingReader
      BY <2>1, <2>4 DEF HeadingReader
    <2> QED
      BY <2>2, <2>5 DEF path
  <1> QED
    BY <1>2, <1>3

FreshHeadingReader == [stack |-> <<>>, a |-> <<>>, pairs |-> <<>>, fence |-> FALSE]

\* f[k] is what the reader keeps after k lines.
ReadsHeadings(d, f) ==
    /\ f \in [0..Len(d) -> HeadingReader]
    /\ f[0] = FreshHeadingReader
    /\ \A k \in 1..Len(d) : f[k] = ReadByHeading(d, f[k - 1], k)
    /\ ByHeadings(d) = Emit(d, f[Len(d)]).pairs

LEMMA HeadingsAreRead ==
  ASSUME NEW d \in Seq(QaLines)
  PROVE  \E f : ReadsHeadings(d, f)
  <1>. DEFINE n == Len(d)
              A == HeadingReader
              base == FreshHeadingReader
              Step(acc, k) == ReadByHeading(d, acc, k)
              g == [p \in A \X (1..n) |-> Step(p[1], p[2])]
              places == [k \in DOMAIN d |-> k]
              IsRead(it) == it = [s \in SUBSET (1..n) |->
                                    IF s = {} THEN base ELSE Step(it[s \ {Max(s)}], places[Max(s)])]
              read == CHOOSE it : IsRead(it)
  <1>1. n \in Nat /\ DOMAIN d = 1..n /\ \A k \in 1..n : places[k] = k
    OBVIOUS
  <1>2. base \in A
    BY DEF FreshHeadingReader, HeadingReader
  <1>3. \A acc \in A, k \in 1..n : Step(acc, k) \in A
    BY <1>1, ReadByHeadingTypes
  <1>4. \A s \in SUBSET (1..n) : s # {} => Max(s) \in 1..n
    BY <1>1, MaxOfPlaces
  <1>. HIDE DEF A, base, Step, n
  <1>5. g \in [A \X (1..n) -> A] /\ \A acc \in A, k \in 1..n : g[<<acc, k>>] = Step(acc, k)
    BY <1>3
  <1>. HIDE DEF g
  <1>6. \E it : IsRead(it)
    <2>1. PICK it \in [SUBSET (1..n) -> A] :
            /\ it[{}] = base
            /\ \A s \in SUBSET (1..n) : s # {} => it[s] = g[<<it[s \ {Max(s)}], Max(s)>>]
      <3>1. HasSteps(A, base, g, n)
        BY <1>1, <1>2, <1>5, FoldHasSteps
      <3> QED
        BY <3>1 DEF HasSteps
    <2>2. \A s \in SUBSET (1..n) : s # {} => it[s] = Step(it[s \ {Max(s)}], places[Max(s)])
      BY <1>1, <1>4, <1>5, <2>1
    <2>3. IsRead(it)
      BY <2>1, <2>2
    <2> QED
      BY <2>3
  <1>7. IsRead(read)
    BY <1>6
  <1>8. ByHeadings(d) = Emit(d, read[1..n]).pairs
    <2>1. DOMAIN places = 1..n
      BY <1>1
    <2> QED
      BY Zenon, <2>1 DEF ByHeadings, FoldLeft, MapThenFoldSet, read, base, Step, FreshHeadingReader
  <1>. HIDE DEF read
  <1>9. /\ read[{}] = base
        /\ \A s \in SUBSET (1..n) : s # {} /\ read[s \ {Max(s)}] \in A =>
               read[s] = g[<<read[s \ {Max(s)}], Max(s)>>]
    BY <1>1, <1>4, <1>5, <1>7
  <1>10. PICK f \in [0..n -> A] :
           f[0] = base /\ f[n] = read[1..n] /\ \A k \in 1..n : f[k] = g[<<f[k - 1], k>>]
    <2>1. HasPrefixes(A, base, g, n, read)
      BY <1>1, <1>2, <1>5, <1>9, FoldByPrefixes
    <2> QED
      BY <2>1 DEF HasPrefixes
  <1>11. \A k \in 1..n : f[k] = Step(f[k - 1], k)
    <2>1. \A k \in 1..n : k - 1 \in 0..n
      BY <1>1
    <2> QED
      BY <1>5, <1>10, <2>1
  <1>12. ReadsHeadings(d, f)
    BY <1>8, <1>10, <1>11 DEF ReadsHeadings, A, base, Step, n
  <1> QED
    BY <1>12

-----------------------------------------------------------------------------
(* Pairs made from headings                                                 *)

FencesUpTo(d, k) == Cardinality({i \in 1..k : d[i] = "fence"})

\* A fence line turns the count of the fences from even to odd and back.
LEMMA FencesAlternate ==
  ASSUME NEW d \in Seq(QaLines), NEW k \in 1..Len(d), NEW fence \in BOOLEAN,
         fence <=> FencesUpTo(d, k - 1) % 2 = 1
  PROVE  Toggle(fence, d[k]) <=> FencesUpTo(d, k) % 2 = 1
  <1>. DEFINE T == {i \in 1..(k - 1) : d[i] = "fence"}
              U == {i \in 1..k : d[i] = "fence"}
  <1>1. IsFiniteSet(T) /\ Cardinality(T) \in Nat
    <2>1. IsFiniteSet(1..(k - 1))
      BY FS_Interval
    <2> QED
      BY <2>1, FS_Subset, FS_CardinalityType
  <1>2. CASE d[k] = "fence"
    <2>1. U = T \cup {k} /\ k \notin T
      BY <1>2
    <2>. HIDE DEF T, U
    <2>2. Cardinality(U) = Cardinality(T) + 1
      BY <1>1, <2>1, FS_AddElement
    <2>3. Cardinality(U) % 2 = 1 <=> ~ (Cardinality(T) % 2 = 1)
      BY <1>1, <2>2
    <2> QED
      BY <1>2, <2>3 DEF Toggle, FencesUpTo, T, U
  <1>3. CASE d[k] # "fence"
    <2>1. U = T
      BY <1>3
    <2> QED
      BY <1>3, <2>1 DEF Toggle, FencesUpTo
  <1> QED
    BY <1>2, <1>3

LEMMA NoFences ==
  ASSUME NEW d
  PROVE  FencesUpTo(d, 0) = 0
  <1>1. {i \in 1..0 : d[i] = "fence"} = {}
    OBVIOUS
  <1>2. FencesUpTo(d, 0) = 0
    BY <1>1, FS_EmptySet DEF FencesUpTo
  <1> QED
    BY <1>2

LEMMA FencesIsNat ==
  ASSUME NEW d, NEW k \in Nat
  PROVE  FencesUpTo(d, k) \in Nat
  <1>1. IsFiniteSet(1..k)
    BY FS_Interval
  <1>2. IsFiniteSet({i \in 1..k : d[i] = "fence"})
    BY <1>1, FS_Subset
  <1> QED
    BY <1>2, FS_CardinalityType DEF FencesUpTo

\* A line the reader meets outside a fence is open.
LEMMA OpenLine ==
  ASSUME NEW d, NEW k \in Nat, d[k] # "fence"
  PROVE  Open(d, k) <=> ~ (FencesUpTo(d, k) % 2 = 1)
  <1>1. FencesUpTo(d, k) \in Nat
    BY FencesIsNat
  <1>2. FencesUpTo(d, k) % 2 = 0 <=> ~ (FencesUpTo(d, k) % 2 = 1)
    BY <1>1
  <1> QED
    BY <1>2 DEF Open, FencesUpTo

\* Path: what a heading closes, and what another line leaves
LEMMA PathSteps ==
  ASSUME NEW d \in Seq(QaLines), NEW k \in 1..Len(d)
  PROVE  /\ k \in Heads(d) =>
              Path(d, k + 1) = {h \in Path(d, k) : Level(d[h]) < Level(d[k])} \cup {k}
         /\ k \notin Heads(d) => Path(d, k + 1) = Path(d, k)
  <1>1. Heads(d) \in SUBSET (1..Len(d)) /\ Len(d) \in Nat
    BY DEF Heads
  <1>2. \A h \in Heads(d) : Level(d[h]) \in Nat
    BY DEF Level
  <1> QED
    BY <1>1, <1>2 DEF Path

LEMMA PathStays ==
  ASSUME NEW d \in Seq(QaLines), NEW k \in 0..Len(d), NEW j \in 1..k,
         \A g \in Heads(d) : g <= k => g < j
  PROVE  Path(d, j) = Path(d, k + 1)
  <1>1. Heads(d) \in SUBSET (1..Len(d)) /\ Len(d) \in Nat
    BY DEF Heads
  <1> QED
    BY <1>1 DEF Path

PairsArePaths(d, pairs) ==
    \A p \in DOMAIN pairs : Range(pairs[p].q) = Path(d, Last(pairs[p].a))

\* What the reader of headings keeps after k lines
HeadingsRead(d, k, acc) ==
    /\ acc.fence <=> FencesUpTo(d, k) % 2 = 1
    /\ Range(acc.stack) = Path(d, k + 1)
    /\ \A x \in DOMAIN acc.a :
          /\ acc.a[x] \in 1..k
          /\ \A y \in DOMAIN acc.a : x < y => acc.a[x] < acc.a[y]
          /\ d[acc.a[x]] # "blank" => \A g \in Heads(d) : g <= k => g < acc.a[x]
    /\ PairsArePaths(d, acc.pairs)

\* Emitting what has been collected makes a pair of the path it stands under.
LEMMA EmitMakesPath ==
  ASSUME NEW d \in Seq(QaLines), NEW k \in 0..Len(d), NEW acc \in HeadingReader,
         Range(acc.stack) = Path(d, k + 1), PairsArePaths(d, acc.pairs),
         \A x \in DOMAIN acc.a :
            /\ acc.a[x] \in 1..k
            /\ \A y \in DOMAIN acc.a : x < y => acc.a[x] < acc.a[y]
            /\ d[acc.a[x]] # "blank" => \A g \in Heads(d) : g <= k => g < acc.a[x]
  PROVE  /\ PairsArePaths(d, Emit(d, acc).pairs)
         /\ Emit(d, acc).stack = acc.stack /\ Emit(d, acc).fence = acc.fence
         /\ \/ Emit(d, acc).a = <<>>
            \/ Emit(d, acc).a = acc.a /\ \A x \in DOMAIN acc.a : d[acc.a[x]] = "blank"
  <1>1. CASE ~ HasText(d, acc.a)
    BY <1>1 DEF Emit, HasText, Range
  <1>2. CASE HasText(d, acc.a)
    <2>. DEFINE a == acc.a
                new == [q |-> acc.stack, a |-> a]
                more == IF Asks(d, acc.stack) THEN Append(acc.pairs, new) ELSE acc.pairs
    <2>1. Emit(d, acc) = [stack |-> acc.stack, a |-> <<>>, pairs |-> more, fence |-> acc.fence]
      BY <1>2 DEF Emit, HeadingReader
    <2>2. PICK x \in DOMAIN a : d[a[x]] # "blank"
      BY <1>2 DEF HasText, Range
    <2>3. a \in Seq(Nat) /\ Len(a) \in Nat /\ DOMAIN a = 1..Len(a) /\ acc.pairs \in Seq(Pair(Seq(Nat)))
      BY DEF HeadingReader
    <2>4. Last(a) = a[Len(a)] /\ Len(a) \in DOMAIN a /\ x <= Len(a) /\ x \in Nat
      BY <2>2, <2>3 DEF Last
    <2>5. a[x] <= Last(a) /\ Last(a) \in 1..k /\ a[x] \in Nat
      <3>1. CASE x = Len(a)
        BY <2>3, <2>4, <3>1
      <3>2. CASE x # Len(a)
        <4>1. x < Len(a)
          BY <2>3, <2>4, <3>2
        <4> QED
          BY SMTT(30), <2>2, <2>3, <2>4, <4>1
      <3> QED
        BY <3>1, <3>2
    <2>6. \A g \in Heads(d) : g <= k => g < Last(a)
      <3>1. Heads(d) \in SUBSET Nat
        BY DEF Heads
      <3> QED
        BY <2>2, <2>5, <3>1
    <2>7. Path(d, Last(a)) = Path(d, k + 1)
      BY <2>5, <2>6, PathStays
    <2>8. PairsArePaths(d, more)
      <3>1. CASE ~ Asks(d, acc.stack)
        BY <3>1
      <3>2. CASE Asks(d, acc.stack)
        <4>1. more = Append(acc.pairs, new)
          BY <3>2
        <4>2. Range(new.q) = Path(d, Last(new.a))
          BY <2>7
        <4>. HIDE DEF new, more
        <4>3. /\ DOMAIN more = 1..(Len(acc.pairs) + 1) /\ Len(acc.pairs) \in Nat
              /\ DOMAIN acc.pairs = 1..Len(acc.pairs)
              /\ more[Len(acc.pairs) + 1] = new
              /\ \A p \in DOMAIN acc.pairs : more[p] = acc.pairs[p]
          BY <2>3, <4>1
        <4>4. ASSUME NEW p \in DOMAIN more PROVE Range(more[p].q) = Path(d, Last(more[p].a))
          <5>1. CASE p = Len(acc.pairs) + 1
            BY <4>2, <4>3, <5>1
          <5>2. CASE p # Len(acc.pairs) + 1
            <6>1. p \in DOMAIN acc.pairs /\ more[p] = acc.pairs[p]
              BY <4>3, <5>2
            <6> QED
              BY <6>1 DEF PairsArePaths
          <5> QED
            BY <5>1, <5>2
        <4> QED
          BY <4>4 DEF PairsArePaths
      <3> QED
        BY <3>1, <3>2
    <2>. HIDE DEF more
    <2> QED
      BY <2>1, <2>8
  <1> QED
    BY <1>1, <1>2

LEMMA ReadKeepsHeadings ==
  ASSUME NEW d \in Seq(QaLines), NEW k \in 1..Len(d), NEW acc \in HeadingReader,
         HeadingsRead(d, k - 1, acc)
  PROVE  HeadingsRead(d, k, ReadByHeading(d, acc, k))
  <1>. DEFINE in == [acc EXCEPT !.fence = Toggle(acc.fence, d[k])]
              out == ReadByHeading(d, acc, k)
  <1>1. /\ k - 1 \in 0..Len(d) /\ k \in Nat /\ (k - 1) + 1 = k /\ Len(d) \in Nat
        /\ acc.fence \in BOOLEAN /\ Range(acc.stack) = Path(d, k)
        /\ acc.stack \in Seq(Nat) /\ acc.a \in Seq(Nat)
    BY DEF HeadingsRead, HeadingReader
  <1>2. /\ in \in HeadingReader /\ in.stack = acc.stack /\ in.a = acc.a /\ in.pairs = acc.pairs
        /\ in.fence = Toggle(acc.fence, d[k])
    BY DEF HeadingReader, Toggle
  <1>3. in.fence <=> FencesUpTo(d, k) % 2 = 1
    BY <1>1, <1>2, FencesAlternate DEF HeadingsRead
  <1>4. k \in Heads(d) <=> ~ (in.fence \/ d[k] \notin Headings)
    BY <1>1, <1>3, OpenLine DEF Heads, Headings
  <1>5. Heads(d) \in SUBSET Nat
    BY DEF Heads
  <1>6. CASE in.fence \/ d[k] \notin Headings
    <2>1. out = [in EXCEPT !.a = Append(in.a, k)]
      BY <1>6 DEF ReadByHeading
    <2>. DEFINE longer == Append(in.a, k)
    <2>2. /\ out.stack = in.stack /\ out.a = longer /\ out.pairs = in.pairs /\ out.fence = in.fence
      BY <1>2, <2>1 DEF HeadingReader
    <2>. HIDE DEF in, out
    <2>3. Path(d, k + 1) = Path(d, k)
      BY <1>4, <1>6, PathSteps
    <2>4. ASSUME NEW x \in DOMAIN longer
          PROVE  /\ longer[x] \in 1..k
                 /\ \A y \in DOMAIN longer : x < y => longer[x] < longer[y]
                 /\ d[longer[x]] # "blank" => \A g \in Heads(d) : g <= k => g < longer[x]
      <3>1. /\ Len(acc.a) \in Nat /\ DOMAIN longer = 1..(Len(acc.a) + 1) /\ DOMAIN acc.a = 1..Len(acc.a)
            /\ longer[Len(acc.a) + 1] = k /\ \A y \in DOMAIN acc.a : longer[y] = acc.a[y]
        BY <1>1, <1>2
      <3>2. \A y \in DOMAIN acc.a :
              /\ acc.a[y] \in 1..(k - 1)
              /\ \A z \in DOMAIN acc.a : y < z => acc.a[y] < acc.a[z]
              /\ d[acc.a[y]] # "blank" => \A g \in Heads(d) : g <= k - 1 => g < acc.a[y]
        BY DEF HeadingsRead
      <3>3. \A g \in Heads(d) : g <= k => g <= k - 1
        BY <1>1, <1>4, <1>5, <1>6
      <3>. HIDE DEF longer
      <3>4. CASE x = Len(acc.a) + 1
        <4>1. \A y \in DOMAIN longer : ~ (x < y)
          BY <3>1, <3>4
        <4>2. \A g \in Heads(d) : g <= k => g < k
          BY <1>1, <1>5, <3>3
        <4> QED
          BY <1>1, <3>1, <3>4, <4>1, <4>2
      <3>5. CASE x # Len(acc.a) + 1
        <4>1. x \in DOMAIN acc.a /\ longer[x] = acc.a[x] /\ acc.a[x] \in 1..(k - 1)
          BY <3>1, <3>2, <3>5
        <4>2. ASSUME NEW y \in DOMAIN longer, x < y PROVE longer[x] < longer[y]
          <5>1. CASE y = Len(acc.a) + 1
            BY <1>1, <3>1, <4>1, <5>1
          <5>2. CASE y # Len(acc.a) + 1
            <6>1. y \in DOMAIN acc.a /\ longer[y] = acc.a[y]
              BY <3>1, <5>2
            <6> QED
              BY <3>2, <4>1, <4>2, <6>1
          <5> QED
            BY <5>1, <5>2
        <4>3. d[acc.a[x]] # "blank" => \A g \in Heads(d) : g <= k => g < acc.a[x]
          BY <3>2, <3>3, <4>1
        <4>4. longer[x] \in 1..k
          BY <1>1, <4>1
        <4> QED
          BY <4>1, <4>2, <4>3, <4>4
      <3> QED
        BY <3>4, <3>5
    <2>5. PairsArePaths(d, out.pairs)
      BY <1>2, <2>2 DEF HeadingsRead
    <2>. HIDE DEF longer
    <2> QED
      BY <1>1, <1>2, <1>3, <2>2, <2>3, <2>4, <2>5 DEF HeadingsRead, out
  <1>7. CASE ~ (in.fence \/ d[k] \notin Headings)
    <2>. DEFINE e == Emit(d, in)
                rest == PopStack(d, e.stack, k)
                path == Append(rest, k)
    <2>1. e \in HeadingReader
      BY <1>2, EmitTypes
    <2>2. out = [e EXCEPT !.stack = path]
      BY <1>7 DEF ReadByHeading
    <2>3. /\ PairsArePaths(d, e.pairs) /\ e.stack = acc.stack /\ e.fence = in.fence
          /\ e.a = <<>> \/ (e.a = acc.a /\ \A x \in DOMAIN acc.a : d[acc.a[x]] = "blank")
      <3>1. /\ Range(in.stack) = Path(d, (k - 1) + 1) /\ PairsArePaths(d, in.pairs)
            /\ \A x \in DOMAIN in.a :
                  /\ in.a[x] \in 1..(k - 1)
                  /\ \A y \in DOMAIN in.a : x < y => in.a[x] < in.a[y]
                  /\ d[in.a[x]] # "blank" => \A g \in Heads(d) : g <= k - 1 => g < in.a[x]
        BY <1>1, <1>2 DEF HeadingsRead
      <3>. HIDE DEF in
      <3>2. /\ PairsArePaths(d, Emit(d, in).pairs)
            /\ Emit(d, in).stack = in.stack /\ Emit(d, in).fence = in.fence
            /\ \/ Emit(d, in).a = <<>>
               \/ Emit(d, in).a = in.a /\ \A x \in DOMAIN in.a : d[in.a[x]] = "blank"
        BY <1>1, <1>2, <3>1, EmitMakesPath
      <3> QED
        BY <1>2, <3>2
    <2>. HIDE DEF in, e
    <2>4. Range(path) = Path(d, k + 1)
      <3>. DEFINE st == acc.stack
                  I == {x \in DOMAIN st : Level(d[st[x]]) < Level(d[k])}
      <3>1. rest = Kept(st, I)
        BY <2>3 DEF PopStack
      <3>2. st \in Seq(Nat) /\ I \in SUBSET DOMAIN st
        BY DEF HeadingReader
      <3>. HIDE DEF I, st
      <3>5. Range(Kept(st, I)) = {st[i] : i \in I} /\ Kept(st, I) \in Seq(Nat)
        BY <3>2, KeptRange
      <3>6. {st[i] : i \in I} = {h \in Path(d, k) : Level(d[h]) < Level(d[k])}
        BY <1>1 DEF I, Range, st
      <3>7. rest \in Seq(Nat)
        BY <3>1, <3>5
      <3>8. Range(path) = Range(rest) \cup {k}
        <4>. HIDE DEF rest
        <4>1. /\ Len(rest) \in Nat /\ DOMAIN path = 1..(Len(rest) + 1) /\ DOMAIN rest = 1..Len(rest)
              /\ path[Len(rest) + 1] = k /\ \A x \in DOMAIN rest : path[x] = rest[x]
          BY <3>7
        <4>. HIDE DEF path
        <4>2. DOMAIN path = DOMAIN rest \cup {Len(rest) + 1}
          BY <4>1
        <4> QED
          BY ZenonT(60), <4>1, <4>2 DEF Range
      <3>9. Path(d, k + 1) = {h \in Path(d, k) : Level(d[h]) < Level(d[k])} \cup {k}
        BY <1>4, <1>7, PathSteps
      <3> QED
        BY <3>1, <3>5, <3>6, <3>8, <3>9
    <2>. HIDE DEF path
    <2>5. /\ out.stack = path /\ out.a = e.a /\ out.pairs = e.pairs /\ out.fence = e.fence
      BY <2>1, <2>2 DEF HeadingReader
    <2>. HIDE DEF out
    <2>6. ASSUME NEW x \in DOMAIN e.a
          PROVE  /\ e.a[x] \in 1..k
                 /\ \A y \in DOMAIN e.a : x < y => e.a[x] < e.a[y]
                 /\ d[e.a[x]] = "blank"
      <3>1. e.a = acc.a /\ d[acc.a[x]] = "blank"
        BY <2>3
      <3>2. acc.a[x] \in 1..(k - 1) /\ \A y \in DOMAIN acc.a : x < y => acc.a[x] < acc.a[y]
        BY <3>1 DEF HeadingsRead
      <3> QED
        BY <1>1, <3>1, <3>2
    <2> QED
      BY <1>3, <2>3, <2>4, <2>5, <2>6 DEF HeadingsRead, out
  <1> QED
    BY <1>6, <1>7

-----------------------------------------------------------------------------
(* Pairs made from prefixes                                                 *)

LEMMA FlushTypes ==
  ASSUME NEW acc \in PrefixReader
  PROVE  /\ Flush(acc) \in PrefixReader
         /\ Flush(acc).q = 0 /\ Flush(acc).fence = acc.fence
         /\ acc.q = 0 => Flush(acc) = acc
         /\ acc.q # 0 =>
              Flush(acc).a = <<>> /\ Flush(acc).pairs = Append(acc.pairs, [q |-> acc.q, a |-> acc.a])
  <1>. DEFINE new == [q |-> acc.q, a |-> acc.a]
              more == Append(acc.pairs, new)
  <1>1. /\ acc.q \in Nat /\ acc.a \in Seq(Nat) /\ acc.pairs \in Seq(Pair(Nat)) /\ acc.fence \in BOOLEAN
        /\ acc = [q |-> acc.q, a |-> acc.a, pairs |-> acc.pairs, fence |-> acc.fence]
    BY DEF PrefixReader
  <1>2. new \in Pair(Nat)
    BY <1>1 DEF Pair
  <1>3. more \in Seq(Pair(Nat))
    <2>. HIDE DEF new
    <2> QED
      BY <1>1, <1>2
  <1>4. CASE acc.q = 0
    BY <1>1, <1>4 DEF Flush
  <1>5. CASE acc.q # 0
    <2>1. Flush(acc) = [q |-> 0, a |-> <<>>, pairs |-> more, fence |-> acc.fence]
      BY <1>1, <1>5 DEF Flush
    <2>. HIDE DEF more
    <2>2. /\ Flush(acc).q = 0 /\ Flush(acc).fence = acc.fence /\ Flush(acc).a = <<>>
          /\ Flush(acc).pairs = more
      BY <2>1
    <2>3. Flush(acc) \in PrefixReader
      <3>1. <<>> \in Seq(Nat) /\ 0 \in Nat
        OBVIOUS
      <3> QED
        BY <1>1, <1>3, <2>1, <3>1 DEF PrefixReader
    <2> QED
      BY <1>5, <2>2, <2>3 DEF more
  <1> QED
    BY <1>4, <1>5

\* What reading a line makes of the reader's state, part by part
Toggled(d, acc, i) == [acc EXCEPT !.fence = Toggle(acc.fence, d[i])]
StopsAt(d, in, i) == ~ (d[i] = "fence" \/ in.fence) /\ d[i] \in {"Q", "emptyQ"} \cup Headings
ReadParts(d, acc, i, in, out) ==
    /\ in \in PrefixReader /\ out \in PrefixReader
    /\ in.q = acc.q /\ in.a = acc.a /\ in.pairs = acc.pairs
    /\ in.fence = Toggle(acc.fence, d[i]) /\ out.fence = in.fence
    /\ StopsAt(d, in, i) =>
          /\ out.q = IF d[i] = "Q" THEN i ELSE 0
          /\ out.a = Flush(in).a /\ out.pairs = Flush(in).pairs
    /\ ~ StopsAt(d, in, i) =>
          /\ out.q = acc.q /\ out.pairs = acc.pairs
          /\ out.a = IF acc.q = 0 THEN acc.a ELSE Append(acc.a, i)

LEMMA ReadByPrefixParts ==
  ASSUME NEW d, NEW acc \in PrefixReader, NEW i \in Nat
  PROVE  ReadParts(d, acc, i, Toggled(d, acc, i), ReadByPrefix(d, acc, i))
  <1>. DEFINE in   == Toggled(d, acc, i)
              stop == StopsAt(d, in, i)
              out  == ReadByPrefix(d, acc, i)
  <1>. USE DEF StopsAt
  <1>1. /\ in \in PrefixReader /\ in.q = acc.q /\ in.a = acc.a /\ in.pairs = acc.pairs
        /\ in.fence = Toggle(acc.fence, d[i])
    BY DEF PrefixReader, Toggle, Toggled
  <1>2. out = IF d[i] = "fence" \/ in.fence THEN AddLine(in, i)
              ELSE IF d[i] = "Q" THEN [Flush(in) EXCEPT !.q = i]
              ELSE IF d[i] = "emptyQ" THEN Flush(in)
              ELSE IF d[i] \in Headings THEN OnHeading(in)
              ELSE AddLine(in, i)
    BY DEF ReadByPrefix, Toggled
  <1>. HIDE DEF in, out
  <1>. DEFINE longer == IF in.q = 0 THEN in.a ELSE Append(in.a, i)
              added == [in EXCEPT !.a = longer]
  <1>3. AddLine(in, i) = added
    <2>1. CASE in.q = 0
      BY <1>1, <2>1 DEF AddLine, PrefixReader
    <2>2. CASE in.q # 0
      BY <2>2 DEF AddLine
    <2> QED
      BY <2>1, <2>2
  <1>4. longer \in Seq(Nat)
    BY <1>1 DEF PrefixReader
  <1>. HIDE DEF longer
  <1>5. added \in PrefixReader /\ added.q = in.q /\ added.pairs = in.pairs /\ added.fence = in.fence
        /\ added.a = longer
    BY <1>1, <1>4 DEF PrefixReader
  <1>. HIDE DEF added
  <1>6. Flush(in) \in PrefixReader /\ Flush(in).q = 0 /\ Flush(in).fence = in.fence
    BY <1>1, FlushTypes
  <1>7. CASE stop
    <2>1. CASE d[i] = "Q"
      <3>1. out = [Flush(in) EXCEPT !.q = i]
        BY <1>2, <1>7, <2>1
      <3> QED
        BY <1>1, <1>6, <1>7, <2>1, <3>1 DEF PrefixReader, ReadParts, in, out
    <2>2. CASE d[i] # "Q"
      <3>1. out = Flush(in)
        BY <1>2, <1>7, <2>2 DEF OnHeading
      <3> QED
        BY <1>1, <1>6, <1>7, <2>2, <3>1 DEF ReadParts, in, out
    <2> QED
      BY <2>1, <2>2
  <1>8. CASE ~ stop
    <2>1. out = added
      BY <1>2, <1>3, <1>8
    <2>2. longer = IF acc.q = 0 THEN acc.a ELSE Append(acc.a, i)
      BY <1>1 DEF longer
    <2> QED
      BY <1>1, <1>5, <1>8, <2>1, <2>2 DEF ReadParts, in, out
  <1> QED
    BY <1>7, <1>8 DEF ReadParts, in, out

FreshPrefixReader == [q |-> 0, a |-> <<>>, pairs |-> <<>>, fence |-> FALSE]

TextPairs(d, pairs) == Kept(pairs, {k \in DOMAIN pairs : HasText(d, pairs[k].a)})

\* f[k] is what the reader keeps after k lines.
ReadsPrefixes(d, f) ==
    /\ f \in [0..Len(d) -> PrefixReader]
    /\ f[0] = FreshPrefixReader
    /\ \A k \in 1..Len(d) : f[k] = ReadByPrefix(d, f[k - 1], k)
    /\ ByPrefix(d) = TextPairs(d, Flush(f[Len(d)]).pairs)

LEMMA PrefixesAreRead ==
  ASSUME NEW d \in Seq(QaLines)
  PROVE  \E f : ReadsPrefixes(d, f)
  <1>. DEFINE n == Len(d)
              A == PrefixReader
              base == FreshPrefixReader
              Step(acc, k) == ReadByPrefix(d, acc, k)
              g == [p \in A \X (1..n) |-> Step(p[1], p[2])]
              places == [k \in DOMAIN d |-> k]
              IsRead(it) == it = [s \in SUBSET (1..n) |->
                                    IF s = {} THEN base ELSE Step(it[s \ {Max(s)}], places[Max(s)])]
              read == CHOOSE it : IsRead(it)
  <1>1. n \in Nat /\ DOMAIN d = 1..n /\ \A k \in 1..n : places[k] = k
    OBVIOUS
  <1>2. base \in A
    BY DEF FreshPrefixReader, PrefixReader
  <1>3. \A acc \in A, k \in 1..n : Step(acc, k) \in A
    <2>1. ASSUME NEW acc \in A, NEW k \in 1..n PROVE Step(acc, k) \in A
      <3>1. ReadParts(d, acc, k, Toggled(d, acc, k), ReadByPrefix(d, acc, k))
        BY <1>1, ReadByPrefixParts
      <3> QED
        BY <3>1 DEF ReadParts
    <2> QED
      BY <2>1
  <1>4. \A s \in SUBSET (1..n) : s # {} => Max(s) \in 1..n
    BY <1>1, MaxOfPlaces
  <1>. HIDE DEF A, base, Step, n
  <1>5. g \in [A \X (1..n) -> A] /\ \A acc \in A, k \in 1..n : g[<<acc, k>>] = Step(acc, k)
    BY <1>3
  <1>. HIDE DEF g
  <1>6. \E it : IsRead(it)
    <2>1. PICK it \in [SUBSET (1..n) -> A] :
            /\ it[{}] = base
            /\ \A s \in SUBSET (1..n) : s # {} => it[s] = g[<<it[s \ {Max(s)}], Max(s)>>]
      <3>1. HasSteps(A, base, g, n)
        BY <1>1, <1>2, <1>5, FoldHasSteps
      <3> QED
        BY <3>1 DEF HasSteps
    <2>2. \A s \in SUBSET (1..n) : s # {} => it[s] = Step(it[s \ {Max(s)}], places[Max(s)])
      BY <1>1, <1>4, <1>5, <2>1
    <2>3. IsRead(it)
      BY <2>1, <2>2
    <2> QED
      BY <2>3
  <1>7. IsRead(read)
    BY <1>6
  <1>8. ByPrefix(d) = TextPairs(d, Flush(read[1..n]).pairs)
    <2>1. DOMAIN places = 1..n
      BY <1>1
    <2> QED
      BY Zenon, <2>1 DEF ByPrefix, FoldLeft, MapThenFoldSet, read, base, Step, FreshPrefixReader, TextPairs
  <1>. HIDE DEF read
  <1>9. /\ read[{}] = base
        /\ \A s \in SUBSET (1..n) : s # {} /\ read[s \ {Max(s)}] \in A =>
               read[s] = g[<<read[s \ {Max(s)}], Max(s)>>]
    BY <1>1, <1>4, <1>5, <1>7
  <1>10. PICK f \in [0..n -> A] :
           f[0] = base /\ f[n] = read[1..n] /\ \A k \in 1..n : f[k] = g[<<f[k - 1], k>>]
    <2>1. HasPrefixes(A, base, g, n, read)
      BY <1>1, <1>2, <1>5, <1>9, FoldByPrefixes
    <2> QED
      BY <2>1 DEF HasPrefixes
  <1>11. \A k \in 1..n : f[k] = Step(f[k - 1], k)
    <2>1. \A k \in 1..n : k - 1 \in 0..n
      BY <1>1
    <2> QED
      BY <1>5, <1>10, <2>1
  <1>12. ReadsPrefixes(d, f)
    BY <1>8, <1>10, <1>11 DEF ReadsPrefixes, A, base, Step, n
  <1> QED
    BY <1>12

\* The questions up to line k, and what the reader has made of them
Asked(d, k) == {q \in Stops(d) : q <= k /\ d[q] = "Q"}
PairsAreSections(d, pairs, asked) ==
    /\ {pairs[p].q : p \in DOMAIN pairs} = asked
    /\ \A p \in DOMAIN pairs : Range(pairs[p].a) = AnswerTo(d, pairs[p].q)
SectionsRead(d, k, acc) ==
    /\ acc.q = 0 => acc.a = <<>> /\ PairsAreSections(d, acc.pairs, Asked(d, k))
    /\ acc.q # 0 =>
         /\ acc.q \in Asked(d, k) /\ \A s \in Stops(d) : s <= k => s <= acc.q
         /\ Range(acc.a) = (acc.q + 1)..k
         /\ PairsAreSections(d, acc.pairs, Asked(d, k) \ {acc.q})

\* The answer is complete when the next line stops it, or at the end.
LEMMA FlushMakesSection ==
  ASSUME NEW d \in Seq(QaLines), NEW k \in 0..Len(d), NEW acc \in PrefixReader,
         SectionsRead(d, k, acc), k = Len(d) \/ k + 1 \in Stops(d)
  PROVE  PairsAreSections(d, Flush(acc).pairs, Asked(d, k)) /\ Flush(acc).a = <<>>
  <1>1. Stops(d) \in SUBSET (1..Len(d)) /\ Len(d) \in Nat
    BY DEF Stops
  <1>2. CASE acc.q = 0
    BY <1>2, FlushTypes DEF SectionsRead
  <1>3. CASE acc.q # 0
    <2>. DEFINE new == [q |-> acc.q, a |-> acc.a]
                more == Append(acc.pairs, new)
    <2>1. Flush(acc).a = <<>> /\ Flush(acc).pairs = more
      BY <1>3, FlushTypes
    <2>2. /\ acc.q \in Asked(d, k) /\ \A s \in Stops(d) : s <= k => s <= acc.q
          /\ Range(acc.a) = (acc.q + 1)..k
          /\ PairsAreSections(d, acc.pairs, Asked(d, k) \ {acc.q})
      BY <1>3 DEF SectionsRead
    <2>3. AnswerTo(d, acc.q) = (acc.q + 1)..k
      BY <1>1, <2>2 DEF AnswerTo, Asked
    <2>4. new.q = acc.q /\ new.a = acc.a /\ acc.pairs \in Seq(Pair(Nat))
      BY DEF PrefixReader
    <2>. HIDE DEF new
    <2>5. /\ DOMAIN more = DOMAIN acc.pairs \cup {Len(acc.pairs) + 1}
          /\ more[Len(acc.pairs) + 1] = new
          /\ \A p \in DOMAIN acc.pairs : more[p] = acc.pairs[p]
      BY <2>4
    <2>. HIDE DEF more
    <2>6. {more[p].q : p \in DOMAIN more} = Asked(d, k)
      <3>1. {more[p].q : p \in DOMAIN more} = {acc.pairs[p].q : p \in DOMAIN acc.pairs} \cup {acc.q}
        BY Zenon, <2>4, <2>5
      <3> QED
        BY <2>2, <3>1 DEF PairsAreSections
    <2>7. ASSUME NEW p \in DOMAIN more PROVE Range(more[p].a) = AnswerTo(d, more[p].q)
      BY <2>2, <2>3, <2>4, <2>5 DEF PairsAreSections
    <2> QED
      BY <2>1, <2>6, <2>7 DEF PairsAreSections
  <1> QED
    BY <1>2, <1>3

LEMMA ReadKeepsSections ==
  ASSUME NEW d \in Seq(QaLines), NEW k \in 1..Len(d), NEW acc \in PrefixReader,
         acc.fence <=> FencesUpTo(d, k - 1) % 2 = 1, SectionsRead(d, k - 1, acc)
  PROVE  /\ ReadByPrefix(d, acc, k).fence <=> FencesUpTo(d, k) % 2 = 1
         /\ SectionsRead(d, k, ReadByPrefix(d, acc, k))
  <1>. DEFINE in == Toggled(d, acc, k)
              stop == StopsAt(d, in, k)
              out == ReadByPrefix(d, acc, k)
  <1>1. /\ k - 1 \in 0..Len(d) /\ k \in Nat /\ (k - 1) + 1 = k /\ Len(d) \in Nat
        /\ acc.fence \in BOOLEAN /\ acc.a \in Seq(Nat) /\ acc.q \in Nat
    BY DEF PrefixReader
  <1>2. /\ in \in PrefixReader /\ out \in PrefixReader
        /\ in.q = acc.q /\ in.a = acc.a /\ in.pairs = acc.pairs
        /\ in.fence = Toggle(acc.fence, d[k]) /\ out.fence = in.fence
        /\ stop => /\ out.q = IF d[k] = "Q" THEN k ELSE 0
                   /\ out.a = Flush(in).a /\ out.pairs = Flush(in).pairs
        /\ ~ stop => /\ out.q = acc.q /\ out.pairs = acc.pairs
                     /\ out.a = IF acc.q = 0 THEN acc.a ELSE Append(acc.a, k)
    BY ZenonT(60), <1>1, ReadByPrefixParts DEF ReadParts
  <1>3. in.fence <=> FencesUpTo(d, k) % 2 = 1
    BY <1>1, <1>2, FencesAlternate
  <1>4. stop <=> k \in Stops(d)
    BY <1>1, <1>3, OpenLine DEF Stops, Open, StopsAt
  <1>5. Stops(d) \in SUBSET (1..Len(d))
    BY DEF Stops
  <1>6. SectionsRead(d, k - 1, in)
    <2>. HIDE DEF in
    <2> QED
      BY <1>2 DEF SectionsRead
  <1>. HIDE DEF in, out, stop
  <1>7. CASE stop
    <2>1. /\ PairsAreSections(d, Flush(in).pairs, Asked(d, k - 1))
          /\ Flush(in).a = <<>>
      BY <1>1, <1>2, <1>4, <1>6, <1>7, FlushMakesSection
    <2>2. CASE d[k] = "Q"
      <3>1. k \in Asked(d, k) /\ Asked(d, k) \ {k} = Asked(d, k - 1)
        BY <1>1, <1>4, <1>5, <1>7, <2>2 DEF Asked
      <3>2. out.q = k /\ out.a = <<>> /\ out.pairs = Flush(in).pairs /\ k # 0
        BY <1>1, <1>2, <1>7, <2>1, <2>2
      <3>3. Range(<<>>) = {} /\ (k + 1)..k = {}
        BY <1>1 DEF Range
      <3>4. \A s \in Stops(d) : s <= k => s <= out.q
        BY <3>2
      <3> QED
        BY <1>2, <1>3, <2>1, <3>1, <3>2, <3>3, <3>4 DEF SectionsRead, out
    <2>3. CASE d[k] # "Q"
      <3>1. Asked(d, k) = Asked(d, k - 1)
        BY <1>1, <1>5, <2>3 DEF Asked
      <3>2. out.q = 0 /\ out.a = <<>> /\ out.pairs = Flush(in).pairs
        BY <1>2, <1>7, <2>1, <2>3
      <3> QED
        BY <1>2, <1>3, <2>1, <3>1, <3>2 DEF SectionsRead, out
    <2> QED
      BY <2>2, <2>3
  <1>8. CASE ~ stop
    <2>1. /\ Asked(d, k) = Asked(d, k - 1)
          /\ \A s \in Stops(d) : s <= k => s <= k - 1
      BY <1>1, <1>4, <1>5, <1>8 DEF Asked
    <2>2. out.q = acc.q /\ out.pairs = acc.pairs /\ out.a = IF acc.q = 0 THEN acc.a ELSE Append(acc.a, k)
      BY <1>2, <1>8
    <2>3. CASE acc.q = 0
      BY <1>2, <1>3, <2>1, <2>2, <2>3 DEF SectionsRead, out
    <2>4. CASE acc.q # 0
      <3>. DEFINE longer == Append(acc.a, k)
      <3>1. /\ acc.q \in Asked(d, k - 1) /\ \A s \in Stops(d) : s <= k - 1 => s <= acc.q
            /\ Range(acc.a) = (acc.q + 1)..(k - 1)
            /\ PairsAreSections(d, acc.pairs, Asked(d, k - 1) \ {acc.q})
        BY <2>4 DEF SectionsRead
      <3>2. Range(longer) = Range(acc.a) \cup {k}
        <4>1. /\ DOMAIN longer = DOMAIN acc.a \cup {Len(acc.a) + 1}
              /\ longer[Len(acc.a) + 1] = k /\ \A x \in DOMAIN acc.a : longer[x] = acc.a[x]
          BY SMTT(30), <1>1
        <4>. HIDE DEF longer
        <4> QED
          BY Zenon, <4>1 DEF Range
      <3>3. acc.q <= k - 1
        BY <3>1 DEF Asked
      <3>4. Range(longer) = (acc.q + 1)..k
        BY <1>1, <3>1, <3>2, <3>3
      <3>5. out.a = longer
        BY <2>2, <2>4
      <3>. HIDE DEF longer
      <3> QED
        BY <1>2, <1>3, <2>1, <2>2, <2>4, <3>1, <3>4, <3>5 DEF SectionsRead, out
    <2> QED
      BY <2>3, <2>4
  <1> QED
    BY <1>7, <1>8

\* Whatever the document: each question gets the lines up to the next question
\* or heading, fenced lines counted as text.
LEMMA SectionsOfDocument ==
  ASSUME NEW d \in Seq(QaLines)
  PROVE  /\ {ByPrefix(d)[k].q : k \in DOMAIN ByPrefix(d)} =
                {q \in Stops(d) : d[q] = "Q" /\ \E i \in AnswerTo(d, q) : d[i] # "blank"}
         /\ \A k \in DOMAIN ByPrefix(d) : Range(ByPrefix(d)[k].a) = AnswerTo(d, ByPrefix(d)[k].q)
  <1>. DEFINE n == Len(d)
  <1>1. n \in Nat /\ Stops(d) \in SUBSET (1..n)
    BY DEF Stops
  <1>2. PICK f : ReadsPrefixes(d, f)
    BY PrefixesAreRead
  <1>3. \A k \in 0..n : f[k] \in PrefixReader
    BY <1>2 DEF ReadsPrefixes
  <1>. DEFINE T == {k \in 0..n : (f[k].fence <=> FencesUpTo(d, k) % 2 = 1) /\ SectionsRead(d, k, f[k])}
  <1>4. 0 \in T
    <2>1. f[0].q = 0 /\ f[0].a = <<>> /\ f[0].pairs = <<>> /\ f[0].fence = FALSE
      BY <1>2 DEF ReadsPrefixes, FreshPrefixReader
    <2>2. Asked(d, 0) = {}
      BY <1>1 DEF Asked
    <2>3. PairsAreSections(d, f[0].pairs, {})
      <3>1. \A p \in DOMAIN f[0].pairs : FALSE
        BY <2>1
      <3> QED
        BY <3>1 DEF PairsAreSections
    <2>4. ~ (FencesUpTo(d, 0) % 2 = 1)
      BY NoFences
    <2>5. SectionsRead(d, 0, f[0])
      BY <2>1, <2>2, <2>3 DEF SectionsRead
    <2>. HIDE DEF n
    <2> QED
      BY <1>1, <2>1, <2>4, <2>5
  <1>5. ASSUME NEW k \in 1..n, k - 1 \in T PROVE k \in T
    <2>1. k - 1 \in 0..n /\ k \in 0..n
      BY <1>1
    <2>2. f[k] = ReadByPrefix(d, f[k - 1], k)
      BY <1>2 DEF ReadsPrefixes
    <2>3. /\ ReadByPrefix(d, f[k - 1], k).fence <=> FencesUpTo(d, k) % 2 = 1
          /\ SectionsRead(d, k, ReadByPrefix(d, f[k - 1], k))
      BY <1>3, <1>5, <2>1, ReadKeepsSections
    <2> QED
      BY <2>1, <2>2, <2>3
  <1>6. n \in T
    <2>. HIDE DEF T, n
    <2> QED
      BY <1>1, <1>4, <1>5, PrefixInduction
  <1>. DEFINE all == Flush(f[n]).pairs
              I == {k \in DOMAIN all : HasText(d, all[k].a)}
              got == ByPrefix(d)
  <1>7. PairsAreSections(d, all, Asked(d, n)) /\ all \in Seq(Pair(Nat))
    <2>1. f[n] \in PrefixReader /\ n \in 0..Len(d) /\ SectionsRead(d, n, f[n])
      BY <1>1, <1>3, <1>6
    <2>. HIDE DEF n
    <2>2. PairsAreSections(d, all, Asked(d, n))
      BY <2>1, FlushMakesSection DEF n
    <2>3. Flush(f[n]) \in PrefixReader
      BY <2>1, FlushTypes
    <2> QED
      BY <2>2, <2>3 DEF PrefixReader
  <1>8. got = Kept(all, I)
    BY <1>2 DEF ReadsPrefixes, TextPairs
  <1>9. Asked(d, n) = {q \in Stops(d) : d[q] = "Q"}
    BY <1>1 DEF Asked
  <1>10. \A k \in DOMAIN all : k \in I <=> \E i \in AnswerTo(d, all[k].q) : d[i] # "blank"
    BY <1>7 DEF PairsAreSections, HasText
  <1>11. I \in SUBSET DOMAIN all
    OBVIOUS
  <1>. HIDE DEF I, all, got, n
  <1>12. Range(got) = {all[k] : k \in I}
    BY <1>7, <1>8, <1>11, KeptRange
  <1>13. {got[k].q : k \in DOMAIN got} = {all[k].q : k \in I}
    <2>1. \A k \in DOMAIN got : \E x \in I : got[k] = all[x]
      BY <1>12 DEF Range
    <2>2. \A x \in I : \E k \in DOMAIN got : got[k] = all[x]
      BY <1>12 DEF Range
    <2> QED
      BY <2>1, <2>2
  <1>14. {all[k].q : k \in I} =
           {q \in Stops(d) : d[q] = "Q" /\ \E i \in AnswerTo(d, q) : d[i] # "blank"}
    BY <1>7, <1>9, <1>10, <1>11 DEF PairsAreSections
  <1>15. ASSUME NEW k \in DOMAIN got PROVE Range(got[k].a) = AnswerTo(d, got[k].q)
    <2>1. got[k] \in {all[x] : x \in I}
      BY <1>12 DEF Range
    <2>2. PICK x \in I : got[k] = all[x]
      BY <2>1
    <2> QED
      BY <1>7, <1>11, <2>2 DEF PairsAreSections
  <1> QED
    BY <1>13, <1>14, <1>15 DEF got

-----------------------------------------------------------------------------
(* The parts of a long answer                                               *)

LEMMA HardSplitTextParts ==
  ASSUME NEW n \in Nat, NEW most \in Nat, most > 0
  PROVE  HardSplitText(n, most) \in Seq(1..most)
  <1>. DEFINE m == (n + most - 1) \div most
              Size(k) == IF k * most <= n THEN most ELSE n % most
  <1>1. m \in Nat /\ m * most <= n + most - 1
    <2>1. n + most - 1 \in Nat
      OBVIOUS
    <2> QED
      BY <2>1, Division
  <1>2. ASSUME NEW k \in 1..m PROVE Size(k) \in 1..most
    <2>1. k * most <= m * most /\ k * most \in Nat
      BY <1>1, Products
    <2>2. CASE k * most <= n
      BY <2>2
    <2>3. CASE ~ (k * most <= n)
      <3>1. n \div most \in Nat /\ (n \div most) * most <= n /\ n < (n \div most + 1) * most
        BY Division
      <3>2. n % most = n - (n \div most) * most
        OBVIOUS
      <3>3. (k - 1) * most < n /\ (k - 1) * most = k * most - most
        BY <1>1, <2>1
      <3>4. n \div most < k
        <4>1. CASE k <= n \div most
          <5>1. k * most <= (n \div most) * most
            BY <3>1, <4>1, Products
          <5> QED
            BY <2>1, <2>3, <3>1, <5>1
        <4> QED
          BY <3>1, <4>1
      <3>5. (n \div most) * most <= (k - 1) * most
        <4>1. n \div most <= k - 1 /\ k - 1 \in Nat
          BY <3>1, <3>4
        <4> QED
          BY <3>1, <4>1, Products
      <3>6. (n \div most) * most < n
        BY <3>1, <3>3, <3>5, <2>1
      <3>7. n % most \in 0..(most - 1)
        OBVIOUS
      <3>8. n % most # 0
        BY <3>1, <3>2, <3>6
      <3> QED
        BY <2>3, <3>7, <3>8
    <2> QED
      BY <2>2, <2>3
  <1>. HIDE DEF m, Size
  <1>3. [k \in 1..m |-> Size(k)] \in Seq(1..most)
    BY <1>1, <1>2
  <1> QED
    BY <1>3 DEF HardSplitText, m, Size

\* All the pieces of an answer
PutAll(sizes, most, sep, parts) ==
    FoldLeft(LAMBDA acc, k : PutPiece(sizes, most, sep, parts, acc, k),
             [out |-> <<>>, cur |-> 0], [k \in DOMAIN sizes |-> k])

\* What Pack has packed, the piece that is growing included, fits
Packed(most) == [out: Seq(1..most), cur: 0..most]

LEMMA PutPieceFits ==
  ASSUME NEW most \in Nat, NEW sep \in Nat, NEW sizes \in Seq(Nat), NEW parts,
         \A k \in DOMAIN sizes : parts[k] \in Seq(1..most),
         NEW acc \in Packed(most), NEW k \in DOMAIN sizes
  PROVE  PutPiece(sizes, most, sep, parts, acc, k) \in Packed(most)
  <1>1. sizes[k] \in Nat /\ parts[k] \in Seq(1..most)
    OBVIOUS
  <1>2. acc.out \in Seq(1..most) /\ acc.cur \in 0..most
    BY DEF Packed
  <1>3. acc.cur # 0 => Append(acc.out, acc.cur) \in Seq(1..most)
    BY <1>2
  <1>4. CASE sizes[k] > most
    <2>. DEFINE before == IF acc.cur = 0 THEN acc.out ELSE Append(acc.out, acc.cur)
    <2>1. before \in Seq(1..most)
      BY <1>2, <1>3
    <2>2. PutPiece(sizes, most, sep, parts, acc, k) = [out |-> before \o parts[k], cur |-> 0]
      BY <1>4 DEF PutPiece
    <2>. HIDE DEF before
    <2>3. before \o parts[k] \in Seq(1..most)
      BY <1>1, <2>1
    <2> QED
      BY <2>2, <2>3 DEF Packed
  <1>5. CASE ~ (sizes[k] > most) /\ acc.cur # 0 /\ acc.cur + sep + sizes[k] > most
    <2>1. PutPiece(sizes, most, sep, parts, acc, k)
            = [out |-> Append(acc.out, acc.cur), cur |-> sizes[k]]
      BY <1>5 DEF PutPiece
    <2> QED
      BY <1>1, <1>3, <1>5, <2>1 DEF Packed
  <1>6. CASE ~ (sizes[k] > most) /\ ~ (acc.cur # 0 /\ acc.cur + sep + sizes[k] > most)
    <2>. DEFINE cur == IF acc.cur = 0 THEN sizes[k] ELSE acc.cur + sep + sizes[k]
    <2>1. PutPiece(sizes, most, sep, parts, acc, k) = [acc EXCEPT !.cur = cur]
      BY <1>6 DEF PutPiece
    <2>2. cur \in 0..most
      BY <1>1, <1>2, <1>6
    <2>. HIDE DEF cur
    <2> QED
      BY <2>1, <2>2 DEF Packed
  <1> QED
    BY <1>4, <1>5, <1>6

LEMMA PutAllFits ==
  ASSUME NEW most \in Nat, NEW sep \in Nat, NEW sizes \in Seq(Nat), NEW parts,
         \A k \in DOMAIN sizes : parts[k] \in Seq(1..most)
  PROVE  PutAll(sizes, most, sep, parts) \in Packed(most)
  <1>. DEFINE n == Len(sizes)
              A == Packed(most)
              base == [out |-> <<>>, cur |-> 0]
              Step(acc, k) == PutPiece(sizes, most, sep, parts, acc, k)
              g == [p \in A \X (1..n) |-> Step(p[1], p[2])]
              places == [k \in DOMAIN sizes |-> k]
              IsPack(it) == it = [s \in SUBSET (1..n) |->
                                    IF s = {} THEN base ELSE Step(it[s \ {Max(s)}], places[Max(s)])]
              pack == CHOOSE it : IsPack(it)
  <1>1. n \in Nat /\ DOMAIN sizes = 1..n /\ \A k \in 1..n : places[k] = k
    OBVIOUS
  <1>2. base \in A
    BY DEF Packed
  <1>s. \A acc \in A, k \in 1..n : Step(acc, k) \in A
    BY <1>1, PutPieceFits
  <1>. HIDE DEF A, base, Step, n
  <1>3. g \in [A \X (1..n) -> A]
    BY <1>s
  <1>4. \E it : IsPack(it)
    <2>1. /\ HasFold(A, base, g, LastOf(n), 1..n)
          /\ \A s \in SUBSET (1..n) : s # {} => LastOf(n)[s] = Max(s) /\ Max(s) \in s
      <3>. HIDE DEF g
      <3> QED
        BY <1>1, <1>2, <1>3, LeftFoldExists
    <2>2. PICK it \in [SUBSET (1..n) -> A] :
            \A s \in SUBSET (1..n) : it[s] = FoldStep(it, base, g, LastOf(n), s)
      BY <2>1 DEF HasFold
    <2>3. ASSUME NEW s \in SUBSET (1..n), s # {}
          PROVE  it[s] = Step(it[s \ {Max(s)}], places[Max(s)])
      <3>1. Max(s) \in 1..n /\ LastOf(n)[s] = Max(s) /\ it[s \ {Max(s)}] \in A
        BY <2>1, <2>3
      <3>2. it[s] = g[<<it[s \ {Max(s)}], Max(s)>>]
        BY <2>2, <2>3, <3>1 DEF FoldStep
      <3> QED
        BY <1>1, <3>1, <3>2
    <2>4. it[{}] = base
      BY <2>2 DEF FoldStep
    <2>5. IsPack(it)
      BY <2>3, <2>4
    <2> QED
      BY <2>5
  <1>5. IsPack(pack)
    BY <1>4
  <1>6. PutAll(sizes, most, sep, parts) = pack[1..n]
    <2>1. DOMAIN places = 1..n
      BY <1>1
    <2> QED
      BY Zenon, <2>1 DEF PutAll, FoldLeft, MapThenFoldSet, pack, base, Step
  <1>. HIDE DEF pack
  <1>7. pack[1..n] \in A
    <2>1. pack[{}] = base
      BY <1>5
    <2>2. ASSUME NEW s \in SUBSET (1..n), s # {}, pack[s \ {Max(s)}] \in A
          PROVE  pack[s] \in A
      <3>1. pack[s] = Step(pack[s \ {Max(s)}], places[Max(s)])
        BY <1>5, <2>2
      <3>2. Max(s) \in 1..n
        BY <1>1, <2>2, MaxIsGreatest
      <3> QED
        BY <1>1, <1>s, <2>2, <3>1, <3>2
    <2> QED
      BY <1>1, <1>2, <2>1, <2>2, LeftFoldStays
  <1> QED
    BY <1>6, <1>7 DEF A

LEMMA PackFits ==
  ASSUME NEW most \in Nat, NEW sep \in Nat, NEW sizes \in Seq(Nat), NEW parts,
         \A k \in DOMAIN sizes : parts[k] \in Seq(1..most)
  PROVE  Pack(sizes, most, sep, parts) \in Seq(1..most)
  <1>. DEFINE end == PutAll(sizes, most, sep, parts)
  <1>1. Pack(sizes, most, sep, parts)
          = IF end.cur = 0 THEN end.out ELSE Append(end.out, end.cur)
    BY Zenon DEF Pack, PutAll, PutPiece
  <1>2. end \in Packed(most)
    BY PutAllFits
  <1>. HIDE DEF end
  <1>3. end.out \in Seq(1..most) /\ end.cur \in 0..most
    BY <1>2 DEF Packed
  <1>4. CASE end.cur = 0
    BY <1>1, <1>3, <1>4
  <1>5. CASE end.cur # 0
    <2>1. end.cur \in 1..most
      BY <1>3, <1>5
    <2>2. Append(end.out, end.cur) \in Seq(1..most)
      BY <1>3, <2>1
    <2> QED
      BY <1>1, <1>5, <2>2
  <1> QED
    BY <1>4, <1>5

LEMMA SplitByLinesFits ==
  ASSUME NEW most \in Nat, most > 0, NEW lines \in Seq(Nat)
  PROVE  SplitByLines(lines, most) \in Seq(1..most)
  <1>. DEFINE parts == [k \in DOMAIN lines |-> HardSplitText(lines[k], most)]
  <1>1. \A k \in DOMAIN lines : parts[k] \in Seq(1..most)
    <2>1. ASSUME NEW k \in DOMAIN lines PROVE HardSplitText(lines[k], most) \in Seq(1..most)
      <3>1. lines[k] \in Nat
        OBVIOUS
      <3> QED
        BY <3>1, HardSplitTextParts
    <2> QED
      BY <2>1
  <1>. HIDE DEF parts
  <1>2. Pack(lines, most, 1, parts) \in Seq(1..most)
    BY <1>1, PackFits
  <1> QED
    BY <1>2 DEF SplitByLines, parts

\* The length of the lines of a paragraph, joined
LEMMA JoinedLength ==
  ASSUME NEW lines \in Seq(Nat), lines # <<>>
  PROVE  Joined(lines) \in Nat
  <1>. DEFINE n == Len(lines)
              base == n - 1
              g == [p \in Nat \X (1..n) |-> p[1] + lines[p[2]]]
              IsSum(it) == it = [s \in SUBSET (1..n) |->
                                   IF s = {} THEN base ELSE it[s \ {Max(s)}] + lines[Max(s)]]
              sum == CHOOSE it : IsSum(it)
  <1>1. n \in Nat /\ DOMAIN lines = 1..n /\ base \in Nat /\ \A k \in 1..n : lines[k] \in Nat
    OBVIOUS
  <1>. HIDE DEF base, n
  <1>3. g \in [Nat \X (1..n) -> Nat]
    BY <1>1
  <1>4. \E it : IsSum(it)
    <2>1. /\ HasFold(Nat, base, g, LastOf(n), 1..n)
          /\ \A s \in SUBSET (1..n) : s # {} => LastOf(n)[s] = Max(s) /\ Max(s) \in s
      <3>. HIDE DEF g
      <3> QED
        BY <1>1, <1>3, LeftFoldExists
    <2>2. PICK it \in [SUBSET (1..n) -> Nat] :
            \A s \in SUBSET (1..n) : it[s] = FoldStep(it, base, g, LastOf(n), s)
      BY <2>1 DEF HasFold
    <2>3. ASSUME NEW s \in SUBSET (1..n), s # {}
          PROVE  it[s] = it[s \ {Max(s)}] + lines[Max(s)]
      <3>1. Max(s) \in 1..n /\ LastOf(n)[s] = Max(s) /\ it[s \ {Max(s)}] \in Nat
        BY <2>1, <2>3
      <3>2. it[s] = g[<<it[s \ {Max(s)}], Max(s)>>]
        BY <2>2, <2>3, <3>1 DEF FoldStep
      <3> QED
        BY <3>1, <3>2
    <2>4. it[{}] = base
      BY <2>2 DEF FoldStep
    <2>5. IsSum(it)
      BY <2>3, <2>4
    <2> QED
      BY <2>5
  <1>5. IsSum(sum)
    BY <1>4
  <1>6. Joined(lines) = sum[1..n]
    BY Zenon, <1>1 DEF Joined, FoldLeft, MapThenFoldSet, sum, base, n
  <1>. HIDE DEF sum
  <1>7. sum[1..n] \in Nat
    <2>1. sum[{}] = base
      BY <1>5
    <2>2. ASSUME NEW s \in SUBSET (1..n), s # {}, sum[s \ {Max(s)}] \in Nat
          PROVE  sum[s] \in Nat
      <3>1. sum[s] = sum[s \ {Max(s)}] + lines[Max(s)]
        BY <1>5, <2>2
      <3>2. Max(s) \in 1..n
        BY <1>1, <2>2, MaxIsGreatest
      <3> QED
        BY <1>1, <2>2, <3>1, <3>2
    <2> QED
      BY <1>1, <2>1, <2>2, LeftFoldStays
  <1> QED
    BY <1>6, <1>7

\* The lines between two breaks, none of them a break
LEMMA ParagraphParts ==
  ASSUME NEW answer \in Seq(Nat)
  PROVE  /\ Paragraphs(answer) \in Seq(Seq(Nat) \ {<<>>})
         /\ Paragraphs(answer) # <<>> => \E i \in DOMAIN answer : answer[i] # 0
  <1>. DEFINE n == Len(answer)
              breaks == {i \in DOMAIN answer : answer[i] = 0}
              at == Ordered(breaks)
              cuts == <<0>> \o at \o <<n + 1>>
              piece(k) == SubSeq(answer, cuts[k] + 1, cuts[k + 1] - 1)
              pieces == [k \in 1..(Len(cuts) - 1) |-> piece(k)]
              I == {k \in DOMAIN pieces : pieces[k] # <<>>}
  <1>1. n \in Nat /\ DOMAIN answer = 1..n /\ breaks \in SUBSET (1..n)
    OBVIOUS
  <1>2. /\ at \in Seq(breaks) /\ Len(at) = Cardinality(breaks) /\ Cardinality(breaks) \in Nat
        /\ \A k, l \in 1..Cardinality(breaks) : k < l => at[k] < at[l]
        /\ \A i \in breaks : \E k \in 1..Cardinality(breaks) : at[k] = i
    <2>1. IsFiniteSet(breaks) /\ breaks \in SUBSET Int
      <3>1. IsFiniteSet(1..n)
        BY <1>1, FS_Interval
      <3> QED
        BY <1>1, <3>1, FS_Subset
    <2>. HIDE DEF breaks
    <2> QED
      BY <2>1, OrderedParts
  <1>. DEFINE m == Cardinality(breaks)
  <1>. HIDE DEF n, breaks, at
  <1>3. /\ Len(cuts) = m + 2 /\ cuts[1] = 0 /\ cuts[m + 2] = n + 1
        /\ \A k \in 1..m : cuts[k + 1] = at[k]
    BY <1>2
  <1>4. \A k \in 1..m : at[k] \in breaks /\ at[k] \in 1..n
    <2>1. DOMAIN at = 1..m
      BY <1>2
    <2>2. \A k \in DOMAIN at : at[k] \in breaks
      BY <1>2
    <2>. HIDE DEF m
    <2> QED
      BY <1>1, <2>1, <2>2
  <1>. HIDE DEF m, cuts
  <1>5. \A k \in 1..(m + 1) : cuts[k] \in 0..n /\ cuts[k + 1] \in 1..(n + 1)
    <2>1. ASSUME NEW k \in 1..(m + 1) PROVE cuts[k] \in 0..n /\ cuts[k + 1] \in 1..(n + 1)
      <3>0. m \in Nat
        BY <1>2 DEF m
      <3>1. CASE k = 1
        <4>1. k = m + 1 \/ k \in 1..m
          BY <3>0
        <4> QED
          BY <1>1, <1>3, <1>4, <3>0, <3>1, <4>1
      <3>2. CASE k # 1
        <4>1. k - 1 \in 1..m /\ (k - 1) + 1 = k
          BY <3>0, <3>2
        <4>2. cuts[k] = at[k - 1]
          BY <1>3, <4>1
        <4>3. cuts[k] \in 1..n
          BY <1>4, <4>1, <4>2
        <4>4. k = m + 1 \/ k \in 1..m
          BY <3>0
        <4>5. CASE k = m + 1
          <5>1. k + 1 = m + 2
            BY <3>0, <4>5
          <5>2. cuts[k + 1] = n + 1
            BY <1>3, <5>1
          <5> QED
            BY <1>1, <4>3, <5>2
        <4>6. CASE k \in 1..m
          <5>1. cuts[k + 1] = at[k] /\ at[k] \in 1..n
            BY <1>3, <1>4, <4>6
          <5> QED
            BY <1>1, <4>3, <5>1
        <4> QED
          BY <4>4, <4>5, <4>6
      <3> QED
        BY <3>1, <3>2
    <2> QED
      BY <2>1
  <1>6. \A k \in 1..(m + 1) : piece(k) \in Seq(Nat)
    <2>1. ASSUME NEW k \in 1..(m + 1) PROVE piece(k) \in Seq(Nat)
      <3>1. cuts[k] + 1 \in Nat /\ cuts[k] + 1 >= 1 /\ cuts[k + 1] - 1 \in Int /\ cuts[k + 1] - 1 <= n
        BY <1>1, <1>5
      <3> QED
        BY <3>1, PartIn DEF n
    <2> QED
      BY <2>1
  <1>. HIDE DEF piece
  <1>7. pieces \in Seq(Seq(Nat)) /\ Len(cuts) - 1 = m + 1
    <2>1. m \in Nat
      BY <1>2 DEF m
    <2>2. Len(cuts) - 1 = m + 1 /\ m + 1 \in Nat
      BY <1>3, <2>1
    <2> QED
      BY <1>6, <2>2
  <1>8. Paragraphs(answer) = Kept(pieces, I)
    BY DEF Paragraphs, Where, pieces, piece, cuts, at, breaks, n
  <1>9. \A k \in I : pieces[k] \in Seq(Nat) \ {<<>>}
    BY <1>7
  <1>. HIDE DEF pieces
  <1>10. /\ Kept(pieces, I) \in Seq({pieces[k] : k \in I})
         /\ Len(Kept(pieces, I)) = Cardinality(I)
    <2>1. I \in SUBSET DOMAIN pieces
      OBVIOUS
    <2>. HIDE DEF I
    <2> QED
      BY <1>7, <2>1, KeptParts
  <1>11. {pieces[k] : k \in I} \in SUBSET (Seq(Nat) \ {<<>>})
    BY <1>9
  <1>12. Kept(pieces, I) \in Seq(Seq(Nat) \ {<<>>})
    <2>. HIDE DEF I
    <2> QED
      BY <1>10, <1>11
  <1>13. ASSUME Kept(pieces, I) # <<>> PROVE \E i \in DOMAIN answer : answer[i] # 0
    <2>1. PICK k \in I : TRUE
      <3>1. CASE I = {}
        <4>1. Cardinality(I) = 0
          BY <3>1, FS_EmptySet
        <4>. HIDE DEF I
        <4> QED
          BY <1>10, <1>13, <4>1
      <3> QED
        BY <3>1
    <2>2. k \in 1..(m + 1) /\ piece(k) # <<>>
      BY <1>7, <2>1 DEF pieces
    <2>3. cuts[k] \in 0..n /\ cuts[k + 1] \in 1..(n + 1) /\ k \in Nat /\ m \in Nat
      BY <1>2, <1>5, <2>2 DEF m
    <2>4. cuts[k] + 1 <= cuts[k + 1] - 1
      BY <2>2, <2>3 DEF piece
    <2>. DEFINE i == cuts[k] + 1
    <2>5. i \in 1..n /\ cuts[k] < i /\ i < cuts[k + 1]
      BY <1>1, <2>3, <2>4
    <2>. HIDE DEF i
    <2>6. i \notin breaks
      <3> SUFFICES ASSUME i \in breaks PROVE FALSE
        OBVIOUS
      <3>1. PICK j \in 1..m : at[j] = i
        BY <1>2 DEF m
      <3>2. cuts[j + 1] = i
        BY <1>3, <3>1
      <3>3. CASE j < k
        <4>1. cuts[j + 1] <= cuts[k]
          <5>1. CASE j + 1 = k
            BY <2>3, <5>1
          <5>2. CASE j + 1 # k
            <6>1. k - 1 \in 1..m /\ j < k - 1 /\ (k - 1) + 1 = k
              BY <2>2, <2>3, <3>3, <5>2
            <6>2. at[j] < at[k - 1] /\ cuts[k] = at[k - 1] /\ cuts[j + 1] = at[j]
              BY <1>2, <1>3, <6>1 DEF m
            <6> QED
              BY <1>1, <1>4, <6>1, <6>2
          <5> QED
            BY <5>1, <5>2
        <4> QED
          BY <2>3, <2>5, <3>2, <4>1
      <3>4. CASE ~ (j < k)
        <4>1. k \in 1..m /\ cuts[k + 1] = at[k]
          BY <1>3, <2>2, <2>3, <3>4
        <4>2. k = j \/ k < j
          BY <2>3, <3>4
        <4>3. at[k] <= at[j]
          BY <1>2, <1>1, <1>4, <4>1, <4>2 DEF m
        <4> QED
          BY <1>1, <1>4, <2>5, <3>1, <4>1, <4>3
      <3> QED
        BY <3>3, <3>4
    <2> QED
      BY <1>1, <2>5, <2>6 DEF breaks
  <1> QED
    BY <1>8, <1>12, <1>13

LEMMA SplitByParagraphsFits ==
  ASSUME NEW most \in Nat, most > 0, NEW paras \in Seq(Seq(Nat) \ {<<>>})
  PROVE  SplitByParagraphs(paras, most) \in Seq(1..most)
  <1>. DEFINE sizes == [k \in DOMAIN paras |-> Joined(paras[k])]
              parts == [k \in DOMAIN paras |-> SplitByLines(paras[k], most)]
  <1>1. ASSUME NEW k \in DOMAIN paras
        PROVE  Joined(paras[k]) \in Nat /\ SplitByLines(paras[k], most) \in Seq(1..most)
    <2>1. paras[k] \in Seq(Nat) \ {<<>>}
      OBVIOUS
    <2> QED
      BY <2>1, JoinedLength, SplitByLinesFits
  <1>2. sizes \in Seq(Nat) /\ DOMAIN sizes = DOMAIN paras
    <2>1. sizes = [k \in DOMAIN paras |-> sizes[k]] /\ \A k \in DOMAIN paras : sizes[k] \in Nat
      BY <1>1
    <2>. HIDE DEF sizes
    <2> QED
      BY <2>1, SameLength
  <1>3. \A k \in DOMAIN sizes : parts[k] \in Seq(1..most)
    BY <1>1, <1>2
  <1>. HIDE DEF sizes, parts
  <1>4. Pack(sizes, most, 2, parts) \in Seq(1..most)
    BY <1>2, <1>3, PackFits
  <1> QED
    BY <1>4 DEF SplitByParagraphs, sizes, parts

\* However long the question and the answer, every chunk of a pair fits.
LEMMA SplitLongChunkFits ==
  ASSUME NEW question \in 0..ChunkChars, NEW answer \in Seq(Nat)
  PROVE  SplitLongChunk(question, answer) \in Seq(1..ChunkChars)
  <1>. DEFINE solid == {i \in DOMAIN answer : answer[i] # 0}
              span == SubSeq(answer, Min(solid), Max(solid))
              bare == Paragraphs(answer) = <<>>
              whole == FrameChars + question + IF bare THEN -1 ELSE Joined(span)
              room == AnswerRoom(question)
              parts == SplitByParagraphs(Paragraphs(answer), room)
  <1>1. ChunkChars \in Nat /\ FrameChars \in Nat /\ question \in Nat /\ FrameChars >= 2
    BY StructureAssumption
  <1>2. Paragraphs(answer) \in Seq(Seq(Nat) \ {<<>>}) /\ (~ bare => solid # {})
    BY ParagraphParts
  <1>3. ASSUME ~ bare PROVE span \in Seq(Nat) /\ span # <<>>
    <2>1. Len(answer) \in Nat /\ solid \in SUBSET (1..Len(answer)) /\ solid \in SUBSET Nat
      OBVIOUS
    <2>. HIDE DEF solid
    <2>2. Min(solid) \in solid /\ Max(solid) \in solid /\ Min(solid) <= Max(solid)
      BY <1>2, <1>3, <2>1, MinIsLeast, MaxIsGreatest
    <2>. DEFINE a == Min(solid)
                b == Max(solid)
    <2>3. a \in 1..Len(answer) /\ b \in 1..Len(answer) /\ a <= b
      BY <2>1, <2>2
    <2>. HIDE DEF a, b
    <2>4. SubSeq(answer, a, b) \in Seq(Nat) /\ SubSeq(answer, a, b) # <<>>
      BY <2>3
    <2> QED
      BY <2>4 DEF a, b
  <1>4. SplitLongChunk(question, answer)
          = IF whole <= ChunkChars THEN <<whole>>
            ELSE IF question = 0 \/ bare \/ FrameChars + question >= ChunkChars
                 THEN HardSplitText(whole, ChunkChars)
            ELSE [k \in DOMAIN parts |-> FrameChars + question + parts[k]]
    BY DEF SplitLongChunk
  <1>. HIDE DEF solid, span
  <1>5. whole \in Nat /\ whole >= 1
    <2>1. ~ bare => Joined(span) \in Nat
      BY <1>3, JoinedLength
    <2>. HIDE DEF bare
    <2> QED
      BY <1>1, <2>1
  <1>. HIDE DEF whole, parts, room, bare
  <1>6. CASE whole <= ChunkChars
    <2>1. SplitLongChunk(question, answer) = <<whole>> /\ whole \in 1..ChunkChars
      BY <1>1, <1>4, <1>5, <1>6
    <2> QED
      BY <2>1
  <1>9. ChunkChars > 0
    BY <1>1, StructureAssumption
  <1>7. CASE ~ (whole <= ChunkChars) /\ (question = 0 \/ bare \/ FrameChars + question >= ChunkChars)
    BY <1>1, <1>4, <1>5, <1>7, <1>9, HardSplitTextParts
  <1>8. CASE ~ (whole <= ChunkChars) /\ ~ (question = 0 \/ bare \/ FrameChars + question >= ChunkChars)
    <2>1. room \in Nat /\ room > 0 /\ FrameChars + question + room = ChunkChars
      BY <1>1, <1>8 DEF room, AnswerRoom
    <2>2. parts \in Seq(1..room)
      BY <1>2, <2>1, SplitByParagraphsFits DEF parts
    <2>3. \A k \in DOMAIN parts : FrameChars + question + parts[k] \in 1..ChunkChars
      <3>1. \A p \in 1..room : FrameChars + question + p \in 1..ChunkChars
        BY <1>1, <2>1
      <3>2. \A k \in DOMAIN parts : parts[k] \in 1..room
        BY <2>2, ItemsIn
      <3> QED
        BY <3>1, <3>2
    <2>4. SplitLongChunk(question, answer) = [k \in DOMAIN parts |-> FrameChars + question + parts[k]]
      BY <1>4, <1>8
    <2>. DEFINE framed == [k \in DOMAIN parts |-> FrameChars + question + parts[k]]
    <2>5. framed \in Seq(1..ChunkChars)
      <3>1. /\ framed = [k \in DOMAIN parts |-> framed[k]]
            /\ \A k \in DOMAIN parts : framed[k] \in 1..ChunkChars
        BY <2>3
      <3>. HIDE DEF framed
      <3> QED
        BY <2>2, <3>1, SameLength
    <2> QED
      BY <2>4, <2>5
  <1> QED
    BY <1>6, <1>7, <1>8

-----------------------------------------------------------------------------
(* The document                                                             *)

LEMMA SectionsAreKept == DocTypeOK => SectionsKept
  <1> SUFFICES ASSUME DocTypeOK, kind = "levels"
               PROVE  LET cks == Chains(doc)
                          In(j) == {c \in DOMAIN cks : j \in Range(cks[c])}
                      IN  \A j \in DOMAIN doc :
                            /\ doc[j] < Depth => In(j) # {}
                            /\ doc[j] = 0 => \A c, e \in In(j) : c = e
    BY Zenon DEF SectionsKept
  <1>. DEFINE d == doc
              cks == Chains(d)
  <1>1. d \in Seq(Levels)
    BY LevelDocument
  <1>. HIDE DEF d
  <1>2. /\ \A j \in DOMAIN d : d[j] < Depth => \E c \in DOMAIN cks : j \in Range(cks[c])
        /\ \A j \in DOMAIN d : d[j] = 0 =>
              \A c, e \in DOMAIN cks : j \in Range(cks[c]) /\ j \in Range(cks[e]) => c = e
    BY <1>1, ChainsOfDocument
  <1> QED
    BY <1>2 DEF d

LEMMA TopHeadingsAreNearest == DocTypeOK => TopHeadingIsNearest
  <1> SUFFICES ASSUME DocTypeOK, kind = "levels", NEW c \in DOMAIN Chains(doc)
               PROVE  LET ck == Chains(doc)[c]
                          tops == {k \in 1..Last(ck) : doc[k] = LevelCount - 1}
                      IN  (doc[Last(ck)] = 0 /\ tops # {}) => ck[1] = Max(tops)
    BY Zenon DEF TopHeadingIsNearest
  <1>. DEFINE d == doc
              ck == Chains(d)[c]
              j == Last(ck)
              tops == {k \in 1..j : d[k] = LevelCount - 1}
              T == {k \in LinesOf(d, LevelCount - 1) : k <= j}
  <1>1. d \in Seq(Levels)
    BY LevelDocument
  <1>. HIDE DEF d
  <1>2. PICK p \in SectionsOf(d) : ck = Reverse(HeadingChain(d, p.level, p.line))
    BY <1>1, ChainsOfDocument DEF d
  <1>. HIDE DEF ck
  <1>3. j = p.line /\ p.line \in DOMAIN d /\ d[p.line] = p.level
    BY <1>1, <1>2, SectionChain DEF SectionsOf
  <1>4. p.level = 0 /\ T # {} => ck[1] \in T /\ \A k \in T : k <= ck[1]
    BY <1>1, <1>2, <1>3, SectionChain
  <1>5. j \in Nat /\ tops = T /\ tops \in SUBSET (1..j)
    <2>1. DOMAIN d = 1..Len(d) /\ Len(d) \in Nat
      BY <1>1
    <2> QED
      BY <1>3, <2>1 DEF LinesOf
  <1>6. ASSUME d[j] = 0, tops # {} PROVE ck[1] = Max(tops)
    <2>1. ck[1] \in tops /\ \A k \in tops : k <= ck[1]
      BY <1>3, <1>4, <1>5, <1>6
    <2>. HIDE DEF tops
    <2>2. Max(tops) \in tops /\ \A k \in tops : k <= Max(tops)
      BY <1>5, <1>6, MaxIsGreatest
    <2>3. ck[1] \in Nat /\ Max(tops) \in Nat /\ ck[1] <= Max(tops) /\ Max(tops) <= ck[1]
      BY <1>5, <2>1, <2>2
    <2> QED
      BY <2>3
  <1> QED
    BY <1>6 DEF d, ck

LEMMA HeadingPairs == DocTypeOK => HeadingPairsArePaths
  <1> SUFFICES ASSUME DocTypeOK, kind = "lines"
               PROVE  PairsArePaths(doc, ByHeadings(doc))
    BY DEF HeadingPairsArePaths, PairsArePaths
  <1>. DEFINE d == doc
              n == Len(d)
  <1>1. d \in Seq(QaLines) /\ n \in Nat
    BY DEF DocTypeOK, Alphabet
  <1>. HIDE DEF d
  <1>2. PICK f : ReadsHeadings(d, f)
    BY <1>1, HeadingsAreRead
  <1>3. \A k \in 0..n : f[k] \in HeadingReader
    BY <1>2 DEF ReadsHeadings
  <1>. DEFINE T == {k \in 0..n : HeadingsRead(d, k, f[k])}
  <1>4. 0 \in T
    <2>1. f[0] = FreshHeadingReader
      BY <1>2 DEF ReadsHeadings
    <2>2. Range(<<>>) = {} /\ Path(d, 0 + 1) = {}
      <3>1. Heads(d) \in SUBSET (1..n)
        BY DEF Heads
      <3> QED
        BY <1>1, <3>1 DEF Range, Path
    <2>3. /\ f[0].fence = FALSE /\ f[0].stack = <<>> /\ f[0].a = <<>> /\ f[0].pairs = <<>>
      BY <2>1 DEF FreshHeadingReader
    <2>4. PairsArePaths(d, f[0].pairs)
      BY <2>3 DEF PairsArePaths
    <2>5. ~ (FencesUpTo(d, 0) % 2 = 1)
      BY NoFences
    <2>7. \A x \in DOMAIN f[0].a : FALSE
      BY <2>3
    <2>6. HeadingsRead(d, 0, f[0])
      BY <2>7, <2>2, <2>3, <2>4, <2>5 DEF HeadingsRead
    <2>. HIDE DEF n
    <2> QED
      BY <1>1, <2>6
  <1>5. ASSUME NEW k \in 1..n, k - 1 \in T PROVE k \in T
    <2>1. k - 1 \in 0..n /\ k \in 0..n
      BY <1>1
    <2>2. f[k] = ReadByHeading(d, f[k - 1], k)
      BY <1>2 DEF ReadsHeadings
    <2>3. HeadingsRead(d, k, ReadByHeading(d, f[k - 1], k))
      BY <1>1, <1>3, <1>5, <2>1, ReadKeepsHeadings
    <2> QED
      BY <2>1, <2>2, <2>3
  <1>6. n \in T
    <2>. HIDE DEF T, n
    <2> QED
      BY <1>1, <1>4, <1>5, PrefixInduction DEF n
  <1>7. ByHeadings(d) = Emit(d, f[n]).pairs
    BY <1>2 DEF ReadsHeadings
  <1>8. PairsArePaths(d, Emit(d, f[n]).pairs)
    BY <1>1, <1>3, <1>6, EmitMakesPath DEF HeadingsRead
  <1> QED
    BY <1>7, <1>8 DEF d

LEMMA PrefixPairs == DocTypeOK => PrefixPairsAreSections
  <1> SUFFICES ASSUME DocTypeOK, kind = "lines"
               PROVE  LET Expected == {q \in Stops(doc) : doc[q] = "Q"
                                          /\ \E i \in AnswerTo(doc, q) : doc[i] # "blank"}
                          got == ByPrefix(doc)
                      IN  /\ {got[k].q : k \in DOMAIN got} = Expected
                          /\ \A k \in DOMAIN got : Range(got[k].a) = AnswerTo(doc, got[k].q)
    BY Zenon DEF PrefixPairsAreSections
  <1>1. doc \in Seq(QaLines)
    BY DEF DocTypeOK, Alphabet
  <1> QED
    BY <1>1, SectionsOfDocument

\* The document is a sequence of the lines of its kind.
THEOREM DocTypeCorrect == DocSpec => []DocTypeOK
  <1>1. DocInit => DocTypeOK
    BY DEF DocInit, DocTypeOK
  <1>2. DocTypeOK /\ [WriteLine]_docVars => DocTypeOK'
    BY DEF DocTypeOK, WriteLine, docVars
  <1> QED
    BY <1>1, <1>2, PTL DEF DocSpec

\* For any levels, depth and document: no section of a visited level is lost,
\* and no plain text is repeated.
THEOREM SectionsKeptHolds == DocSpec => []SectionsKept
  BY DocTypeCorrect, SectionsAreKept, PTL

\* For any levels and document: plain text stands under the nearest heading of
\* the first level before it.
THEOREM TopHeadingIsNearestHolds == DocSpec => []TopHeadingIsNearest
  BY DocTypeCorrect, TopHeadingsAreNearest, PTL

\* For any document: each question gets the lines up to the next question or
\* heading, and no other line.
THEOREM PrefixPairsAreSectionsHolds == DocSpec => []PrefixPairsAreSections
  BY DocTypeCorrect, PrefixPairs, PTL

\* For any document: a pair made from headings asks the path of the headings
\* above its answer.
THEOREM HeadingPairsArePathsHolds == DocSpec => []HeadingPairsArePaths
  BY DocTypeCorrect, HeadingPairs, PTL

\* For every chunk limit and frame, and every question and answer: no chunk of
\* the qa preset is empty or over the limit.
THEOREM QaChunksWithinLimitHolds == DocSpec => []QaChunksWithinLimit
  <1>1. DocTypeOK => QaChunksWithinLimit
    <2> SUFFICES ASSUME DocTypeOK, kind = "answer", NEW question \in 0..ChunkChars
                 PROVE  \A k \in DOMAIN SplitLongChunk(question, doc) :
                            SplitLongChunk(question, doc)[k] \in 1..ChunkChars
      BY DEF QaChunksWithinLimit
    <2>1. doc \in Seq(Nat)
      <3>1. doc \in Seq(Alphabet("answer"))
        BY DEF DocTypeOK
      <3>2. Alphabet("answer") \subseteq Nat
        BY StructureAssumption DEF Alphabet
      <3>. HIDE DEF Alphabet
      <3> QED
        BY <3>1, <3>2
    <2>2. SplitLongChunk(question, doc) \in Seq(1..ChunkChars)
      BY <2>1, SplitLongChunkFits
    <2> QED
      BY <2>2, ItemsIn
  <1> QED
    BY <1>1, DocTypeCorrect, PTL
=============================================================================
