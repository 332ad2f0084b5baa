---------------------------- MODULE ChunkingProofs ----------------------------
(***************************************************************************)
(* Theorems about the chunking of a document: no chunk is over its limit,  *)
(* no text is lost, and the slicing loop advances, for any text and any    *)
(* parser_config.                                                          *)
(*                                                                         *)
(* What a function on sequences returns is stated as the set its items are *)
(* in: Seq(Within(C, limit)) are lists of texts over the characters C that *)
(* count at most limit tokens.  What a text says is the characters of it   *)
(* that are in a set K, in order: K leaves out blanks, and the delimiter   *)
(* where a split drops it.                                                 *)
(***************************************************************************)
EXTENDS Chunking, InductionLemmas

-----------------------------------------------------------------------------
(* Words and tokens                                                         *)

LEMMA OverlapClamped ==
  ASSUME NEW percent \in Int
  PROVE  Clamp(percent) \in 0..99
  BY DEF Clamp, Max, Min

\* A slice repeats less than it may hold.
LEMMA OverlapIsLess ==
  ASSUME NEW num \in Nat, num > 0, NEW percent \in Int
  PROVE  OverlapTokens(num, percent) \in Nat /\ OverlapTokens(num, percent) < num
  <1>1. Clamp(percent) \in 0..99
    BY OverlapClamped
  <1>2. \A c \in 0..99 : num * c \in Nat /\ num * c <= num * 99
    OBVIOUS
  <1>3. \A x \in Nat : x <= num * 99 => x \div 100 \in Nat /\ x \div 100 < num
    OBVIOUS
  <1> QED
    BY <1>1, <1>2, <1>3 DEF OverlapTokens

Starts(s) == {i \in DOMAIN s : StartsWord(s, i)}

LEMMA StartsFinite ==
  ASSUME NEW C, NEW s \in Seq(C)
  PROVE  /\ Starts(s) \in SUBSET (1..Len(s)) /\ IsFiniteSet(Starts(s)) /\ Starts(s) \in SUBSET Int
         /\ WordCount(s) = Cardinality(Starts(s)) /\ WordCount(s) \in Nat
         /\ WordStarts(s) = Ordered(Starts(s))
  <1>1. Starts(s) \in SUBSET (1..Len(s)) /\ IsFiniteSet(1..Len(s)) 
    BY FS_Interval DEF Starts
  <1>2. IsFiniteSet(Starts(s)) /\ WordCount(s) = Cardinality(Starts(s))
    BY <1>1, FS_Subset DEF WordCount, Starts
  <1>3. WordStarts(s) = Ordered(Starts(s))
    BY DEF WordStarts, Positions, Starts
  <1> QED
    BY <1>1, <1>2, <1>3, FS_CardinalityType

\* Cut where no word is cut in two, a part of a text has no more words than
\* begin there.
LEMMA WordsOfPart ==
  ASSUME NEW C, NEW s \in Seq(C), NEW a \in 1..Len(s), NEW b \in 1..Len(s),
         s[a] = "w" => StartsWord(s, a)
  PROVE  /\ SubSeq(s, a, b) \in Seq(C)
         /\ WordCount(SubSeq(s, a, b)) <= Cardinality(Starts(s) \cap (a..b))
         /\ Cardinality(Starts(s) \cap (a..b)) <= WordCount(s)
         /\ Cardinality(Starts(s) \cap (a..b)) \in Nat
  <1>. DEFINE part == SubSeq(s, a, b)
              f == [i \in Starts(part) |-> i + a - 1]
              T == Starts(s) \cap (a..b)
  <1>1. part \in Seq(C) /\ \A i \in DOMAIN part : i + a - 1 \in a..b /\ part[i] = s[i + a - 1]
    OBVIOUS
  <1>. HIDE DEF part
  <1>2. ASSUME NEW i \in Starts(part) PROVE i + a - 1 \in T
    <2>1. i \in DOMAIN part /\ i \in Nat \ {0} /\ part[i] = "w" /\ (i = 1 \/ part[i - 1] # "w")
      BY <1>1 DEF Starts, StartsWord
    <2>2. i + a - 1 \in a..b /\ i + a - 1 \in 1..Len(s) /\ s[i + a - 1] = "w"
      BY <1>1, <2>1
    <2>3. CASE i = 1
      BY <2>2, <2>3 DEF Starts
    <2>4. CASE i # 1
      <3>1. i - 1 \in DOMAIN part
        BY <1>1, <2>1, <2>4
      <3>2. part[i - 1] = s[(i - 1) + a - 1] /\ (i - 1) + a - 1 = (i + a - 1) - 1
        BY <1>1, <2>1, <3>1
      <3> QED
        BY <2>1, <2>2, <2>4, <3>2 DEF Starts, StartsWord
    <2> QED
      BY <2>3, <2>4
  <1>3. IsFiniteSet(T) /\ Cardinality(T) <= WordCount(s) /\ Cardinality(T) \in Nat
    BY StartsFinite, FS_Subset, FS_CardinalityType
  <1>4. f \in Injection(Starts(part), T)
    <2>. HIDE DEF T
    <2>1. f \in [Starts(part) -> T]
      BY <1>2
    <2>2. \A i, j \in Starts(part) : f[i] = f[j] => i = j
      BY <1>1, StartsFinite
    <2>. HIDE DEF f
    <2> QED
      BY <2>1, <2>2, Fun_IsInj
  <1>5. WordCount(part) <= Cardinality(T)
    BY <1>1, <1>3, <1>4, StartsFinite, FS_Injection
  <1> QED
    BY <1>1, <1>3, <1>5 DEF part

LEMMA CountsWords ==
  ASSUME NEW C, NEW s \in Seq(C)
  PROVE  /\ CountTokens(s) \in Nat
         /\ \A limit \in Nat : limit > 0 /\ WordCount(s) <= limit => CountTokens(s) <= limit
         /\ Strip(s) # <<>> => CountTokens(s) >= WordCount(s) /\ CountTokens(s) >= 1
         /\ Strip(s) = <<>> => CountTokens(s) = 0
  <1>1. WordCount(s) \in Nat
    BY StartsFinite
  <1>2. /\ Max({1, WordCount(s)}) \in {1, WordCount(s)}
        /\ Max({1, WordCount(s)}) >= 1 /\ Max({1, WordCount(s)}) >= WordCount(s)
    <2>1. 1 \in Int /\ WordCount(s) \in Int
      BY <1>1
    <2> QED
      BY Zenon, <2>1, MaxOfTwo
  <1>. DEFINE most == Max({1, WordCount(s)})
  <1>3. CountTokens(s) = IF Strip(s) = <<>> THEN 0 ELSE most
    BY DEF CountTokens
  <1>. HIDE DEF most
  <1>4. most \in {1, WordCount(s)} /\ most >= 1 /\ most >= WordCount(s)
    BY <1>2 DEF most
  <1> QED
    BY <1>1, <1>3, <1>4

\* Stripping cuts no word in two.
LEMMA StripParts ==
  ASSUME NEW C, NEW s \in Seq(C)
  PROVE  /\ Strip(s) \in Seq(C)
         /\ Strip(s) # <<>> => WordCount(Strip(s)) <= WordCount(s)
  <1>. DEFINE solid == {i \in DOMAIN s : s[i] \notin Blank}
  <1>1. CASE solid = {}
    BY <1>1 DEF Strip
  <1>2. CASE solid # {}
    <2>1. solid \in SUBSET (1..Len(s)) /\ solid \in SUBSET Nat
      OBVIOUS
    <2>2. /\ Min(solid) \in solid /\ \A i \in solid : Min(solid) <= i
          /\ Max(solid) \in solid
      <3>. HIDE DEF solid
      <3>1. Min(solid) \in solid /\ \A i \in solid : Min(solid) <= i
        BY <1>2, <2>1, MinIsLeast
      <3>2. Len(s) \in Nat
        OBVIOUS
      <3>3. Max(solid) \in solid
        BY <1>2, <2>1, <3>2, MaxIsGreatest
      <3> QED
        BY <3>1, <3>3
    <2>. DEFINE a == Min(solid)
                b == Max(solid)
    <2>3. Strip(s) = SubSeq(s, a, b)
      BY <1>2 DEF Strip
    <2>4. a \in 1..Len(s) /\ b \in 1..Len(s)
      BY <2>1, <2>2
    <2>5. s[a] = "w" => StartsWord(s, a)
      <3>1. a # 1 => s[a - 1] \in Blank
        <4>1. a # 1 => a - 1 \in DOMAIN s /\ ~ (a <= a - 1)
          BY <2>4
        <4>2. a - 1 \in solid => a <= a - 1
          BY <2>2
        <4> QED
          BY <4>1, <4>2
      <3> QED
        BY <3>1 DEF StartsWord, Blank
    <2>. HIDE DEF a, b, solid
    <2>6. /\ SubSeq(s, a, b) \in Seq(C)
          /\ WordCount(SubSeq(s, a, b)) <= Cardinality(Starts(s) \cap (a..b))
          /\ Cardinality(Starts(s) \cap (a..b)) <= WordCount(s)
          /\ Cardinality(Starts(s) \cap (a..b)) \in Nat
      BY <2>4, <2>5, WordsOfPart
    <2>7. WordCount(s) \in Nat /\ WordCount(SubSeq(s, a, b)) \in Nat
      BY <2>6, StartsFinite
    <2> QED
      BY <2>3, <2>6, <2>7
  <1> QED
    BY <1>1, <1>2

\* The texts that are within a limit
Within(C, limit) == {s \in Seq(C) : CountTokens(s) <= limit}

LEMMA StripWithin ==
  ASSUME NEW C, NEW limit \in Nat, NEW s \in Within(C, limit)
  PROVE  Strip(s) \in Within(C, limit)
  <1>1. s \in Seq(C) /\ CountTokens(s) <= limit
    BY DEF Within
  <1>2. Strip(s) \in Seq(C) /\ CountTokens(s) \in Nat /\ CountTokens(Strip(s)) \in Nat
    BY <1>1, StripParts, CountsWords
  <1>3. CASE Strip(s) = <<>>
    <2>1. Strip(Strip(s)) = <<>>
      BY <1>3 DEF Strip
    <2> QED
      BY <1>1, <1>2, <2>1, CountsWords DEF Within
  <1>4. CASE Strip(s) # <<>>
    <2>1. WordCount(Strip(s)) <= WordCount(s) /\ WordCount(s) \in Nat /\ WordCount(Strip(s)) \in Nat
      BY <1>1, <1>2, <1>4, StripParts, StartsFinite
    <2>2. limit > 0 /\ WordCount(s) <= limit
      BY <1>1, <1>2, <1>4, <2>1, CountsWords
    <2>3. WordCount(Strip(s)) <= limit
      BY <2>1, <2>2
    <2>4. CountTokens(Strip(s)) <= limit
      BY <1>2, <2>2, <2>3, CountsWords
    <2> QED
      BY <1>2, <2>4 DEF Within
  <1> QED
    BY <1>3, <1>4

\* Stripping the texts of a list, and dropping the empty ones
LEMMA NonEmptyParts ==
  ASSUME NEW A, NEW ss \in Seq(A)
  PROVE  NonEmpty(ss) \in Seq(A)
  <1>. DEFINE I == {k \in DOMAIN ss : ss[k] # <<>>}
  <1>1. Kept(ss, I) \in Seq({ss[i] : i \in I})
    BY KeptParts
  <1>2. {ss[i] : i \in I} \subseteq A
    OBVIOUS
  <1>3. Kept(ss, I) \in Seq(A)
    <2>. HIDE DEF I
    <2>. QED
      BY <1>1, <1>2
  <1> QED
    BY <1>3 DEF NonEmpty

LEMMA StrippedParts ==
  ASSUME NEW A, NEW B, NEW ss \in Seq(A), \A s \in A : Strip(s) \in B
  PROVE  Stripped(ss) \in Seq(B)
  <1>1. [k \in DOMAIN ss |-> Strip(ss[k])] \in Seq(B)
    OBVIOUS
  <1> QED
    BY <1>1, NonEmptyParts DEF Stripped

-----------------------------------------------------------------------------
(* What the parts of a text say                                             *)

\* The content of a text is what is chosen of it.
LEMMA SameContent ==
  ASSUME NEW C, NEW s \in Seq(C), NEW c
  PROVE  Content(s, c) = Chosen(s, C \ Dropped(c))
  <1>1. \A i \in DOMAIN s : s[i] \in C
    OBVIOUS
  <1>2. {i \in DOMAIN s : s[i] \notin Dropped(c)} = {i \in DOMAIN s : s[i] \in C \ Dropped(c)}
    BY <1>1
  <1> QED
    BY <1>2 DEF Content, Chosen

\* A text without characters of K says nothing.
LEMMA NothingChosen ==
  ASSUME NEW B, NEW K, B \cap K = {}, NEW s \in Seq(B)
  PROVE  Chosen(s, K) = <<>>
  <1>. DEFINE G == {u \in Seq(B) : Chosen(u, K) = <<>>}
  <1>1. <<>> \in G
    BY ChosenEmpty
  <1>2. ASSUME NEW u \in Seq(B), NEW x \in B, u \in G PROVE Append(u, x) \in G
    <2>1. Chosen(Append(u, x), K) = IF x \in K THEN Append(Chosen(u, K), x) ELSE Chosen(u, K)
      BY ChosenAppend
    <2>2. x \notin K /\ Append(u, x) \in Seq(B)
      OBVIOUS
    <2> QED
      BY <1>2, <2>1, <2>2
  <1>. HIDE DEF G
  <1>3. s \in G
    BY <1>1, <1>2, SequenceInduction
  <1> QED
    BY <1>3 DEF G

\* What a text says up to a place, and from there on
LEMMA CutHere ==
  ASSUME NEW C, NEW s \in Seq(C), NEW e \in 0..Len(s), NEW f \in e..Len(s), NEW K
  PROVE  Chosen(SubSeq(s, 1, f), K) = Chosen(SubSeq(s, 1, e), K) \o Chosen(SubSeq(s, e + 1, f), K)
  <1>. DEFINE a == SubSeq(s, 1, e)
              b == SubSeq(s, e + 1, f)
              c == SubSeq(s, 1, f)
  <1>1. a \in Seq(C) /\ b \in Seq(C) /\ c \in Seq(C)
    BY PartIn
  <1>2. c = a \o b
    OBVIOUS
  <1>. HIDE DEF a, b, c
  <1>3. Chosen(a \o b, K) = Chosen(a, K) \o Chosen(b, K)
    <2>1. \A x, y \in Seq(C) : Chosen(x \o y, K) = Chosen(x, K) \o Chosen(y, K)
      BY ChosenJoin
    <2> QED
      BY Zenon, <1>1, <2>1
  <1> QED
    BY <1>2, <1>3 DEF a, b, c

\* A character that is not in K may be left out.
LEMMA DroppedHere ==
  ASSUME NEW C, NEW s \in Seq(C), NEW e \in 1..Len(s), NEW K, s[e] \notin K
  PROVE  Chosen(SubSeq(s, 1, e), K) = Chosen(SubSeq(s, 1, e - 1), K)
  <1>. DEFINE a == SubSeq(s, 1, e - 1)
              b == SubSeq(s, 1, e)
              x == s[e]
  <1>1. a \in Seq(C) /\ x \in C /\ b = Append(a, x) /\ x \notin K
    BY NextPrefix
  <1>. HIDE DEF a, b, x
  <1>2. Chosen(Append(a, x), K) = IF x \in K THEN Append(Chosen(a, K), x) ELSE Chosen(a, K)
    BY <1>1, ChosenAppend
  <1> QED
    BY <1>1, <1>2 DEF a, b

\* Stripping takes blanks only.
LEMMA StripSays ==
  ASSUME NEW C, NEW s \in Seq(C), NEW K, Blank \cap K = {}
  PROVE  Chosen(Strip(s), K) = Chosen(s, K)
  <1>. DEFINE solid == {i \in DOMAIN s : s[i] \notin Blank}
              n == Len(s)
  <1>1. n \in Nat /\ solid \in SUBSET (1..n) /\ \A i \in 1..n : i \notin solid => s[i] \in Blank
    OBVIOUS
  <1>2. CASE solid = {}
    <2>1. \A i \in 1..n : s[i] \in Blank
      BY <1>1, <1>2
    <2>2. s \in Seq(Blank)
      <3>1. s \in [1..n -> Blank]
        BY <2>1
      <3> QED
        BY <1>1, <3>1, FunctionIsSequence
    <2>3. Strip(s) = <<>>
      BY <1>2 DEF Strip
    <2> QED
      BY <2>2, <2>3, NothingChosen, ChosenEmpty
  <1>3. CASE solid # {}
    <2>. DEFINE a == Min(solid)
                b == Max(solid)
    <2>1. a \in 1..n /\ b \in a..n /\ \A i \in solid : a <= i /\ i <= b
      <3>. HIDE DEF solid
      <3>1. solid \in SUBSET Nat
        BY <1>1
      <3>2. Min(solid) \in solid /\ \A i \in solid : Min(solid) <= i
        BY <1>3, <3>1, MinIsLeast
      <3>3. Max(solid) \in solid /\ \A i \in solid : i <= Max(solid)
        BY <1>1, <1>3, MaxIsGreatest
      <3>4. Min(solid) \in 1..n /\ Max(solid) \in 1..n /\ Min(solid) <= Max(solid)
        BY <1>1, <3>2, <3>3
      <3> QED
        BY <3>2, <3>3, <3>4
    <2>2. Strip(s) = SubSeq(s, a, b)
      BY <1>3 DEF Strip
    <2>. HIDE DEF a, b, solid, n
    <2>3. \A i \in 1..n : i < a \/ i > b => s[i] \in Blank
      BY <1>1, <2>1
    <2>4. SubSeq(s, 1, a - 1) \in Seq(Blank)
      <3>1. SubSeq(s, 1, a - 1) = [i \in 1..(a - 1) |-> s[i]]
        BY <2>1 DEF n
      <3>2. \A i \in 1..(a - 1) : s[i] \in Blank
        BY <1>1, <2>1, <2>3
      <3>3. a - 1 \in Nat
        BY <2>1
      <3> QED
        BY <3>1, <3>2, <3>3, FunctionIsSequence
    <2>5. SubSeq(s, b + 1, n) \in Seq(Blank)
      <3>1. SubSeq(s, b + 1, n) = [i \in 1..(n - b) |-> s[i + b]]
        BY <1>1, <2>1 DEF n
      <3>2. \A i \in 1..(n - b) : s[i + b] \in Blank
        BY <1>1, <2>1, <2>3
      <3>3. n - b \in Nat
        BY <1>1, <2>1
      <3> QED
        BY <3>1, <3>2, <3>3, FunctionIsSequence
    <2>6. Chosen(SubSeq(s, 1, a - 1), K) = <<>> /\ Chosen(SubSeq(s, b + 1, n), K) = <<>>
      BY <2>4, <2>5, NothingChosen
    <2>7. /\ Chosen(SubSeq(s, 1, b), K) = Chosen(SubSeq(s, 1, a - 1), K) \o Chosen(SubSeq(s, a, b), K)
          /\ Chosen(SubSeq(s, 1, n), K) = Chosen(SubSeq(s, 1, b), K) \o Chosen(SubSeq(s, b + 1, n), K)
      <3>1. a - 1 \in 0..Len(s) /\ b \in (a - 1)..Len(s) /\ (a - 1) + 1 = a /\ b \in 0..Len(s) /\ n \in b..Len(s)
        BY <1>1, <2>1 DEF n
      <3>. DEFINE e == a - 1
      <3>4. e \in 0..Len(s) /\ b \in e..Len(s)
        BY <3>1
      <3>. HIDE DEF e
      <3>2. Chosen(SubSeq(s, 1, b), K) = Chosen(SubSeq(s, 1, e), K) \o Chosen(SubSeq(s, e + 1, b), K)
        BY <3>4, CutHere
      <3>3. Chosen(SubSeq(s, 1, n), K) = Chosen(SubSeq(s, 1, b), K) \o Chosen(SubSeq(s, b + 1, n), K)
        BY <3>1, CutHere
      <3> QED
        BY Zenon, <3>1, <3>2, <3>3 DEF e
    <2>8. SubSeq(s, 1, n) = s
      BY WholePrefix DEF n
    <2>9. Chosen(SubSeq(s, a, b), K) \in Seq(C)
      <3>1. SubSeq(s, a, b) \in Seq(C)
        BY <1>1, <2>1, PartIn DEF n
      <3> QED
        BY <3>1, ChosenIn
    <2>. DEFINE said == Chosen(SubSeq(s, a, b), K)
    <2>10. (<<>> \o said) \o <<>> = said
      <3>. HIDE DEF said
      <3> QED
        BY <2>9 DEF said
    <2> QED
      BY Zenon, <2>2, <2>6, <2>7, <2>8, <2>10
  <1> QED
    BY <1>2, <1>3

\* Empty texts say nothing.
LEMMA NonEmptySays ==
  ASSUME NEW C, NEW ss \in Seq(Seq(C)), NEW K
  PROVE  Said(NonEmpty(ss), K) = Said(ss, K)
  <1>. DEFINE M == Seq(C) \ {<<>>}
  <1>1. \A i \in DOMAIN ss : ss[i] \in Seq(C)
    OBVIOUS
  <1>2. {i \in DOMAIN ss : ss[i] # <<>>} = {i \in DOMAIN ss : ss[i] \in M}
    BY <1>1
  <1>3. NonEmpty(ss) = Chosen(ss, M)
    BY <1>2 DEF NonEmpty, Chosen
  <1>4. \A s \in Seq(C) : s \notin M => Chosen(s, K) = <<>>
    BY ChosenEmpty
  <1>. HIDE DEF M
  <1> QED
    BY <1>3, <1>4, SaidChosen

\* Stripping the texts of a list takes nothing from what they say.
LEMMA StrippedSays ==
  ASSUME NEW C, NEW ss \in Seq(Seq(C)), NEW K, Blank \cap K = {}
  PROVE  Stripped(ss) \in Seq(Seq(C)) /\ Said(Stripped(ss), K) = Said(ss, K)
  <1>. DEFINE f == [k \in DOMAIN ss |-> Strip(ss[k])]
  <1>1. \A s \in Seq(C) : Strip(s) \in Seq(C) /\ Chosen(Strip(s), K) = Chosen(s, K)
    BY StripParts, StripSays
  <1>2. f = [k \in DOMAIN ss |-> f[k]] /\ \A k \in DOMAIN ss : ss[k] \in Seq(C) /\ f[k] = Strip(ss[k])
    OBVIOUS
  <1>3. Stripped(ss) = NonEmpty(f)
    BY DEF Stripped
  <1>4. DOMAIN f = DOMAIN ss
    OBVIOUS
  <1>. HIDE DEF f
  <1>5. f \in Seq(Seq(C))
    <2>1. \A k \in DOMAIN ss : f[k] \in Seq(C)
      BY <1>1, <1>2
    <2>2. f = [k \in DOMAIN ss |-> f[k]]
      BY <1>2
    <2> QED
      BY <2>1, <2>2, SameLength
  <1>6. Len(f) = Len(ss) /\ DOMAIN f = 1..Len(f) 
    BY <1>4, <1>5
  <1>7. \A k \in 1..Len(f) : Chosen(f[k], K) = Chosen(ss[k], K)
    BY <1>1, <1>2, <1>4, <1>6
  <1>8. Said(f, K) = Said(ss, K)
    BY <1>5, <1>6, <1>7, SaidSame
  <1>9. Said(NonEmpty(f), K) = Said(f, K) /\ NonEmpty(f) \in Seq(Seq(C))
    BY <1>5, NonEmptySays, NonEmptyParts
  <1> QED
    BY <1>3, <1>8, <1>9

\* The parts are spans of s that follow each other, the k-th from b[k] + 1 to
\* e[k], and what is left out between them says nothing.
Spans(parts, s, b, e, K) ==
    /\ e[0] = 0 /\ e[Len(parts)] = Len(s)
    /\ \A k \in 1..Len(parts) :
          /\ b[k] \in 0..Len(s) /\ e[k] \in b[k]..Len(s)
          /\ parts[k] = SubSeq(s, b[k] + 1, e[k])
          /\ Chosen(SubSeq(s, 1, b[k]), K) = Chosen(SubSeq(s, 1, e[k - 1]), K)

LEMMA SpansSay ==
  ASSUME NEW C, NEW s \in Seq(C), NEW K, NEW parts \in Seq(Seq(C)), NEW b, NEW e,
         Spans(parts, s, b, e, K)
  PROVE  Said(parts, K) = Chosen(s, K)
  <1>. DEFINE m == Len(parts)
              says == [k \in 0..m |-> Chosen(SubSeq(s, 1, e[k]), K)]
  <1>1. m \in Nat /\ \A k \in 1..m : k \in 0..m /\ k - 1 \in 0..m
    OBVIOUS
  <1>2. says[0] = <<>>
    <2>1. SubSeq(s, 1, 0) = <<>> /\ 0 \in 0..m
      BY <1>1, WholePrefix
    <2>2. says[0] = Chosen(SubSeq(s, 1, e[0]), K) /\ e[0] = 0
      BY <2>1 DEF Spans
    <2> QED
      BY Zenon, <2>1, <2>2, ChosenEmpty
  <1>3. ASSUME NEW k \in 1..m PROVE says[k] = says[k - 1] \o Chosen(parts[k], K)
    <2>1. says[k] = Chosen(SubSeq(s, 1, e[k]), K) /\ says[k - 1] = Chosen(SubSeq(s, 1, e[k - 1]), K)
      BY <1>1
    <2>. DEFINE x == b[k]
                y == e[k]
    <2>2. x \in 0..Len(s) /\ y \in x..Len(s)
      BY DEF Spans
    <2>3. parts[k] = SubSeq(s, x + 1, y) /\ Chosen(SubSeq(s, 1, x), K) = Chosen(SubSeq(s, 1, e[k - 1]), K)
      BY DEF Spans
    <2>. HIDE DEF x, y, says
    <2>4. Chosen(SubSeq(s, 1, y), K) = Chosen(SubSeq(s, 1, x), K) \o Chosen(SubSeq(s, x + 1, y), K)
      BY <2>2, CutHere
    <2> QED
      BY Zenon, <2>1, <2>3, <2>4 DEF y
  <1>4. says[m] = Chosen(s, K)
    <2>1. SubSeq(s, 1, Len(s)) = s /\ m \in 0..m
      BY <1>1, WholePrefix
    <2>2. says[m] = Chosen(SubSeq(s, 1, e[m]), K) /\ e[m] = Len(s)
      BY <2>1 DEF Spans
    <2> QED
      BY Zenon, <2>1, <2>2
  <1>. HIDE DEF says
  <1>5. Said(parts, K) = says[Len(parts)]
    BY <1>2, <1>3, SaidByPrefix
  <1> QED
    BY <1>4, <1>5

-----------------------------------------------------------------------------
(* hard_split_by_token_limit                                                *)

LEMMA SpanStartsAre ==
  ASSUME NEW C, NEW s \in Seq(C), NEW most \in Nat, most > 0, WordCount(s) > most
  PROVE  /\ Len(SpanStarts(s, most)) \in Nat /\ Len(SpanStarts(s, most)) >= 2
         /\ WordCount(s) <= Len(SpanStarts(s, most)) * most
         /\ SpanStarts(s, most)[1] = 1
         /\ \A k \in 1..(Len(SpanStarts(s, most)) - 1) :
               /\ k * most + 1 \in 1..WordCount(s)
               /\ SpanStarts(s, most)[k + 1] = Ordered(Starts(s))[k * most + 1]
  <1>. DEFINE words == Ordered(Starts(s))
              count == WordCount(s)
              q == (count - 1) \div most
              rest == [k \in 1..q |-> words[k * most + 1]]
  <1>1. count \in Nat /\ WordStarts(s) = words /\ Len(words) = count
    BY StartsFinite, OrderedParts
  <1>2. q \in Nat /\ q * most <= count - 1 /\ count - 1 < (q + 1) * most
    <2>. HIDE DEF count
    <2>1. count - 1 \in Nat
      BY <1>1 DEF count
    <2> QED
      BY <2>1, Division
  <1>3. q >= 1
    BY SMTT(30), <1>1, <1>2
  <1>4. SpanStarts(s, most) = <<1>> \o rest
    <2>1. Len(WordStarts(s)) = count
      BY <1>1
    <2> QED
      BY <1>1, <2>1 DEF SpanStarts
  <1>. HIDE DEF words, count, q
  <1>5. /\ rest \in Seq({words[j] : j \in Int}) /\ Len(rest) = q
        /\ \A k \in 1..q : rest[k] = words[k * most + 1]
    <2>1. \A k \in 1..q : k * most + 1 \in Int
      BY <1>2
    <2> QED
      BY <1>2, <2>1
  <1>6. ASSUME NEW k \in 1..q PROVE k * most + 1 \in 1..count
    <2>1. k * most <= q * most /\ k * most \in Nat
      BY <1>2, Products
    <2> QED
      BY <1>1, <1>2, <2>1
  <1>. HIDE DEF rest
  <1>7. \A k \in 1..q : SpanStarts(s, most)[k + 1] = words[k * most + 1]
    BY <1>2, <1>4, <1>5
  <1>8. Len(SpanStarts(s, most)) = q + 1 /\ SpanStarts(s, most)[1] = 1
    BY <1>2, <1>4, <1>5
  <1>9. count <= (q + 1) * most
    BY <1>1, <1>2
  <1>10. (q + 1) - 1 = q /\ q + 1 \in Nat /\ q + 1 >= 2
    BY <1>2, <1>3
  <1> QED
    BY <1>6, <1>7, <1>8, <1>9, <1>10 DEF words, count, q

\* A span holds most words at most: those from its start to the next one.
SpanEnd(s, most, k) ==
    IF k = Len(SpanStarts(s, most)) THEN Len(s) ELSE SpanStarts(s, most)[k + 1] - 1

LEMMA SpanCount ==
  ASSUME NEW C, NEW s \in Seq(C), NEW most \in Nat, most > 0, WordCount(s) > most,
         NEW k \in 1..Len(SpanStarts(s, most))
  PROVE  /\ SpanStarts(s, most)[k] \in 1..Len(s)
         /\ SpanEnd(s, most, k) \in 1..Len(s)
         /\ SpanStarts(s, most)[k] = 1 \/ StartsWord(s, SpanStarts(s, most)[k])
         /\ WordCount(SubSeq(s, SpanStarts(s, most)[k], SpanEnd(s, most, k))) <= most
  <1>. DEFINE starts == SpanStarts(s, most)
              n == Len(starts)
              I == Starts(s)
              W == Ordered(I)
              count == WordCount(s)
              a == starts[k]
              e == SpanEnd(s, most, k)
              lo == (k - 1) * most + 1
              hi == k * most
  <1>1. /\ n \in Nat /\ n >= 2 /\ count <= n * most
        /\ starts[1] = 1
        /\ \A i \in 1..(n - 1) : i * most + 1 \in 1..count /\ starts[i + 1] = W[i * most + 1]
    BY SpanStartsAre
  <1>2. /\ I \in SUBSET (1..Len(s)) /\ IsFiniteSet(I) /\ I \in SUBSET Int
        /\ count = Cardinality(I) /\ count \in Nat /\ Len(s) \in Nat
        /\ 1 \in 1..count
    <2>1. count \in Nat /\ count > most
      BY StartsFinite
    <2>. HIDE DEF count
    <2>2. 1 \in 1..count
      BY <2>1
    <2> QED
      BY <2>1, <2>2, StartsFinite DEF count
  <1>3. /\ \A i \in 1..count : W[i] \in I
        /\ \A i, j \in 1..count : i < j => W[i] < W[j]
    <2>. HIDE DEF I
    <2>1. /\ W \in Seq(I) /\ Len(W) = count
          /\ \A i, j \in 1..count : i < j => W[i] < W[j]
      BY <1>2, OrderedParts
    <2>. HIDE DEF W
    <2> QED
      BY <2>1
  <1>4. k \in 1..n
    OBVIOUS
  <1>. HIDE DEF starts, n, I, W, count
  <1>5. /\ lo \in Nat /\ hi \in Nat /\ lo <= hi + 1 /\ hi - lo + 1 = most
    <2>1. (k - 1) * most \in Nat /\ k * most \in Nat /\ k * most = (k - 1) * most + most
      BY <1>1, <1>4
    <2> QED
      BY <2>1
  <1>6. k # 1 => lo \in 1..count /\ a = W[lo]
    <2>1. k # 1 => k - 1 \in 1..(n - 1) /\ (k - 1) + 1 = k
      BY <1>1, <1>4
    <2> QED
      BY <1>1, <2>1
  <1>7. k # n => hi + 1 \in 1..count /\ e = W[hi + 1] - 1
    <2>1. k # n => k \in 1..(n - 1)
      BY <1>1, <1>4
    <2> QED
      BY <1>1, <2>1 DEF SpanEnd, starts, n
  <1>8. k = n => e = Len(s)
    BY DEF SpanEnd, starts, n
  <1>9. k = 1 => a = 1
    BY <1>1
  <1>. HIDE DEF a, e, lo, hi
  <1>10. a \in 1..Len(s) /\ (a = 1 \/ a \in I)
    <2>1. CASE k = 1
      <3>1. W[1] \in 1..Len(s)
        BY <1>2, <1>3
      <3> QED
        BY <1>2, <1>9, <2>1, <3>1
    <2>2. CASE k # 1
      BY <1>2, <1>3, <1>6, <2>2
    <2> QED
      BY <2>1, <2>2
  <1>11. e \in 1..Len(s)
    <2>1. CASE k = n
      BY <1>2, <1>8, <1>10, <2>1
    <2>2. CASE k # n
      <3>1. hi >= 1
        BY <1>1, <1>4, <1>5 DEF lo
      <3>2. hi + 1 \in 1..count /\ 1 < hi + 1
        BY <1>5, <1>7, <2>2, <3>1
      <3>3. W[1] < W[hi + 1] /\ W[1] \in 1..Len(s) /\ W[hi + 1] \in 1..Len(s)
        BY <1>2, <1>3, <3>2
      <3> QED
        BY <1>2, <1>7, <2>2, <3>3
    <2> QED
      BY <2>1, <2>2
  <1>12. ASSUME NEW j \in 1..count, W[j] \in I \cap (a..e) PROVE j \in lo..hi
    <2>1. W[j] \in Int /\ a <= W[j] /\ W[j] <= e /\ a \in Int /\ e \in Int
      BY <1>2, <1>10, <1>11, <1>12
    <2>2. lo <= j
      <3>1. CASE k = 1
        BY <1>2, <3>1 DEF lo
      <3>2. CASE k # 1
        <4>1. ~ (W[j] < W[lo])
          BY <1>6, <2>1, <3>2
        <4>2. ~ (j < lo)
          BY <1>3, <1>6, <3>2, <4>1
        <4> QED
          BY <1>2, <1>5, <4>2
      <3> QED
        BY <3>1, <3>2
    <2>3. j <= hi
      <3>1. CASE k = n
        BY <1>1, <1>2, <1>5, <3>1 DEF hi
      <3>2. CASE k # n
        <4>1. ~ (W[hi + 1] < W[j]) /\ W[hi + 1] # W[j]
          <5>1. W[hi + 1] \in Int
            BY <1>2, <1>3, <1>7, <3>2
          <5> QED
            BY <1>7, <2>1, <3>2, <5>1
        <4>2. ~ (hi + 1 < j) /\ hi + 1 # j
          BY <1>3, <1>7, <3>2, <4>1
        <4> QED
          BY <1>2, <1>5, <4>2
      <3> QED
        BY <3>1, <3>2
    <2> QED
      BY <1>2, <1>5, <2>2, <2>3
  <1>13. Cardinality(I \cap (a..e)) <= most
    <2>1. Cardinality(I \cap (a..e)) <= hi - lo + 1
      BY <1>2, <1>5, <1>12, PlacesCount DEF W
    <2> QED
      BY <1>5, <2>1
  <1>14. s[a] = "w" => StartsWord(s, a)
    BY <1>10 DEF StartsWord, I, Starts
  <1>15. /\ SubSeq(s, a, e) \in Seq(C)
         /\ WordCount(SubSeq(s, a, e)) <= Cardinality(I \cap (a..e))
         /\ Cardinality(I \cap (a..e)) \in Nat
    BY <1>10, <1>11, <1>14, WordsOfPart DEF I
  <1>16. WordCount(SubSeq(s, a, e)) \in Nat
    BY <1>15, StartsFinite
  <1>17. WordCount(SubSeq(s, a, e)) <= most
    BY <1>13, <1>15, <1>16
  <1>18. a = 1 \/ StartsWord(s, a)
    BY <1>10 DEF I, Starts
  <1> QED
    BY <1>10, <1>11, <1>17, <1>18 DEF a, e, starts

LEMMA HardSplitWithin ==
  ASSUME NEW C, NEW s \in Seq(C), NEW most \in Nat, most > 0, NEW limit \in Nat, most <= limit
  PROVE  HardSplit(s, most, limit) \in Seq(Within(C, limit))
  <1>. DEFINE starts == SpanStarts(s, most)
              n == Len(starts)
              joined == n >= 2 /\ CountTokens(SubSeq(s, starts[n - 1], Len(s))) <= limit
              m == IF joined THEN n - 1 ELSE n
              Span(k) == SubSeq(s, starts[k], IF k = m THEN Len(s) ELSE starts[k + 1] - 1)
              spans == [k \in 1..m |-> Span(k)]
  <1>1. HardSplit(s, most, limit) =
          IF WordCount(s) <= limit THEN Stripped(<<s>>) ELSE Stripped(spans)
    BY DEF HardSplit
  <1>2. ASSUME NEW ss \in Seq(Within(C, limit)) PROVE Stripped(ss) \in Seq(Within(C, limit))
    BY StripWithin, StrippedParts
  <1>3. WordCount(s) \in Nat
    BY StartsFinite
  <1>4. CASE WordCount(s) <= limit
    <2>1. s \in Within(C, limit)
      BY <1>4, CountsWords DEF Within
    <2>2. <<s>> \in Seq(Within(C, limit))
      BY <2>1
    <2>. HIDE DEF spans
    <2> QED
      BY <1>1, <1>2, <1>4, <2>2
  <1>5. CASE WordCount(s) > limit
    <2>1. WordCount(s) > most
      BY <1>3, <1>5
    <2>2. n \in Nat /\ n >= 2
      BY <2>1, SpanStartsAre
    <2>. HIDE DEF n, starts
    <2>3. ASSUME NEW k \in 1..m PROVE Span(k) \in Within(C, limit)
      <3>1. k \in 1..n
        BY <2>2
      <3>2. /\ starts[k] \in 1..Len(s)
            /\ SpanEnd(s, most, k) \in 1..Len(s)
            /\ starts[k] = 1 \/ StartsWord(s, starts[k])
            /\ WordCount(SubSeq(s, starts[k], SpanEnd(s, most, k))) <= most
        BY <2>1, <3>1, SpanCount DEF starts, n
      <3>3. CASE joined /\ k = m
        <4>1. SubSeq(s, starts[n - 1], Len(s)) \in Seq(C)
          BY <3>2, <3>3
        <4> QED
          BY <3>3, <4>1 DEF Within
      <3>4. CASE ~ (joined /\ k = m)
        <4>1. Span(k) = SubSeq(s, starts[k], SpanEnd(s, most, k))
          <5>1. SpanEnd(s, most, k) = IF k = n THEN Len(s) ELSE starts[k + 1] - 1
            BY DEF SpanEnd, starts, n
          <5>2. k = n <=> k = m
            BY <2>2, <3>1, <3>4
          <5>. HIDE DEF m
          <5> QED
            BY <5>1, <5>2
        <4>2. SubSeq(s, starts[k], SpanEnd(s, most, k)) \in Seq(C)
          BY <3>2
        <4>3. WordCount(SubSeq(s, starts[k], SpanEnd(s, most, k))) \in Nat
          BY <4>2, StartsFinite
        <4>4. CountTokens(SubSeq(s, starts[k], SpanEnd(s, most, k))) <= limit
          <5>. DEFINE part == SubSeq(s, starts[k], SpanEnd(s, most, k))
          <5>1. part \in Seq(C) /\ WordCount(part) <= limit /\ limit > 0
            BY <3>2, <4>2, <4>3
          <5>. HIDE DEF part
          <5>2. CountTokens(part) <= limit
            BY <5>1, CountsWords
          <5> QED
            BY <5>2 DEF part
        <4> QED
          BY <4>1, <4>2, <4>4 DEF Within
      <3> QED
        BY <3>3, <3>4
    <2>4. m \in Nat
      BY <2>2
    <2>. HIDE DEF m
    <2>5. spans \in Seq(Within(C, limit))
      BY <2>3, <2>4
    <2>. HIDE DEF spans
    <2> QED
      BY <1>1, <1>2, <1>3, <1>5, <2>5
  <1>6. WordCount(s) <= limit \/ WordCount(s) > limit
    BY <1>3
  <1> QED
    BY <1>4, <1>5, <1>6

\* The spans of a hard split follow each other.
LEMMA SpanStartsGrow ==
  ASSUME NEW C, NEW s \in Seq(C), NEW most \in Nat, most > 0, WordCount(s) > most,
         NEW k \in 1..(Len(SpanStarts(s, most)) - 1)
  PROVE  /\ SpanStarts(s, most)[k] \in 1..Len(s) /\ SpanStarts(s, most)[k + 1] \in 1..Len(s)
         /\ SpanStarts(s, most)[k] <= SpanStarts(s, most)[k + 1]
  <1>. DEFINE starts == SpanStarts(s, most)
              n == Len(starts)
              I == Starts(s)
              W == Ordered(I)
              count == WordCount(s)
  <1>1. /\ n \in Nat /\ n >= 2 /\ starts[1] = 1
        /\ \A i \in 1..(n - 1) : i * most + 1 \in 1..count /\ starts[i + 1] = W[i * most + 1]
    BY SpanStartsAre
  <1>2. \A i \in 1..n : starts[i] \in 1..Len(s)
    BY SpanCount
  <1>3. \A i, j \in 1..count : i < j => W[i] < W[j]
    <2>1. I \in SUBSET Int /\ IsFiniteSet(I) /\ count = Cardinality(I)
      BY StartsFinite
    <2>. HIDE DEF I, count
    <2> QED
      BY <2>1, OrderedParts
  <1>4. k \in 1..(n - 1)
    OBVIOUS
  <1>. HIDE DEF starts, n, W, count
  <1>5. k \in 1..n /\ k + 1 \in 1..n
    BY <1>1, <1>4
  <1>6. starts[k] <= starts[k + 1]
    <2>1. CASE k = 1
      <3>1. starts[k + 1] \in 1..Len(s)
        BY <1>2, <1>5
      <3> QED
        BY <1>1, <2>1, <3>1
    <2>2. CASE k # 1
      <3>. DEFINE j == k - 1
      <3>1. j \in 1..(n - 1) /\ j + 1 = k /\ k = j + 1
        BY <1>1, <1>4, <2>2
      <3>2. j * most + 1 \in 1..count /\ starts[k] = W[j * most + 1]
        BY <1>1, <3>1
      <3>3. k * most + 1 \in 1..count /\ starts[k + 1] = W[k * most + 1]
        BY <1>1, <1>4
      <3>4. j * most + 1 < k * most + 1
        <4>1. j \in Nat /\ k \in Nat /\ j * most \in Nat /\ k * most = j * most + most
          BY <1>1, <1>4, <3>1
        <4> QED
          BY <4>1
      <3>5. W[j * most + 1] < W[k * most + 1]
        BY <1>3, <3>2, <3>3, <3>4
      <3>6. starts[k] \in 1..Len(s) /\ starts[k + 1] \in 1..Len(s)
        BY <1>2, <1>5
      <3>. HIDE DEF j
      <3> QED
        BY <3>2, <3>3, <3>5, <3>6
    <2> QED
      BY <2>1, <2>2
  <1> QED
    BY <1>2, <1>5, <1>6 DEF starts

\* A hard split cuts a text up and drops nothing.
LEMMA HardSplitSays ==
  ASSUME NEW C, NEW s \in Seq(C), NEW most \in Nat, most > 0, NEW limit \in Nat, most <= limit,
         NEW K, Blank \cap K = {}
  PROVE  HardSplit(s, most, limit) \in Seq(Seq(C)) /\ Said(HardSplit(s, most, limit), K) = Chosen(s, K)
  <1>. DEFINE starts == SpanStarts(s, most)
              n == Len(starts)
              joined == n >= 2 /\ CountTokens(SubSeq(s, starts[n - 1], Len(s))) <= limit
              m == IF joined THEN n - 1 ELSE n
              Span(k) == SubSeq(s, starts[k], IF k = m THEN Len(s) ELSE starts[k + 1] - 1)
              spans == [k \in 1..m |-> Span(k)]
              b == [k \in 1..m |-> starts[k] - 1]
              e == [k \in 0..m |-> IF k = 0 THEN 0 ELSE IF k = m THEN Len(s) ELSE starts[k + 1] - 1]
  <1>1. HardSplit(s, most, limit) =
          IF WordCount(s) <= limit THEN Stripped(<<s>>) ELSE Stripped(spans)
    BY DEF HardSplit
  <1>2. WordCount(s) \in Nat
    BY StartsFinite
  <1>3. CASE WordCount(s) <= limit
    <2>1. <<s>> \in Seq(Seq(C))
      OBVIOUS
    <2>2. Said(<<s>>, K) = Chosen(s, K)
      BY SaidOne
    <2>3. Stripped(<<s>>) \in Seq(Seq(C)) /\ Said(Stripped(<<s>>), K) = Said(<<s>>, K)
      BY <2>1, StrippedSays
    <2>. HIDE DEF spans
    <2> QED
      BY <1>1, <1>3, <2>2, <2>3
  <1>4. CASE ~ (WordCount(s) <= limit)
    <2>1. WordCount(s) > most
      BY <1>2, <1>4
    <2>2. n \in Nat /\ n >= 2 /\ starts[1] = 1
      BY <2>1, SpanStartsAre
    <2>3. \A k \in 1..n : starts[k] \in 1..Len(s)
      BY <2>1, SpanCount
    <2>4. \A k \in 1..(n - 1) : starts[k] <= starts[k + 1]
      BY <2>1, SpanStartsGrow
    <2>. HIDE DEF n, starts
    <2>5. m \in Nat /\ m >= 1 /\ m <= n
      BY <2>2
    <2>. HIDE DEF m
    <2>6. e[0] = 0 /\ e[m] = Len(s) /\ \A k \in 1..m : k # m => e[k] = starts[k + 1] - 1
      BY <2>5
    <2>7. \A k \in 1..m : b[k] = starts[k] - 1
      BY <2>5
    <2>8. \A k \in 1..m : spans[k] = SubSeq(s, starts[k], e[k])
      <3>1. \A k \in 1..m : spans[k] = SubSeq(s, starts[k], IF k = m THEN Len(s) ELSE starts[k + 1] - 1)
        OBVIOUS
      <3>. HIDE DEF e, spans
      <3> QED
        BY <2>6, <3>1
    <2>9. DOMAIN spans = 1..m /\ spans = [k \in 1..m |-> spans[k]]
      OBVIOUS
    <2>. HIDE DEF e, b, spans
    <2>10. Len(s) \in Nat
      OBVIOUS
    <2>11. ASSUME NEW k \in 1..m
           PROVE  /\ b[k] \in 0..Len(s) /\ e[k] \in b[k]..Len(s) /\ b[k] + 1 = starts[k]
                  /\ e[k - 1] = b[k] /\ starts[k] \in 1..Len(s)
      <3>1. starts[k] \in 1..Len(s) /\ b[k] = starts[k] - 1
        <4>1. k \in 1..n
          BY <2>2, <2>5
        <4> QED
          BY <2>3, <2>7, <4>1
      <3>2. e[k] \in b[k]..Len(s)
        <4>1. CASE k = m
          BY <2>6, <2>10, <3>1, <4>1
        <4>2. CASE k # m
          <5>1. k \in 1..(n - 1) /\ k + 1 \in 1..n
            BY <2>2, <2>5, <4>2
          <5>2. starts[k] <= starts[k + 1] /\ starts[k + 1] \in 1..Len(s)
            BY <2>3, <2>4, <5>1
          <5> QED
            BY <2>6, <2>10, <3>1, <4>2, <5>2
        <4> QED
          BY <4>1, <4>2
      <3>3. e[k - 1] = b[k]
        <4>1. CASE k = 1
          BY <2>2, <2>6, <3>1, <4>1
        <4>2. CASE k # 1
          <5>1. k - 1 \in 1..m /\ k - 1 # m /\ (k - 1) + 1 = k
            BY <2>5, <4>2
          <5>2. e[k - 1] = starts[(k - 1) + 1] - 1
            BY <2>6, <5>1
          <5> QED
            BY <3>1, <5>1, <5>2
        <4> QED
          BY <4>1, <4>2
      <3> QED
        BY <2>10, <3>1, <3>2, <3>3
    <2>12. spans \in Seq(Seq(C)) /\ Len(spans) = m
      <3>1. ASSUME NEW k \in 1..m PROVE spans[k] \in Seq(C)
        <4>. DEFINE x == starts[k]
                    y == e[k]
        <4>1. x \in Nat /\ x >= 1 /\ y \in Int /\ y <= Len(s)
          BY <2>10, <2>11
        <4>2. spans[k] = SubSeq(s, x, y)
          BY <2>8
        <4>. HIDE DEF x, y
        <4>3. SubSeq(s, x, y) \in Seq(C)
          BY <4>1, PartIn
        <4> QED
          BY <4>2, <4>3
      <3>2. spans \in [1..m -> Seq(C)]
        BY <2>9, <3>1
      <3> QED
        BY <2>5, <3>2, FunctionIsSequence
    <2>13. ASSUME NEW k \in 1..m
           PROVE  /\ b[k] \in 0..Len(s) /\ e[k] \in b[k]..Len(s)
                  /\ spans[k] = SubSeq(s, b[k] + 1, e[k])
                  /\ Chosen(SubSeq(s, 1, b[k]), K) = Chosen(SubSeq(s, 1, e[k - 1]), K)
      BY Zenon, <2>8, <2>11
    <2>14. Spans(spans, s, b, e, K)
      BY Zenon, <2>6, <2>12, <2>13 DEF Spans
    <2>15. Said(spans, K) = Chosen(s, K)
      BY <2>12, <2>14, SpansSay
    <2>16. Stripped(spans) \in Seq(Seq(C)) /\ Said(Stripped(spans), K) = Said(spans, K)
      BY <2>12, StrippedSays
    <2>17. HardSplit(s, most, limit) = Stripped(spans)
      BY <1>1, <1>4 DEF m, n, starts
    <2> QED
      BY <2>15, <2>16, <2>17
  <1> QED
    BY <1>3, <1>4

-----------------------------------------------------------------------------
(* Sections                                                                 *)

LEMMA SplitParts ==
  ASSUME NEW C, NEW s \in Seq(C), NEW ch
  PROVE  SplitOn(s, ch) \in Seq(Seq(C))
  <1>. DEFINE I == {i \in DOMAIN s : s[i] = ch}
              cuts == <<0>> \o Ordered(I) \o <<Len(s) + 1>>
              parts == [k \in 1..(Len(cuts) - 1) |-> SubSeq(s, cuts[k] + 1, cuts[k + 1] - 1)]
  <1>1. I \in SUBSET (1..Len(s)) /\ IsFiniteSet(1..Len(s))
    BY FS_Interval
  <1>2. I \in SUBSET Int /\ IsFiniteSet(I)
    BY <1>1, FS_Subset
  <1>3. Ordered(I) \in Seq(I)
    BY <1>2, OrderedParts
  <1>4. cuts \in Seq(0..(Len(s) + 1)) /\ Len(cuts) >= 2
    <2>1. Ordered(I) \in Seq(0..(Len(s) + 1))
      BY <1>1, <1>3
    <2>. HIDE DEF I
    <2>2. Len(s) + 1 \in 0..(Len(s) + 1) /\ 0 \in 0..(Len(s) + 1)
      OBVIOUS
    <2> QED
      BY <2>1, <2>2
  <1>5. SplitOn(s, ch) = parts
    BY DEF SplitOn, Positions
  <1>. HIDE DEF cuts
  <1>6. ASSUME NEW k \in 1..(Len(cuts) - 1)
        PROVE  SubSeq(s, cuts[k] + 1, cuts[k + 1] - 1) \in Seq(C)
    <2>1. cuts[k] \in 0..(Len(s) + 1) /\ cuts[k + 1] \in 0..(Len(s) + 1)
      BY <1>4
    <2>2. cuts[k] + 1 \in Nat /\ cuts[k] + 1 >= 1 /\ cuts[k + 1] - 1 \in Int /\ cuts[k + 1] - 1 <= Len(s)
      BY <2>1
    <2> QED
      BY <2>2, PartIn
  <1>7. Len(cuts) - 1 \in Nat
    BY <1>4
  <1> QED
    BY <1>5, <1>6, <1>7

\* A split drops the delimiter only.
LEMMA SplitSays ==
  ASSUME NEW C, NEW s \in Seq(C), NEW ch, NEW K, ch \notin K
  PROVE  Said(SplitOn(s, ch), K) = Chosen(s, K)
  <1>. DEFINE I == {i \in DOMAIN s : s[i] = ch}
              at == Ordered(I)
              n == Cardinality(I)
              cuts == <<0>> \o at \o <<Len(s) + 1>>
              parts == SplitOn(s, ch)
              e == [k \in 0..(n + 1) |-> IF k = 0 THEN 0 ELSE cuts[k + 1] - 1]
  <1>1. I \in SUBSET (1..Len(s)) /\ IsFiniteSet(1..Len(s)) /\ Len(s) \in Nat /\ \A i \in I : s[i] = ch
    BY FS_Interval
  <1>2. I \in SUBSET Int /\ IsFiniteSet(I)
    BY <1>1, FS_Subset
  <1>3. /\ at \in Seq(I) /\ Len(at) = n /\ n \in Nat
        /\ \A k, l \in 1..n : k < l => at[k] < at[l]
    <2>. HIDE DEF I
    <2> QED
      BY <1>2, OrderedParts
  <1>4. parts \in Seq(Seq(C)) /\ parts = [k \in 1..(Len(cuts) - 1) |-> SubSeq(s, cuts[k] + 1, cuts[k + 1] - 1)]
    BY SplitParts DEF SplitOn, Positions
  <1>. HIDE DEF I, at, n, parts
  <1>5. /\ Len(cuts) = n + 2 /\ cuts[1] = 0 /\ cuts[n + 2] = Len(s) + 1
        /\ \A k \in 1..n : cuts[k + 1] = at[k]
    <2>1. at \in Seq(Int) /\ Len(s) + 1 \in Int
      <3>1. \A i \in I : i \in Int
        BY <1>2
      <3>2. at \in Seq(Int)
        BY <1>3, <3>1, SequenceOver
      <3> QED
        BY <1>1, <3>2
    <2>. DEFINE end == Len(s) + 1
    <2>. HIDE DEF end
    <2> QED
      BY <1>3, <2>1 DEF end
  <1>6. \A k \in 1..n : at[k] \in I /\ at[k] \in 1..Len(s)
    <2>1. DOMAIN at = 1..n
      BY <1>3
    <2>2. \A k \in DOMAIN at : at[k] \in I
      BY <1>3, ItemsIn
    <2> QED
      BY <1>1, <2>1, <2>2
  <1>. HIDE DEF cuts
  <1>7. Len(parts) = n + 1
    BY <1>3, <1>4, <1>5
  <1>8. \A k \in 1..(n + 1) : /\ k = 1 => cuts[k] = 0
                              /\ k # 1 => cuts[k] = at[k - 1] /\ k - 1 \in 1..n
                              /\ k = n + 1 => cuts[k + 1] = Len(s) + 1
                              /\ k # n + 1 => cuts[k + 1] = at[k] /\ k \in 1..n
    <2>1. ASSUME NEW k \in 1..(n + 1), k # 1 PROVE cuts[k] = at[k - 1] /\ k - 1 \in 1..n
      <3>1. k - 1 \in 1..n /\ (k - 1) + 1 = k
        BY <1>3, <2>1
      <3>2. cuts[(k - 1) + 1] = at[k - 1]
        BY <1>5, <3>1
      <3> QED
        BY <3>1, <3>2
    <2>2. ASSUME NEW k \in 1..(n + 1), k = n + 1 PROVE cuts[k + 1] = Len(s) + 1
      <3>1. k + 1 = n + 2
        BY <1>3, <2>2
      <3> QED
        BY <1>5, <3>1
    <2>3. ASSUME NEW k \in 1..(n + 1), k # n + 1 PROVE cuts[k + 1] = at[k] /\ k \in 1..n
      <3>1. k \in 1..n
        BY <1>3, <2>3
      <3> QED
        BY <1>5, <3>1
    <2> QED
      BY <1>5, <2>1, <2>2, <2>3
  <1>9. ASSUME NEW k \in 1..(n + 1)
        PROVE  /\ cuts[k] \in 0..Len(s) /\ cuts[k + 1] - 1 \in cuts[k]..Len(s)
               /\ k # 1 => cuts[k] \in 1..Len(s) /\ s[cuts[k]] = ch
    <2>1. k # 1 => k - 1 \in 1..n /\ cuts[k] = at[k - 1]
      BY <1>8
    <2>2. k # 1 => cuts[k] \in 1..Len(s) /\ s[cuts[k]] = ch
      BY <1>1, <1>6, <2>1
    <2>3. cuts[k] \in 0..Len(s)
      BY <1>1, <1>8, <2>2
    <2>4. cuts[k + 1] \in Int /\ cuts[k] < cuts[k + 1] /\ cuts[k + 1] <= Len(s) + 1
      <3>1. CASE k = n + 1
        BY <1>1, <1>8, <2>3, <3>1
      <3>2. CASE k # n + 1
        <4>1. k \in 1..n /\ cuts[k + 1] = at[k] /\ at[k] \in 1..Len(s)
          BY <1>6, <1>8, <3>2
        <4>2. CASE k = 1
          BY <1>1, <1>8, <4>1, <4>2
        <4>3. CASE k # 1
          <5>1. k - 1 \in 1..n /\ k - 1 < k
            BY <2>1, <4>3
          <5>2. at[k - 1] < at[k]
            BY <1>3, <4>1, <5>1
          <5> QED
            BY <1>1, <2>1, <4>1, <4>3, <5>2
        <4> QED
          BY <4>2, <4>3
      <3> QED
        BY <3>1, <3>2
    <2>5. cuts[k + 1] - 1 \in cuts[k]..Len(s)
      BY <1>1, <2>3, <2>4
    <2> QED
      BY <2>2, <2>3, <2>5
  <1>10. e[0] = 0 /\ \A k \in 1..(n + 1) : e[k] = cuts[k + 1] - 1
    BY <1>3
  <1>. HIDE DEF e
  <1>11. e[n + 1] = Len(s)
    <2>1. n + 1 \in 1..(n + 1)
      BY <1>3
    <2>2. e[n + 1] = cuts[(n + 1) + 1] - 1 /\ cuts[(n + 1) + 1] = Len(s) + 1
      BY <1>8, <1>10, <2>1
    <2> QED
      BY <1>1, <2>2
  <1>12. ASSUME NEW k \in 1..(n + 1)
         PROVE  /\ cuts[k] \in 0..Len(s) /\ e[k] \in cuts[k]..Len(s)
                /\ parts[k] = SubSeq(s, cuts[k] + 1, e[k])
                /\ Chosen(SubSeq(s, 1, cuts[k]), K) = Chosen(SubSeq(s, 1, e[k - 1]), K)
    <2>1. cuts[k] \in 0..Len(s) /\ e[k] \in cuts[k]..Len(s) /\ e[k] = cuts[k + 1] - 1
      BY <1>9, <1>10
    <2>2. parts[k] = SubSeq(s, cuts[k] + 1, cuts[k + 1] - 1)
      <3>1. Len(cuts) - 1 = n + 1
        BY <1>3, <1>5
      <3> QED
        BY Zenon, <1>4, <3>1
    <2>3. CASE k = 1
      <3>1. cuts[k] = 0 /\ e[k - 1] = 0
        BY <1>8, <1>10, <2>3
      <3> QED
        BY <2>1, <2>2, <3>1
    <2>4. CASE k # 1
      <3>. DEFINE c == cuts[k]
      <3>1. c \in 1..Len(s) /\ s[c] \notin K
        BY <1>9, <2>4
      <3>2. e[k - 1] = c - 1
        <4>1. k - 1 \in 1..(n + 1) /\ (k - 1) + 1 = k
          BY <1>3, <2>4
        <4>2. e[k - 1] = cuts[(k - 1) + 1] - 1
          BY <1>10, <4>1
        <4> QED
          BY <4>1, <4>2
      <3>. HIDE DEF c
      <3>3. Chosen(SubSeq(s, 1, c), K) = Chosen(SubSeq(s, 1, c - 1), K)
        BY <3>1, DroppedHere
      <3> QED
        BY <2>1, <2>2, <3>2, <3>3 DEF c
    <2> QED
      BY <2>3, <2>4
  <1>13. parts \in Seq(Seq(C)) /\ e[Len(parts)] = Len(s) /\ Len(parts) = n + 1
    BY <1>4, <1>7, <1>11
  <1>14. \A k \in 1..Len(parts) :
            /\ cuts[k] \in 0..Len(s) /\ e[k] \in cuts[k]..Len(s)
            /\ parts[k] = SubSeq(s, cuts[k] + 1, e[k])
            /\ Chosen(SubSeq(s, 1, cuts[k]), K) = Chosen(SubSeq(s, 1, e[k - 1]), K)
    BY Zenon, <1>12, <1>13
  <1>15. Spans(parts, s, cuts, e, K)
    BY Zenon, <1>10, <1>13, <1>14 DEF Spans
  <1>16. Said(parts, K) = Chosen(s, K)
    BY <1>13, <1>15, SpansSay
  <1> QED
    BY <1>16 DEF parts

\* What a split into sections drops is no content.
LEMMA SectionsSay ==
  ASSUME NEW C, NEW s \in Seq(C), NEW c
  PROVE  /\ Sections(s, c) \in Seq(Seq(C))
         /\ Said(Sections(s, c), C \ Dropped(c)) = Chosen(s, C \ Dropped(c))
  <1>. DEFINE ch == IF c.delimiter = "char" THEN "|" ELSE "/"
              K == C \ Dropped(c)
              parts == SplitOn(s, ch)
  <1>1. ch \notin K /\ Blank \cap K = {}
    <2>1. c.delimiter = "char" => c.delimiter # "line"
      OBVIOUS
    <2>2. "/" \in Blank
      BY DEF Blank
    <2> QED
      BY <2>1, <2>2 DEF Dropped
  <1>2. Sections(s, c) = IF Stripped(parts) = <<>> THEN Stripped(<<s>>) ELSE Stripped(parts)
    BY DEF Sections
  <1>. HIDE DEF ch, K
  <1>3. parts \in Seq(Seq(C))
    BY SplitParts
  <1>4. Said(parts, K) = Chosen(s, K)
    BY <1>1, SplitSays
  <1>. HIDE DEF parts
  <1>5. Stripped(parts) \in Seq(Seq(C)) /\ Said(Stripped(parts), K) = Said(parts, K)
    BY <1>1, <1>3, StrippedSays
  <1>6. Stripped(<<s>>) \in Seq(Seq(C)) /\ Said(Stripped(<<s>>), K) = Chosen(s, K)
    <2>1. <<s>> \in Seq(Seq(C))
      OBVIOUS
    <2>2. Stripped(<<s>>) \in Seq(Seq(C)) /\ Said(Stripped(<<s>>), K) = Said(<<s>>, K)
      BY <1>1, <2>1, StrippedSays
    <2>3. Said(<<s>>, K) = Chosen(s, K)
      BY SaidOne
    <2> QED
      BY <2>2, <2>3
  <1> QED
    BY <1>2, <1>4, <1>5, <1>6 DEF K

-----------------------------------------------------------------------------
(* Reading one sequence in another, as IsSubsequence does                   *)

\* One item more is read of s if it is the next one.
ReadNext(s, k, x) == IF k <= Len(s) /\ s[k] = x THEN k + 1 ELSE k

\* How far s is read when t has been read
Reading(s, t) == FoldLeft(LAMBDA k, ch : ReadNext(s, k, ch), 1, t)

\* The reading prefix by prefix: h[k] is how far s is read after k items of t.
Reads(s, t, h) ==
    /\ h \in [0..Len(t) -> Nat]
    /\ h[0] = 1 /\ h[Len(t)] = Reading(s, t)
    /\ \A k \in 1..Len(t) : h[k] = ReadNext(s, h[k - 1], t[k])

LEMMA ReadingByPrefixes ==
  ASSUME NEW A, NEW s \in Seq(A), NEW t \in Seq(A)
  PROVE  \E h : Reads(s, t, h)
  <1>. DEFINE n == Len(t)
              Step(acc, k) == ReadNext(s, acc, t[k])
              g == [p \in Nat \X (1..n) |-> Step(p[1], p[2])]
              IsRead(it) == it = [S \in SUBSET (1..n) |->
                                    IF S = {} THEN 1 ELSE Step(it[S \ {Max(S)}], Max(S))]
              read == CHOOSE it : IsRead(it)
  <1>1. n \in Nat /\ DOMAIN t = 1..n /\ 1 \in Nat
    OBVIOUS
  <1>2. \A acc \in Nat, k \in 1..n : Step(acc, k) \in Nat
    BY DEF ReadNext
  <1>. HIDE DEF Step, n
  <1>3. g \in [Nat \X (1..n) -> Nat]
    BY <1>2
  <1>4. \A S \in SUBSET (1..n) : S # {} => Max(S) \in S /\ Max(S) \in 1..n
    BY <1>1, MaxOfPlaces
  <1>5. \E it : IsRead(it)
    <2>1. HasSteps(Nat, 1, g, n)
      <3>. HIDE DEF g
      <3> QED
        BY <1>1, <1>3, FoldHasSteps
    <2>2. PICK it \in [SUBSET (1..n) -> Nat] :
            /\ it[{}] = 1
            /\ \A S \in SUBSET (1..n) : S # {} => it[S] = g[<<it[S \ {Max(S)}], Max(S)>>]
      BY <2>1 DEF HasSteps
    <2>3. ASSUME NEW S \in SUBSET (1..n), S # {} PROVE it[S] = Step(it[S \ {Max(S)}], Max(S))
      <3>1. it[S \ {Max(S)}] \in Nat /\ Max(S) \in 1..n
        BY <1>4, <2>3
      <3> QED
        BY <2>2, <2>3, <3>1
    <2>4. IsRead(it)
      BY <2>2, <2>3
    <2> QED
      BY <2>4
  <1>6. IsRead(read)
    BY <1>5
  <1>7. Reading(s, t) = read[1..n]
    BY Zenon, <1>1 DEF Reading, FoldLeft, MapThenFoldSet, read, Step
  <1>. HIDE DEF read
  <1>8. read[{}] = 1 /\ \A S \in SUBSET (1..n) : S # {} => read[S] = Step(read[S \ {Max(S)}], Max(S))
    BY <1>6
  <1>9. HasPrefixes(Nat, 1, g, n, read)
    <2>1. \A S \in SUBSET (1..n) : S # {} /\ read[S \ {Max(S)}] \in Nat =>
             read[S] = g[<<read[S \ {Max(S)}], Max(S)>>]
      BY <1>4, <1>8
    <2>. HIDE DEF g
    <2> QED
      BY <1>1, <1>3, <1>8, <2>1, FoldByPrefixes
  <1>10. PICK h \in [0..n -> Nat] :
           h[0] = 1 /\ h[n] = read[1..n] /\ \A k \in 1..n : h[k] = g[<<h[k - 1], k>>]
    BY <1>9 DEF HasPrefixes
  <1>11. \A k \in 1..n : h[k] = Step(h[k - 1], k)
    <2>1. \A k \in 1..n : k - 1 \in 0..n /\ h[k - 1] \in Nat
      BY <1>1
    <2> QED
      BY <1>10, <2>1
  <1> QED
    BY <1>7, <1>10, <1>11 DEF Reads, n, Step

\* Before anything is read
LEMMA ReadingEmpty ==
  ASSUME NEW A, NEW s \in Seq(A)
  PROVE  Reading(s, <<>>) = 1
  <1>1. <<>> \in Seq(A) /\ Len(<<>>) = 0
    OBVIOUS
  <1>2. PICK h : Reads(s, <<>>, h)
    BY <1>1, ReadingByPrefixes
  <1> QED
    BY <1>1, <1>2 DEF Reads

LEMMA ReadingIn ==
  ASSUME NEW A, NEW s \in Seq(A), NEW t \in Seq(A)
  PROVE  Reading(s, t) \in Nat
  <1>1. PICK h : Reads(s, t, h)
    BY ReadingByPrefixes
  <1>2. Len(t) \in 0..Len(t)
    OBVIOUS
  <1> QED
    BY <1>1, <1>2 DEF Reads

\* One item more
LEMMA ReadingAppend ==
  ASSUME NEW A, NEW s \in Seq(A), NEW t \in Seq(A), NEW x \in A
  PROVE  Reading(s, Append(t, x)) = ReadNext(s, Reading(s, t), x)
  <1>. DEFINE n == Len(t)
              long == Append(t, x)
  <1>1. /\ n \in Nat /\ long \in Seq(A) /\ Len(long) = n + 1 /\ long[n + 1] = x
        /\ \A k \in 1..n : long[k] = t[k]
    OBVIOUS
  <1>2. PICK h : Reads(s, t, h)
    BY ReadingByPrefixes
  <1>3. PICK g : Reads(s, long, g)
    BY <1>1, ReadingByPrefixes
  <1>. HIDE DEF long
  <1>. DEFINE T == {k \in 0..n : g[k] = h[k]}
  <1>4. 0 \in T
    BY <1>1, <1>2, <1>3 DEF Reads
  <1>5. ASSUME NEW k \in 1..n, k - 1 \in T PROVE k \in T
    <2>1. k \in 0..n /\ k \in 1..(n + 1) /\ g[k - 1] = h[k - 1] /\ long[k] = t[k]
      BY <1>1, <1>5
    <2>2. g[k] = ReadNext(s, g[k - 1], long[k]) /\ h[k] = ReadNext(s, h[k - 1], t[k])
      BY <1>1, <1>2, <1>3, <2>1 DEF Reads
    <2> QED
      BY <2>1, <2>2
  <1>. HIDE DEF T
  <1>6. n \in T
    BY <1>1, <1>4, <1>5, PrefixInduction
  <1>7. g[n] = Reading(s, t)
    BY <1>2, <1>6 DEF T, Reads
  <1>8. n + 1 \in 1..(n + 1) /\ (n + 1) - 1 = n
    BY <1>1
  <1>9. g[n + 1] = ReadNext(s, g[n], x)
    BY <1>1, <1>3, <1>8 DEF Reads
  <1> QED
    BY <1>1, <1>3, <1>7, <1>9 DEF Reads, long

\* Whatever comes between, what follows is read.
LEMMA ReadingGrows ==
  ASSUME NEW A, NEW s \in Seq(A), NEW t \in Seq(A), NEW v \in Seq(A)
  PROVE  Reading(s, t \o v) >= Reading(s, t)
  <1>. DEFINE G == {u \in Seq(A) : Reading(s, t \o u) >= Reading(s, t)}
  <1>0. \A w \in Seq(A), x \in A : Reading(s, Append(w, x)) = ReadNext(s, Reading(s, w), x)
    BY ReadingAppend
  <1>1. <<>> \in G
    <2>1. t \o <<>> = t /\ <<>> \in Seq(A)
      OBVIOUS
    <2>2. Reading(s, t) \in Nat
      BY ReadingIn
    <2> QED
      BY <2>1, <2>2
  <1>2. ASSUME NEW u \in Seq(A), NEW x \in A, u \in G PROVE Append(u, x) \in G
    <2>1. t \o Append(u, x) = Append(t \o u, x) /\ t \o u \in Seq(A) /\ Append(u, x) \in Seq(A)
      OBVIOUS
    <2>2. Reading(s, Append(t \o u, x)) = ReadNext(s, Reading(s, t \o u), x)
      BY Zenon, <1>0, <2>1
    <2>3. Reading(s, t \o u) \in Nat /\ Reading(s, t) \in Nat /\ Reading(s, t \o u) >= Reading(s, t)
      BY <1>2, <2>1, ReadingIn
    <2>4. ReadNext(s, Reading(s, t \o u), x) >= Reading(s, t \o u) /\ ReadNext(s, Reading(s, t \o u), x) \in Nat
      BY <2>3 DEF ReadNext
    <2>5. ReadNext(s, Reading(s, t \o u), x) >= Reading(s, t)
      BY <2>3, <2>4
    <2>6. Reading(s, t \o Append(u, x)) >= Reading(s, t)
      BY Zenon, <2>1, <2>2, <2>5
    <2> QED
      BY Zenon, <2>1, <2>6
  <1>. HIDE DEF G
  <1>3. v \in G
    BY <1>1, <1>2, SequenceInduction
  <1> QED
    BY <1>3 DEF G

\* What comes next in s is read on, wherever it is found.
LEMMA ReadingFollows ==
  ASSUME NEW A, NEW s \in Seq(A), NEW t \in Seq(A), NEW u \in Seq(A), NEW p \in Nat,
         p + Len(u) <= Len(s), \A i \in 1..Len(u) : s[p + i] = u[i],
         Reading(s, t) > p
  PROVE  Reading(s, t \o u) > p + Len(u)
  <1>. DEFINE n == Len(u)
              r == [k \in 0..n |-> Reading(s, t \o SubSeq(u, 1, k))]
              T == {k \in 0..n : r[k] > p + k}
  <1>0. \A v \in Seq(A), x \in A : Reading(s, Append(v, x)) = ReadNext(s, Reading(s, v), x)
    BY ReadingAppend
  <1>1. n \in Nat /\ \A k \in 1..n : k \in 0..n /\ k - 1 \in 0..n
    OBVIOUS
  <1>2. 0 \in T
    <2>1. SubSeq(u, 1, 0) = <<>>
      BY WholePrefix
    <2>2. t \o <<>> = t
      OBVIOUS
    <2>4. 0 \in 0..n
      BY <1>1
    <2>5. r[0] = Reading(s, t \o SubSeq(u, 1, 0))
      BY Zenon, <2>4
    <2>3. r[0] = Reading(s, t) /\ 0 \in 0..n
      BY Zenon, <2>1, <2>2, <2>4, <2>5
    <2> QED
      BY <2>3
  <1>3. ASSUME NEW k \in 1..n PROVE r[k - 1] \in Nat /\ r[k] = ReadNext(s, r[k - 1], u[k])
    <2>. DEFINE before == SubSeq(u, 1, k - 1)
                after == SubSeq(u, 1, k)
                x == u[k]
    <2>1. before \in Seq(A) /\ x \in A /\ after = Append(before, x)
      BY NextPrefix
    <2>2. r[k - 1] = Reading(s, t \o before) /\ r[k] = Reading(s, t \o after)
      BY <1>1
    <2>. HIDE DEF before, after, x, r
    <2>3. t \o Append(before, x) = Append(t \o before, x) /\ t \o before \in Seq(A)
      BY <2>1
    <2>4. Reading(s, Append(t \o before, x)) = ReadNext(s, Reading(s, t \o before), x)
      BY Zenon, <1>0, <2>1, <2>3
    <2>5. Reading(s, t \o before) \in Nat
      BY <2>3, ReadingIn
    <2> QED
      BY <2>1, <2>2, <2>3, <2>4, <2>5 DEF x
  <1>. HIDE DEF r
  <1>4. ASSUME NEW k \in 1..n, k - 1 \in T PROVE k \in T
    <2>1. r[k - 1] \in Nat /\ r[k - 1] > p + (k - 1) /\ k \in 0..n /\ k \in Nat
      BY <1>1, <1>3, <1>4
    <2>2. r[k] = ReadNext(s, r[k - 1], u[k])
      BY <1>3
    <2>3. p + k <= Len(s) /\ s[p + k] = u[k] /\ Len(s) \in Nat
      BY <1>1
    <2>4. CASE r[k - 1] = p + k
      BY <2>1, <2>2, <2>3, <2>4 DEF ReadNext
    <2>5. CASE r[k - 1] # p + k
      BY <2>1, <2>2, <2>5 DEF ReadNext
    <2> QED
      BY <2>4, <2>5
  <1>. HIDE DEF T
  <1>5. n \in T
    BY <1>1, <1>2, <1>4, PrefixInduction
  <1>6. SubSeq(u, 1, n) = u /\ n \in 0..n
    BY <1>1, WholePrefix
  <1>7. r[n] = Reading(s, t \o u)
    BY <1>6 DEF r
  <1> QED
    BY <1>5, <1>7 DEF T

LEMMA SubsequenceIsRead ==
  ASSUME NEW s, NEW t
  PROVE  IsSubsequence(s, t) <=> Reading(s, t) > Len(s)
  BY Zenon DEF IsSubsequence, Reading, ReadNext, FoldLeft, MapThenFoldSet

\* What is said is S, or with an overlap holds S.
Keeps(S, said, overlap) == (overlap = 0 => said = S) /\ Reading(S, said) > Len(S)

\* What says the same holds it.
LEMMA KeepsItself ==
  ASSUME NEW C, NEW S \in Seq(C), NEW overlap
  PROVE  Keeps(S, S, overlap)
  <1>1. <<>> \in Seq(C) /\ <<>> \o S = S /\ Len(S) \in Nat
    OBVIOUS
  <1>2. Reading(S, <<>>) = 1
    BY ReadingEmpty
  <1>3. 0 \in Nat /\ 0 + Len(S) <= Len(S) /\ 0 + Len(S) = Len(S) /\ \A i \in 1..Len(S) : S[0 + i] = S[i]
    BY <1>1
  <1>4. Reading(S, <<>>) > 0
    BY <1>2
  <1>5. Reading(S, <<>> \o S) > 0 + Len(S)
    BY Zenon, <1>1, <1>3, <1>4, ReadingFollows
  <1>6. Reading(S, S) > Len(S)
    BY Zenon, <1>1, <1>3, <1>5
  <1> QED
    BY <1>6 DEF Keeps

\* What is joined begins with its first part.
LEMMA JoinedFront ==
  ASSUME NEW A, NEW s \in Seq(A), NEW t \in Seq(A)
  PROVE  /\ Len(s \o t) = Len(s) + Len(t) /\ SubSeq(s \o t, 1, Len(s)) = s
         /\ \A i \in 1..Len(s) : (s \o t)[i] = s[i]
  OBVIOUS

\* What has been said of S so far holds the first "done" of it.
Holds(S, said, done, overlap) ==
    /\ overlap = 0 => said = SubSeq(S, 1, done)
    /\ Reading(S, said) > done

\* What is said grows by a text, after something repeated if there is an overlap.
Grown(old, new, said, overlap, C) ==
    \E v \in Seq(C) : new = (old \o v) \o said /\ (overlap = 0 => v = <<>>)

\* When what follows is said, after some repetition, more is held.
LEMMA HoldsMore ==
  ASSUME NEW C, NEW S \in Seq(C), NEW p \in Seq(C), NEW u \in Seq(C), NEW rest \in Seq(C),
         S = (p \o u) \o rest, NEW old \in Seq(C), NEW new, NEW overlap,
         Holds(S, old, Len(p), overlap), Grown(old, new, u, overlap, C)
  PROVE  Holds(S, new, Len(p \o u), overlap) /\ new \in Seq(C)
  <1>1. PICK v \in Seq(C) : new = (old \o v) \o u /\ (overlap = 0 => v = <<>>)
    BY DEF Grown
  <1>. DEFINE a == Len(p)
              t == old \o v
  <1>2. /\ a \in Nat /\ Len(p \o u) = a + Len(u) /\ a + Len(u) <= Len(S)
        /\ \A i \in 1..Len(u) : S[a + i] = u[i]
        /\ SubSeq(S, 1, a) = p /\ SubSeq(S, 1, a + Len(u)) = p \o u
    <2>. DEFINE pu == p \o u
    <2>1. /\ a \in Nat /\ pu \in Seq(C) /\ Len(pu) = a + Len(u) /\ \A i \in 1..Len(u) : pu[a + i] = u[i]
          /\ SubSeq(pu, 1, a) = p /\ \A i \in 1..a : pu[i] = p[i]
      OBVIOUS
    <2>. HIDE DEF pu
    <2>2. /\ Len(S) = Len(pu) + Len(rest) /\ \A i \in 1..Len(pu) : S[i] = pu[i]
          /\ SubSeq(S, 1, Len(pu)) = pu
      <3>1. S = pu \o rest
        BY DEF pu
      <3>2. /\ Len(pu \o rest) = Len(pu) + Len(rest) /\ SubSeq(pu \o rest, 1, Len(pu)) = pu
            /\ \A i \in 1..Len(pu) : (pu \o rest)[i] = pu[i]
        BY <2>1, JoinedFront
      <3> QED
        BY Zenon, <3>1, <3>2
    <2>3. SubSeq(S, 1, a) = p
      <3>1. SubSeq(S, 1, a) \in Seq(C) /\ Len(SubSeq(S, 1, a)) = a /\ \A i \in 1..a : SubSeq(S, 1, a)[i] = S[i]
        BY <2>1, <2>2
      <3>2. \A i \in 1..a : S[i] = p[i]
        BY <2>1, <2>2
      <3>. DEFINE q == SubSeq(S, 1, a)
      <3>3. q \in Seq(C) /\ Len(q) = Len(p) /\ \A i \in 1..Len(q) : q[i] = p[i]
        BY <3>1, <3>2
      <3>. HIDE DEF q
      <3>4. q = p
        BY <3>3, SameItems
      <3> QED
        BY <3>4 DEF q
    <2>4. Len(pu) = a + Len(u) /\ a + Len(u) <= Len(S) /\ \A i \in 1..Len(u) : S[a + i] = u[i]
      <3>1. Len(u) \in Nat /\ Len(rest) \in Nat
        OBVIOUS
      <3>2. \A i \in 1..Len(u) : a + i \in 1..Len(pu)
        BY <2>1, <3>1
      <3> QED
        BY <2>1, <2>2, <3>1, <3>2
    <2> QED
      BY <2>1, <2>2, <2>3, <2>4 DEF pu
  <1>3. t \in Seq(C) /\ new \in Seq(C)
    BY <1>1
  <1>4. Reading(S, t) > a
    <2>1. Reading(S, t) >= Reading(S, old) /\ Reading(S, old) \in Nat /\ Reading(S, t) \in Nat
      BY <1>3, ReadingGrows, ReadingIn
    <2>2. Reading(S, old) > a
      BY DEF Holds
    <2>. HIDE DEF t, a
    <2> QED
      BY <1>2, <2>1, <2>2
  <1>5. overlap = 0 => new = p \o u
    <2>1. overlap = 0 => old = SubSeq(S, 1, a)
      BY DEF Holds
    <2>2. old \o <<>> = old
      OBVIOUS
    <2> QED
      BY Zenon, <1>1, <1>2, <2>1, <2>2
  <1>. HIDE DEF t, a
  <1>6. Reading(S, t \o u) > a + Len(u)
    BY Zenon, <1>2, <1>3, <1>4, ReadingFollows
  <1> QED
    BY Zenon, <1>1, <1>2, <1>3, <1>5, <1>6 DEF Holds, t

-----------------------------------------------------------------------------
(* naive_merge                                                              *)

\* What naive_merge has merged so far
Merged(C) == {acc \in Seq([body: Seq(C), count: Nat]) : Len(acc) > 0}

\* A line break before a text adds nothing to what it says.
LEMMA LineSays ==
  ASSUME NEW C, "/" \in C, NEW s \in Seq(C), NEW K, Blank \cap K = {}
  PROVE  <<"/">> \o s \in Seq(C) /\ Chosen(<<"/">> \o s, K) = Chosen(s, K)
  <1>. DEFINE break == <<"/">>
  <1>1. break \in Seq(C) /\ break \in Seq(Blank)
    <2>1. "/" \in Blank
      BY DEF Blank
    <2> QED
      BY <2>1
  <1>. HIDE DEF break
  <1>2. Chosen(break, K) = <<>>
    BY <1>1, NothingChosen
  <1>3. break \o s \in Seq(C) /\ Chosen(break \o s, K) = Chosen(break, K) \o Chosen(s, K)
    BY <1>1, ChosenJoin
  <1>4. Chosen(s, K) \in Seq(C)
    BY ChosenIn
  <1>. DEFINE said == Chosen(s, K)
  <1>. HIDE DEF said
  <1>5. <<>> \o said = said
    BY <1>4 DEF said
  <1> QED
    BY <1>2, <1>3, <1>5 DEF said, break

\* A text that may repeat something, if there is an overlap
Repeats(new, line, overlap, C) ==
    \E v \in Seq(C) : new = v \o line /\ (overlap = 0 => v = <<>>)

\* What the overlap puts before a section is part of the chunk before.
LEMMA OverlapParts ==
  ASSUME NEW C, NEW prev \in Seq(C), NEW line \in Seq(C), NEW overlap \in 0..99
  PROVE  Repeats(WithOverlap(prev, line, overlap), line, overlap, C)
  <1>. DEFINE n == Len(prev)
              from == (n * (100 - overlap)) \div 100 + 1
              v == SubSeq(prev, from, n)
  <1>1. n \in Nat
    OBVIOUS
  <1>2. from \in Nat /\ from >= 1
    <2>. HIDE DEF n
    <2>1. n * (100 - overlap) \in Nat
      BY <1>1
    <2> QED
      BY <2>1
  <1>3. overlap = 0 => from = n + 1
    <2>. HIDE DEF n
    <2>1. (n * (100 - 0)) \div 100 = n
      BY <1>1
    <2> QED
      BY <2>1
  <1>4. WithOverlap(prev, line, overlap) = v \o line
    BY DEF WithOverlap
  <1>. HIDE DEF from
  <1>5. v \in Seq(C)
    BY <1>1, <1>2, PartIn
  <1>6. overlap = 0 => v = <<>>
    BY <1>1, <1>3
  <1>. HIDE DEF v
  <1> QED
    BY <1>4, <1>5, <1>6 DEF Repeats

LEMMA AddChunkParts ==
  ASSUME NEW C, "/" \in C, NEW acc \in Merged(C), NEW sec \in Seq(C), NEW num, NEW overlap \in 0..99
  PROVE  AddChunk(acc, sec, num, overlap) \in Merged(C)
  <1>. DEFINE n == Len(acc)
              line == <<"/">> \o sec
              R == [body: Seq(C), count: Nat]
  <1>1. acc \in Seq(R) /\ n \in Nat /\ n > 0 /\ n \in 1..n /\ acc[n] \in R
    <2>1. acc \in Seq(R) /\ n > 0
      BY DEF Merged
    <2>. HIDE DEF R
    <2>2. n \in Nat
      BY <2>1
    <2>3. n \in 1..n
      BY <2>1, <2>2
    <2> QED
      BY <2>1, <2>2, <2>3
  <1>2. line \in Seq(C)
    OBVIOUS
  <1>3. acc[n].body \in Seq(C) /\ acc[n].count \in Nat
    BY <1>1
  <1>. HIDE DEF line
  <1>4. CountTokens(line) \in Nat
    BY <1>2, CountsWords
  <1>5. WithOverlap(acc[n].body, line, overlap) \in Seq(C)
    <2>. DEFINE prev == acc[n].body
    <2>1. prev \in Seq(C)
      BY <1>3
    <2>. HIDE DEF prev
    <2>2. PICK v \in Seq(C) : WithOverlap(prev, line, overlap) = v \o line
      <3>1. Repeats(WithOverlap(prev, line, overlap), line, overlap, C)
        BY <1>2, <2>1, OverlapParts
      <3> QED
        BY <3>1 DEF Repeats
    <2>3. v \o line \in Seq(C)
      BY <1>2
    <2> QED
      BY <2>2, <2>3 DEF prev
  <1>6. CASE acc[n].body = <<>> \/ acc[n].count * 100 > num * (100 - overlap)
    <2>1. AddChunk(acc, sec, num, overlap)
            = Append(acc, [body |-> WithOverlap(acc[n].body, line, overlap),
                           count |-> CountTokens(line)])
      BY <1>6 DEF AddChunk, line
    <2> QED
      BY <1>1, <1>4, <1>5, <2>1 DEF Merged
  <1>7. CASE ~ (acc[n].body = <<>> \/ acc[n].count * 100 > num * (100 - overlap))
    <2>. DEFINE last == [body |-> acc[n].body \o line, count |-> acc[n].count + CountTokens(line)]
    <2>1. AddChunk(acc, sec, num, overlap) = [acc EXCEPT ![n] = last]
      BY <1>1, <1>7 DEF AddChunk, line
    <2>2. last \in R
      BY <1>2, <1>3, <1>4
    <2>. HIDE DEF last
    <2>3. [acc EXCEPT ![n] = last] \in Seq(R) /\ Len([acc EXCEPT ![n] = last]) = n
      BY <1>1, <2>2
    <2> QED
      BY <1>1, <2>1, <2>3 DEF Merged
  <1> QED
    BY <1>6, <1>7

MergeAll(secs, num, overlap) ==
    FoldLeft(LAMBDA acc, sec : AddChunk(acc, sec, num, overlap), <<[body |-> <<>>, count |-> 0]>>, secs)

\* naive_merge section by section
Merges(h, secs, num, overlap, C) ==
    /\ h \in [0..Len(secs) -> Merged(C)]
    /\ h[0] = <<[body |-> <<>>, count |-> 0]>> /\ h[Len(secs)] = MergeAll(secs, num, overlap)
    /\ \A k \in 1..Len(secs) : h[k] = AddChunk(h[k - 1], secs[k], num, overlap)

LEMMA MergeByPrefixes ==
  ASSUME NEW C, "/" \in C, NEW secs \in Seq(Seq(C)), NEW num, NEW overlap \in 0..99
  PROVE  \E h : Merges(h, secs, num, overlap, C)
  <1>. DEFINE n == Len(secs)
              base == <<[body |-> <<>>, count |-> 0]>>
              M == Merged(C)
              Step(acc, k) == AddChunk(acc, secs[k], num, overlap)
              g == [p \in M \X (1..n) |-> Step(p[1], p[2])]
              IsMerge(it) == it = [S \in SUBSET (1..n) |->
                                    IF S = {} THEN base ELSE Step(it[S \ {Max(S)}], Max(S))]
              merge == CHOOSE it : IsMerge(it)
  <1>1. n \in Nat /\ DOMAIN secs = 1..n /\ \A k \in 1..n : secs[k] \in Seq(C)
    OBVIOUS
  <1>2. base \in M
    BY DEF Merged
  <1>3. \A acc \in M, k \in 1..n : Step(acc, k) \in M
    BY <1>1, AddChunkParts
  <1>. HIDE DEF Step, n, base, M
  <1>4. g \in [M \X (1..n) -> M]
    BY <1>3
  <1>5. \A S \in SUBSET (1..n) : S # {} => Max(S) \in S /\ Max(S) \in 1..n
    BY <1>1, MaxOfPlaces
  <1>6. \E it : IsMerge(it)
    <2>1. HasSteps(M, base, g, n)
      <3>. HIDE DEF g
      <3> QED
        BY <1>1, <1>2, <1>4, FoldHasSteps
    <2>2. PICK it \in [SUBSET (1..n) -> M] :
            /\ it[{}] = base
            /\ \A S \in SUBSET (1..n) : S # {} => it[S] = g[<<it[S \ {Max(S)}], Max(S)>>]
      BY <2>1 DEF HasSteps
    <2>3. ASSUME NEW S \in SUBSET (1..n), S # {} PROVE it[S] = Step(it[S \ {Max(S)}], Max(S))
      <3>1. it[S \ {Max(S)}] \in M /\ Max(S) \in 1..n
        BY <1>5, <2>3
      <3> QED
        BY <2>2, <2>3, <3>1
    <2>4. IsMerge(it)
      BY <2>2, <2>3
    <2> QED
      BY <2>4
  <1>7. IsMerge(merge)
    BY <1>6
  <1>8. MergeAll(secs, num, overlap) = merge[1..n]
    BY Zenon, <1>1 DEF MergeAll, FoldLeft, MapThenFoldSet, merge, Step, base
  <1>. HIDE DEF merge
  <1>9. merge[{}] = base /\ \A S \in SUBSET (1..n) : S # {} => merge[S] = Step(merge[S \ {Max(S)}], Max(S))
    BY <1>7
  <1>10. HasPrefixes(M, base, g, n, merge)
    <2>1. \A S \in SUBSET (1..n) : S # {} /\ merge[S \ {Max(S)}] \in M =>
             merge[S] = g[<<merge[S \ {Max(S)}], Max(S)>>]
      BY <1>5, <1>9
    <2>. HIDE DEF g
    <2> QED
      BY <1>1, <1>2, <1>4, <1>9, <2>1, FoldByPrefixes
  <1>11. PICK h \in [0..n -> M] :
           h[0] = base /\ h[n] = merge[1..n] /\ \A k \in 1..n : h[k] = g[<<h[k - 1], k>>]
    BY <1>10 DEF HasPrefixes
  <1>12. \A k \in 1..n : h[k] = Step(h[k - 1], k)
    <2>1. \A k \in 1..n : k - 1 \in 0..n /\ h[k - 1] \in M
      BY <1>1
    <2> QED
      BY <1>11, <2>1
  <1> QED
    BY <1>8, <1>11, <1>12 DEF Merges, n, Step, base, M

LEMMA MergeParts ==
  ASSUME NEW C, "/" \in C, NEW secs \in Seq(Seq(C)), NEW num, NEW overlap \in 0..99
  PROVE  MergeAll(secs, num, overlap) \in Merged(C)
  <1>1. PICK h : Merges(h, secs, num, overlap, C)
    BY MergeByPrefixes
  <1>2. Len(secs) \in 0..Len(secs)
    OBVIOUS
  <1> QED
    BY <1>1, <1>2 DEF Merges

\* The texts merged so far
Bodies(acc) == [k \in DOMAIN acc |-> acc[k].body]

LEMMA BodiesParts ==
  ASSUME NEW C, NEW acc \in Merged(C)
  PROVE  /\ Bodies(acc) \in Seq(Seq(C)) /\ Len(Bodies(acc)) = Len(acc) /\ Len(acc) \in Nat /\ Len(acc) >= 1
         /\ \A k \in 1..Len(acc) : Bodies(acc)[k] = acc[k].body /\ acc[k].body \in Seq(C)
  <1>. DEFINE R == [body: Seq(C), count: Nat]
              n == Len(acc)
              b == Bodies(acc)
  <1>1. \A r \in R : r.body \in Seq(C)
    OBVIOUS
  <1>2. acc \in Seq(R) /\ n > 0
    BY DEF Merged
  <1>. HIDE DEF R
  <1>3. n \in Nat /\ DOMAIN acc = 1..n /\ \A k \in 1..n : acc[k] \in R
    BY <1>2
  <1>. HIDE DEF n
  <1>4. b = [k \in 1..n |-> acc[k].body]
    BY <1>3 DEF Bodies
  <1>. HIDE DEF b
  <1>5. b \in [1..n -> Seq(C)]
    BY <1>1, <1>3, <1>4
  <1>6. b \in Seq(Seq(C)) /\ Len(b) = n
    BY <1>3, <1>5, FunctionIsSequence
  <1> QED
    BY <1>1, <1>2, <1>3, <1>4, <1>6 DEF b, n

\* Adding a section: it is said last, after what the overlap repeats.
LEMMA AddChunkSays ==
  ASSUME NEW C, "/" \in C, NEW acc \in Merged(C), NEW sec \in Seq(C), NEW num, NEW overlap \in 0..99,
         NEW K, Blank \cap K = {}
  PROVE  Grown(Said(Bodies(acc), K), Said(Bodies(AddChunk(acc, sec, num, overlap)), K),
               Chosen(sec, K), overlap, C)
  <1>. DEFINE n == Len(acc)
              line == <<"/">> \o sec
              new == AddChunk(acc, sec, num, overlap)
              old == Bodies(acc)
              said == Chosen(sec, K)
  <1>0. /\ \A x, y \in Seq(C) : Chosen(x \o y, K) = Chosen(x, K) \o Chosen(y, K)
        /\ \A ss \in Seq(Seq(C)), x \in Seq(C) : Said(Append(ss, x), K) = Said(ss, K) \o Chosen(x, K)
    <2>1. \A x, y \in Seq(C) : Chosen(x \o y, K) = Chosen(x, K) \o Chosen(y, K)
      BY ChosenJoin
    <2>2. \A ss \in Seq(Seq(C)), x \in Seq(C) : Said(Append(ss, x), K) = Said(ss, K) \o Chosen(x, K)
      BY SaidAppend
    <2> QED
      BY <2>1, <2>2
  <1>1. /\ old \in Seq(Seq(C)) /\ Len(old) = n /\ n \in Nat /\ n >= 1 /\ DOMAIN acc = 1..n
        /\ \A k \in 1..n : old[k] = acc[k].body /\ acc[k].body \in Seq(C)
    <2>1. acc \in Seq([body: Seq(C), count: Nat])
      BY DEF Merged
    <2>2. DOMAIN acc = 1..n
      BY <2>1
    <2> QED
      BY <2>2, BodiesParts
  <1>2. line \in Seq(C) /\ Chosen(line, K) = said
    BY LineSays
  <1>3. new \in Merged(C)
    BY AddChunkParts
  <1>4. /\ Bodies(new) \in Seq(Seq(C)) /\ Len(Bodies(new)) = Len(new)
        /\ \A k \in 1..Len(new) : Bodies(new)[k] = new[k].body
    <2>. HIDE DEF new
    <2> QED
      BY <1>3, BodiesParts
  <1>5. said \in Seq(C) /\ Said(old, K) \in Seq(C)
    BY <1>1, ChosenIn, SaidIn
  <1>6. n \in 1..n /\ acc[n].body \in Seq(C) /\ old[n] = acc[n].body
    BY <1>1
  <1>7. CASE acc[n].body = <<>> \/ acc[n].count * 100 > num * (100 - overlap)
    <2>. DEFINE body == WithOverlap(acc[n].body, line, overlap)
                rec == [body |-> body, count |-> CountTokens(line)]
    <2>1. new = Append(acc, rec)
      BY <1>7 DEF AddChunk
    <2>2. PICK v \in Seq(C) : body = v \o line /\ (overlap = 0 => v = <<>>)
      <3>. DEFINE prev == acc[n].body
      <3>1. prev \in Seq(C)
        BY <1>6
      <3>. HIDE DEF prev, line
      <3>2. Repeats(WithOverlap(prev, line, overlap), line, overlap, C)
        BY <1>2, <3>1, OverlapParts
      <3> QED
        BY <3>2 DEF prev, Repeats
    <2>3. rec.body = body
      OBVIOUS
    <2>. HIDE DEF body, line, new, old, rec, said
    <2>4. body \in Seq(C)
      BY <1>2, <2>2
    <2>5. Len(new) = n + 1 /\ new[n + 1] = rec /\ \A k \in 1..n : new[k] = acc[k]
      <3>1. acc \in Seq([body: Seq(C), count: Nat])
        BY DEF Merged
      <3>2. Len(Append(acc, rec)) = Len(acc) + 1 /\ Append(acc, rec)[Len(acc) + 1] = rec
            /\ \A k \in 1..Len(acc) : Append(acc, rec)[k] = acc[k]
        BY <3>1
      <3> QED
        BY <2>1, <3>2
    <2>6. Bodies(new) = Append(old, body)
      <3>1. Append(old, body) \in Seq(Seq(C)) /\ Len(Append(old, body)) = n + 1
            /\ Append(old, body)[n + 1] = body /\ \A k \in 1..n : Append(old, body)[k] = old[k]
        BY <1>1, <2>4
      <3>2. ASSUME NEW k \in 1..(n + 1) PROVE Bodies(new)[k] = Append(old, body)[k]
        <4>1. CASE k = n + 1
          BY <1>4, <2>3, <2>5, <3>1, <4>1
        <4>2. CASE k # n + 1
          <5>1. k \in 1..n
            BY <1>1, <4>2
          <5> QED
            BY <1>1, <1>4, <2>5, <3>1, <5>1
        <4> QED
          BY <4>1, <4>2
      <3>. DEFINE a == Bodies(new)
                  b == Append(old, body)
      <3>3. a \in Seq(Seq(C)) /\ b \in Seq(Seq(C)) /\ Len(a) = Len(b) /\ \A k \in 1..Len(a) : a[k] = b[k]
        BY <1>4, <2>5, <3>1, <3>2
      <3>. HIDE DEF a, b
      <3>4. a = b
        BY <3>3, SameItems
      <3> QED
        BY <3>4 DEF a, b
    <2>7. Said(Append(old, body), K) = Said(old, K) \o Chosen(body, K)
      BY <1>1, <2>4, SaidAppend
    <2>8. Chosen(body, K) = Chosen(v, K) \o said
      <3>1. Chosen(v \o line, K) = Chosen(v, K) \o Chosen(line, K)
        BY Zenon, <1>0, <1>2
      <3> QED
        BY Zenon, <1>2, <2>2, <3>1
    <2>. DEFINE w == Chosen(v, K)
                a == Said(old, K)
    <2>9. w \in Seq(C) /\ (overlap = 0 => w = <<>>)
      BY <2>2, ChosenIn, ChosenEmpty
    <2>10. a \in Seq(C)
      BY <1>5
    <2>11. Said(Bodies(new), K) = a \o (w \o said)
      BY Zenon, <2>6, <2>7, <2>8
    <2>. HIDE DEF w, a
    <2>12. a \o (w \o said) = (a \o w) \o said
      BY <1>5, <2>9, <2>10
    <2> QED
      BY <2>9, <2>11, <2>12 DEF Grown, a, new, old, said
  <1>8. CASE ~ (acc[n].body = <<>> \/ acc[n].count * 100 > num * (100 - overlap))
    <2>. DEFINE body == acc[n].body \o line
                rec == [body |-> body, count |-> acc[n].count + CountTokens(line)]
                front == SubSeq(old, 1, n - 1)
    <2>1. new = [acc EXCEPT ![n] = rec]
      BY <1>1, <1>8 DEF AddChunk
    <2>. DEFINE last == acc[n].body
    <2>4. last \in Seq(C) /\ old[n] = last /\ body = last \o line /\ rec.body = body
      BY <1>6
    <2>. HIDE DEF body, rec, new, line, said, old, last
    <2>2. body \in Seq(C) /\ rec.body = body
      BY <1>2, <2>4
    <2>3. Chosen(body, K) = Chosen(last, K) \o said
      BY Zenon, <1>0, <1>2, <2>4
    <2>5. Len(new) = n /\ new[n] = rec /\ \A k \in 1..n : k # n => new[k] = acc[k]
      <3>1. acc \in Seq([body: Seq(C), count: Nat])
        BY DEF Merged
      <3>2. Len([acc EXCEPT ![n] = rec]) = Len(acc)
        BY <3>1
      <3> QED
        BY <1>1, <1>6, <2>1, <3>2
    <2>6. /\ front \in Seq(Seq(C)) /\ Len(front) = n - 1 /\ old = Append(front, last)
          /\ \A k \in 1..(n - 1) : front[k] = old[k]
      BY <1>1, <1>6, <2>4
    <2>. HIDE DEF front
    <2>7. Bodies(new) = Append(front, body)
      <3>1. Append(front, body) \in Seq(Seq(C)) /\ Len(Append(front, body)) = n
            /\ Append(front, body)[n] = body /\ \A k \in 1..(n - 1) : Append(front, body)[k] = front[k]
        BY <1>1, <2>2, <2>6
      <3>2. ASSUME NEW k \in 1..n PROVE Bodies(new)[k] = Append(front, body)[k]
        <4>1. CASE k = n
          BY <1>4, <1>6, <2>2, <2>5, <3>1, <4>1
        <4>2. CASE k # n
          <5>1. k \in 1..(n - 1)
            BY <1>1, <4>2
          <5> QED
            BY <1>1, <1>4, <2>5, <2>6, <3>1, <4>2, <5>1
        <4> QED
          BY <4>1, <4>2
      <3>. DEFINE a == Bodies(new)
                  b == Append(front, body)
      <3>3. a \in Seq(Seq(C)) /\ b \in Seq(Seq(C)) /\ Len(a) = Len(b) /\ \A k \in 1..Len(a) : a[k] = b[k]
        BY <1>4, <2>5, <3>1, <3>2
      <3>. HIDE DEF a, b
      <3>4. a = b
        BY <3>3, SameItems
      <3> QED
        BY <3>4 DEF a, b
    <2>8. /\ Said(Append(front, body), K) = Said(front, K) \o Chosen(body, K)
          /\ Said(Append(front, last), K) = Said(front, K) \o Chosen(last, K)
      BY Zenon, <1>0, <2>2, <2>4, <2>6
    <2>. DEFINE a == Said(front, K)
                b == Chosen(last, K)
                none == <<>>
    <2>9. a \in Seq(C) /\ b \in Seq(C)
      BY <2>4, <2>6, SaidIn, ChosenIn
    <2>10. Said(Bodies(new), K) = a \o (b \o said) /\ Said(old, K) = a \o b
      <3>1. Chosen(body, K) = b \o said
        BY <2>3
      <3> QED
        BY Zenon, <2>6, <2>7, <2>8, <3>1
    <2>. HIDE DEF a, b
    <2>11. a \o (b \o said) = ((a \o b) \o <<>>) \o said /\ <<>> \in Seq(C)
      BY <1>5, <2>9
    <2>12. Said(Bodies(new), K) = (Said(old, K) \o <<>>) \o said
      BY Zenon, <2>10, <2>11
    <2>13. Grown(Said(old, K), Said(Bodies(new), K), said, overlap, C)
      BY <2>11, <2>12 DEF Grown
    <2> QED
      BY <2>13 DEF new, old, said
  <1> QED
    BY <1>7, <1>8

\* Merging sections loses nothing of what they say.
LEMMA MergeKeeps ==
  ASSUME NEW C, "/" \in C, NEW secs \in Seq(Seq(C)), NEW num, NEW overlap \in 0..99,
         NEW K, Blank \cap K = {}
  PROVE  Keeps(Said(secs, K), Said(Bodies(MergeAll(secs, num, overlap)), K), overlap)
  <1>. DEFINE n == Len(secs)
              S == Said(secs, K)
  <1>1. PICK h : Merges(h, secs, num, overlap, C)
    BY MergeByPrefixes
  <1>. DEFINE first == [k \in 0..n |-> Said(SubSeq(secs, 1, k), K)]
              said == [k \in 0..n |-> Said(Bodies(h[k]), K)]
              T == {k \in 0..n : Holds(S, said[k], Len(first[k]), overlap)}
  <1>2. n \in Nat /\ S \in Seq(C) /\ \A k \in 1..n : k \in 0..n /\ k - 1 \in 0..n /\ secs[k] \in Seq(C)
    BY SaidIn
  <1>3. \A k \in 0..n : h[k] \in Merged(C) /\ said[k] \in Seq(C)
    <2>1. \A k \in 0..n : h[k] \in Merged(C)
      BY <1>1 DEF Merges
    <2> QED
      BY <2>1, BodiesParts, SaidIn
  <1>4. \A k \in 1..n : first[k] = first[k - 1] \o Chosen(secs[k], K)
    BY <1>2, SaidNext
  <1>5. first[0] = <<>> /\ first[n] = S
    <2>1. SubSeq(secs, 1, 0) = <<>> /\ SubSeq(secs, 1, n) = secs /\ 0 \in 0..n /\ n \in 0..n
      BY <1>2, WholePrefix
    <2>2. first[0] = Said(SubSeq(secs, 1, 0), K) /\ first[n] = Said(SubSeq(secs, 1, n), K)
      BY <2>1
    <2> QED
      BY Zenon, <2>1, <2>2, SaidEmpty
  <1>6. said[0] = <<>>
    <2>1. h[0] = <<[body |-> <<>>, count |-> 0]>> /\ 0 \in 0..n
      BY <1>1, <1>2 DEF Merges
    <2>2. Bodies(h[0]) = <<<<>>>>
      BY <2>1 DEF Bodies
    <2>3. <<>> \in Seq(C) /\ said[0] = Said(Bodies(h[0]), K)
      <3>1. <<>> \in Seq(C) /\ 0 \in 0..n
        BY <1>2
      <3> QED
        BY Zenon, <3>1
    <2>4. Said(<<<<>>>>, K) = Chosen(<<>>, K)
      BY <2>3, SaidOne
    <2> QED
      BY Zenon, <2>2, <2>3, <2>4, ChosenEmpty
  <1>7. ASSUME NEW k \in 1..n
        PROVE  /\ Grown(said[k - 1], said[k], Chosen(secs[k], K), overlap, C)
               /\ first[k - 1] \in Seq(C) /\ Chosen(secs[k], K) \in Seq(C)
               /\ Said(SubSeq(secs, k + 1, n), K) \in Seq(C)
               /\ S = (first[k - 1] \o Chosen(secs[k], K)) \o Said(SubSeq(secs, k + 1, n), K)
    <2>1. h[k] = AddChunk(h[k - 1], secs[k], num, overlap) /\ h[k - 1] \in Merged(C)
      BY <1>1, <1>2, <1>3 DEF Merges
    <2>2. Grown(said[k - 1], said[k], Chosen(secs[k], K), overlap, C)
      <3>1. said[k] = Said(Bodies(h[k]), K) /\ said[k - 1] = Said(Bodies(h[k - 1]), K)
        BY <1>2
      <3>. DEFINE old == h[k - 1]
                  sec == secs[k]
      <3>2. old \in Merged(C) /\ sec \in Seq(C) /\ h[k] = AddChunk(old, sec, num, overlap)
        BY <1>2, <2>1
      <3>. HIDE DEF old, sec, said
      <3>3. Grown(Said(Bodies(old), K), Said(Bodies(AddChunk(old, sec, num, overlap)), K),
                  Chosen(sec, K), overlap, C)
        BY <3>2, AddChunkSays
      <3> QED
        BY Zenon, <3>1, <3>2, <3>3 DEF old, sec
    <2>. DEFINE before == SubSeq(secs, 1, k)
                after == SubSeq(secs, k + 1, n)
    <2>3. before \in Seq(Seq(C)) /\ after \in Seq(Seq(C)) /\ secs = before \o after
      OBVIOUS
    <2>4. first[k] = Said(before, K)
      BY <1>2
    <2>. HIDE DEF before, after, first
    <2>5. Said(before \o after, K) = Said(before, K) \o Said(after, K)
      BY <2>3, SaidJoin
    <2>6. S = first[k] \o Said(after, K) /\ Said(after, K) \in Seq(C)
      BY <2>3, <2>4, <2>5, SaidIn
    <2>7. first[k - 1] \in Seq(C) /\ Chosen(secs[k], K) \in Seq(C)
      <3>1. first[k - 1] = Said(SubSeq(secs, 1, k - 1), K)
        BY <1>2 DEF first
      <3>2. SubSeq(secs, 1, k - 1) \in Seq(Seq(C)) /\ secs[k] \in Seq(C)
        BY <1>2, NextPrefix
      <3> QED
        BY <3>1, <3>2, SaidIn, ChosenIn
    <2> QED
      BY Zenon, <1>4, <2>2, <2>6, <2>7 DEF after
  <1>. HIDE DEF first, said, S
  <1>8. 0 \in T
    <2>1. Reading(S, <<>>) = 1 /\ Len(<<>>) = 0 /\ SubSeq(S, 1, 0) = <<>>
      BY <1>2, ReadingEmpty, WholePrefix
    <2>2. Len(first[0]) = 0 /\ 0 \in 0..n
      BY <1>2, <1>5, <2>1
    <2>3. Reading(S, said[0]) > Len(first[0])
      BY <1>6, <2>1, <2>2
    <2>4. said[0] = SubSeq(S, 1, Len(first[0]))
      BY Zenon, <1>6, <2>1, <2>2
    <2> QED
      BY <2>2, <2>3, <2>4 DEF Holds
  <1>9. ASSUME NEW k \in 1..n, k - 1 \in T PROVE k \in T
    <2>. DEFINE p == first[k - 1]
                u == Chosen(secs[k], K)
                rest == Said(SubSeq(secs, k + 1, n), K)
                old == said[k - 1]
                new == said[k]
    <2>1. /\ p \in Seq(C) /\ u \in Seq(C) /\ rest \in Seq(C) /\ S = (p \o u) \o rest
          /\ Grown(old, new, u, overlap, C) /\ first[k] = p \o u
      BY <1>4, <1>7
    <2>2. old \in Seq(C) /\ Holds(S, old, Len(p), overlap)
      BY <1>2, <1>3, <1>9
    <2>. HIDE DEF p, u, rest, old, new
    <2>3. Holds(S, new, Len(p \o u), overlap)
      BY <1>2, <2>1, <2>2, HoldsMore
    <2> QED
      BY <1>2, <2>1, <2>3 DEF new
  <1>. HIDE DEF T
  <1>10. n \in T
    BY <1>2, <1>8, <1>9, PrefixInduction
  <1>11. Holds(S, said[n], Len(S), overlap)
    BY <1>5, <1>10 DEF T
  <1>12. said[n] = Said(Bodies(MergeAll(secs, num, overlap)), K)
    <2>1. h[n] = MergeAll(secs, num, overlap) /\ n \in 0..n
      BY <1>1, <1>2 DEF Merges
    <2> QED
      BY <2>1 DEF said
  <1>13. SubSeq(S, 1, Len(S)) = S
    BY <1>2, WholePrefix
  <1> QED
    BY Zenon, <1>11, <1>12, <1>13 DEF Keeps, Holds, S

\* The lines of a list: each begins with a line break.
BrokenLines(ss) == [k \in DOMAIN ss |-> <<"/">> \o ss[k]]

\* Line breaks say nothing.
LEMMA LinesSay ==
  ASSUME NEW C, "/" \in C, NEW ss \in Seq(Seq(C)), NEW K, Blank \cap K = {}
  PROVE  BrokenLines(ss) \in Seq(Seq(C)) /\ Said(BrokenLines(ss), K) = Said(ss, K)
  <1>. DEFINE f == BrokenLines(ss)
  <1>1. \A s \in Seq(C) : <<"/">> \o s \in Seq(C) /\ Chosen(<<"/">> \o s, K) = Chosen(s, K)
    BY LineSays
  <1>2. f = [k \in DOMAIN ss |-> f[k]] /\ \A k \in DOMAIN ss : ss[k] \in Seq(C) /\ f[k] = <<"/">> \o ss[k]
    BY DEF BrokenLines
  <1>3. DOMAIN f = DOMAIN ss
    BY DEF BrokenLines
  <1>. HIDE DEF f
  <1>4. f \in Seq(Seq(C))
    <2>1. \A k \in DOMAIN ss : f[k] \in Seq(C)
      BY <1>1, <1>2
    <2>2. f = [k \in DOMAIN ss |-> f[k]]
      BY <1>2
    <2> QED
      BY <2>1, <2>2, SameLength
  <1>5. Len(f) = Len(ss) /\ DOMAIN f = 1..Len(f)
    BY <1>3, <1>4
  <1>6. \A k \in 1..Len(f) : Chosen(f[k], K) = Chosen(ss[k], K)
    BY <1>1, <1>2, <1>3, <1>5
  <1>7. Said(f, K) = Said(ss, K)
    BY <1>4, <1>5, <1>6, SaidSame
  <1> QED
    BY <1>4, <1>7 DEF f

\* Blank texts are dropped by a custom delimiter.
LEMMA SolidSays ==
  ASSUME NEW C, NEW ss \in Seq(Seq(C)), NEW K, Blank \cap K = {}
  PROVE  Said(Kept(ss, {k \in DOMAIN ss : Strip(ss[k]) # <<>>}), K) = Said(ss, K)
  <1>. DEFINE M == {s \in Seq(C) : Strip(s) # <<>>}
  <1>1. \A k \in DOMAIN ss : ss[k] \in Seq(C)
    OBVIOUS
  <1>2. {k \in DOMAIN ss : Strip(ss[k]) # <<>>} = {k \in DOMAIN ss : ss[k] \in M}
    BY <1>1
  <1>3. Kept(ss, {k \in DOMAIN ss : Strip(ss[k]) # <<>>}) = Chosen(ss, M)
    BY <1>2 DEF Chosen
  <1>4. ASSUME NEW s \in Seq(C), s \notin M PROVE Chosen(s, K) = <<>>
    <2>1. Strip(s) = <<>>
      BY <1>4
    <2>2. Chosen(Strip(s), K) = Chosen(s, K)
      BY StripSays
    <2> QED
      BY <2>1, <2>2, ChosenEmpty
  <1>. HIDE DEF M
  <1>5. Said(Chosen(ss, M), K) = Said(ss, K)
    BY <1>4, SaidChosen
  <1> QED
    BY <1>3, <1>5

LEMMA NoOverlapClamped == Clamp(0) = 0
  <1>1. Min({0, 99}) = 0
    BY DEF Min
  <1>2. Max({0, 0}) = 0
    BY DEF Max
  <1> QED
    BY Zenon, <1>1, <1>2 DEF Clamp

\* naive_merge, in each of its three ways, loses nothing.
LEMMA NaiveMergeKeeps ==
  ASSUME NEW C, "/" \in C, NEW secs \in Seq(Seq(C)), NEW c, c.num \in Int, c.overlap \in Int,
         NEW K, Blank \cap K = {}, c.delimiter = "custom" => "|" \notin K
  PROVE  /\ NaiveMerge(secs, c) \in Seq(Seq(C))
         /\ Keeps(Said(secs, K), Said(NaiveMerge(secs, c), K), c.overlap)
  <1>. DEFINE S == Said(secs, K)
              out == NaiveMerge(secs, c)
  <1>1. S \in Seq(C)
    BY SaidIn
  <1>2. CASE c.delimiter = "custom"
    <2>. DEFINE Piece(k) == BrokenLines(SplitOn(secs[k], "|"))
                pieces == [k \in DOMAIN secs |-> Piece(k)]
                lines == FlattenSeq(pieces)
    <2>1. ASSUME NEW k \in DOMAIN secs PROVE Piece(k) \in Seq(Seq(C)) /\ Said(Piece(k), K) = Chosen(secs[k], K)
      <3>. DEFINE parts == SplitOn(secs[k], "|")
      <3>1. parts \in Seq(Seq(C)) /\ Said(parts, K) = Chosen(secs[k], K)
        BY <1>2, SplitParts, SplitSays
      <3>. HIDE DEF parts
      <3>2. BrokenLines(parts) \in Seq(Seq(C)) /\ Said(BrokenLines(parts), K) = Said(parts, K)
        BY <3>1, LinesSay
      <3> QED
        BY <3>1, <3>2 DEF parts
    <2>2. NaiveMerge(secs, c) = Kept(lines, {k \in DOMAIN lines : Strip(lines[k]) # <<>>})
      BY <1>2 DEF NaiveMerge, BrokenLines
    <2>. HIDE DEF Piece
    <2>3. /\ pieces \in Seq(Seq(Seq(C))) /\ Len(pieces) = Len(secs)
          /\ \A k \in 1..Len(secs) : Said(pieces[k], K) = Chosen(secs[k], K)
      <3>1. /\ pieces = [k \in DOMAIN secs |-> pieces[k]] /\ DOMAIN pieces = DOMAIN secs
            /\ \A k \in DOMAIN secs : pieces[k] = Piece(k)
        OBVIOUS
      <3>. HIDE DEF pieces
      <3>2. \A k \in DOMAIN secs : pieces[k] \in Seq(Seq(C)) /\ Said(pieces[k], K) = Chosen(secs[k], K)
        BY <2>1, <3>1
      <3>3. pieces \in Seq(Seq(Seq(C)))
        <4>1. \A k \in DOMAIN secs : pieces[k] \in Seq(Seq(C))
          BY <3>2
        <4>2. pieces = [k \in DOMAIN secs |-> pieces[k]]
          BY <3>1
        <4> QED
          BY <4>1, <4>2, SameLength
      <3>4. DOMAIN secs = 1..Len(secs)
        OBVIOUS
      <3>5. Len(pieces) = Len(secs)
        BY <3>1, <3>3
      <3> QED
        BY <3>2, <3>3, <3>4, <3>5
    <2>. HIDE DEF pieces
    <2>4. lines \in Seq(Seq(C))
      BY <2>3, FlattenIn
    <2>5. Said(lines, K) = S
      BY <2>3, SaidNested
    <2>. HIDE DEF lines, S
    <2>6. Said(Kept(lines, {k \in DOMAIN lines : Strip(lines[k]) # <<>>}), K) = Said(lines, K)
      BY <2>4, SolidSays
    <2>7. Said(out, K) = S
      BY Zenon, <2>2, <2>5, <2>6
    <2>8. out \in Seq(Seq(C))
      <3>. DEFINE I == {k \in DOMAIN lines : Strip(lines[k]) # <<>>}
      <3>1. I \in SUBSET DOMAIN lines
        OBVIOUS
      <3>. HIDE DEF I
      <3>2. Kept(lines, I) \in Seq(Seq(C))
        BY <2>4, <3>1, KeptIn
      <3> QED
        BY <2>2, <3>2 DEF I
    <2>9. Keeps(S, S, c.overlap)
      BY <1>1, KeepsItself
    <2> QED
      BY <2>7, <2>8, <2>9 DEF S
  <1>3. CASE c.delimiter # "custom" /\ c.num <= 0
    <2>. DEFINE lines == BrokenLines(secs)
                one == FlattenSeq(lines)
    <2>1. NaiveMerge(secs, c) = NonEmpty(<<one>>)
      BY <1>3 DEF NaiveMerge, BrokenLines
    <2>2. lines \in Seq(Seq(C)) /\ Said(lines, K) = S
      BY LinesSay
    <2>. HIDE DEF lines
    <2>3. one \in Seq(C) /\ Chosen(one, K) = Said(lines, K)
      BY <2>2, FlattenIn DEF Said
    <2>. HIDE DEF one, S
    <2>4. <<one>> \in Seq(Seq(C)) /\ Said(<<one>>, K) = Chosen(one, K)
      <3>1. Said(<<one>>, K) = Chosen(one, K)
        BY <2>3, SaidOne
      <3> QED
        BY <2>3, <3>1
    <2>5. NonEmpty(<<one>>) \in Seq(Seq(C)) /\ Said(NonEmpty(<<one>>), K) = Said(<<one>>, K)
      BY <2>4, NonEmptyParts, NonEmptySays
    <2>6. out \in Seq(Seq(C)) /\ Said(out, K) = S
      BY Zenon, <2>1, <2>2, <2>3, <2>4, <2>5
    <2>7. Keeps(S, S, c.overlap)
      BY <1>1, KeepsItself
    <2> QED
      BY <2>6, <2>7 DEF S
  <1>4. CASE c.delimiter # "custom" /\ ~ (c.num <= 0)
    <2>. DEFINE overlap == Clamp(c.overlap)
                merged == MergeAll(secs, c.num, overlap)
                bodies == Bodies(merged)
    <2>1. overlap \in 0..99 /\ (c.overlap = 0 => overlap = 0)
      BY OverlapClamped, NoOverlapClamped
    <2>2. NaiveMerge(secs, c) = NonEmpty(bodies)
      BY Zenon, <1>4 DEF NaiveMerge, MergeAll, Bodies
    <2>. HIDE DEF overlap
    <2>3. merged \in Merged(C) /\ Keeps(S, Said(bodies, K), overlap)
      BY <2>1, MergeParts, MergeKeeps
    <2>. HIDE DEF merged
    <2>4. bodies \in Seq(Seq(C))
      BY <2>3, BodiesParts
    <2>. HIDE DEF bodies, S
    <2>5. NonEmpty(bodies) \in Seq(Seq(C)) /\ Said(NonEmpty(bodies), K) = Said(bodies, K)
      BY <2>4, NonEmptyParts, NonEmptySays
    <2>6. out \in Seq(Seq(C)) /\ Keeps(S, Said(out, K), overlap)
      BY Zenon, <2>2, <2>3, <2>5
    <2> QED
      BY <2>1, <2>6 DEF Keeps, S
  <1> QED
    BY <1>2, <1>3, <1>4

-----------------------------------------------------------------------------
(* _ensure_chunk_token_limit and the general preset                         *)

\* _ensure_chunk_token_limit says what the chunks did.
LEMMA EnsureLimitSays ==
  ASSUME NEW C, NEW ss \in Seq(Seq(C)), NEW num \in Int, NEW K, Blank \cap K = {}
  PROVE  EnsureLimit(ss, num) \in Seq(Seq(C)) /\ Said(EnsureLimit(ss, num), K) = Said(ss, K)
  <1>. DEFINE chunks == Stripped(ss)
              limit == HardLimit(num)
              Parts(k) == IF CountTokens(chunks[k]) <= num THEN <<chunks[k]>>
                          ELSE HardSplit(chunks[k], num, limit)
              parts == [k \in DOMAIN chunks |-> Parts(k)]
  <1>1. chunks \in Seq(Seq(C)) /\ Said(chunks, K) = Said(ss, K)
    BY StrippedSays
  <1>2. CASE num <= 0
    BY <1>1, <1>2 DEF EnsureLimit
  <1>3. CASE ~ (num <= 0)
    <2>1. EnsureLimit(ss, num) = FlattenSeq(parts)
      BY <1>3 DEF EnsureLimit
    <2>2. num \in Nat /\ num > 0 /\ limit \in Nat /\ num <= limit
      BY <1>3 DEF HardLimit
    <2>. HIDE DEF chunks, limit
    <2>3. ASSUME NEW k \in DOMAIN chunks
          PROVE  Parts(k) \in Seq(Seq(C)) /\ Said(Parts(k), K) = Chosen(chunks[k], K)
      <3>. DEFINE s == chunks[k]
      <3>1. s \in Seq(C)
        BY <1>1
      <3>. HIDE DEF s
      <3>2. <<s>> \in Seq(Seq(C)) /\ Said(<<s>>, K) = Chosen(s, K)
        <4>1. Said(<<s>>, K) = Chosen(s, K)
          BY <3>1, SaidOne
        <4> QED
          BY <3>1, <4>1
      <3>3. HardSplit(s, num, limit) \in Seq(Seq(C)) /\ Said(HardSplit(s, num, limit), K) = Chosen(s, K)
        BY <2>2, <3>1, HardSplitSays
      <3> QED
        BY Zenon, <3>2, <3>3 DEF s
    <2>. HIDE DEF Parts
    <2>4. /\ parts \in Seq(Seq(Seq(C))) /\ Len(parts) = Len(chunks)
          /\ \A k \in 1..Len(chunks) : Said(parts[k], K) = Chosen(chunks[k], K)
      <3>1. /\ parts = [k \in DOMAIN chunks |-> parts[k]] /\ DOMAIN parts = DOMAIN chunks
            /\ \A k \in DOMAIN chunks : parts[k] = Parts(k)
        OBVIOUS
      <3>. HIDE DEF parts
      <3>2. \A k \in DOMAIN chunks : parts[k] \in Seq(Seq(C)) /\ Said(parts[k], K) = Chosen(chunks[k], K)
        BY <2>3, <3>1
      <3>3. parts \in Seq(Seq(Seq(C)))
        <4>1. \A k \in DOMAIN chunks : parts[k] \in Seq(Seq(C))
          BY <3>2
        <4>2. parts = [k \in DOMAIN chunks |-> parts[k]]
          BY <3>1
        <4> QED
          BY <1>1, <4>1, <4>2, SameLength
      <3>4. DOMAIN chunks = 1..Len(chunks)
        BY <1>1
      <3>5. Len(parts) = Len(chunks)
        BY <1>1, <3>1, <3>3
      <3> QED
        BY <3>2, <3>3, <3>4, <3>5
    <2>. HIDE DEF parts
    <2>5. FlattenSeq(parts) \in Seq(Seq(C)) /\ Said(FlattenSeq(parts), K) = Said(chunks, K)
      BY <1>1, <2>4, FlattenIn, SaidNested
    <2> QED
      BY <1>1, <2>1, <2>5
  <1> QED
    BY <1>2, <1>3

LEMMA GeneralChunksWithin ==
  ASSUME NEW C, "/" \in C, NEW s \in Seq(C), NEW c, c.num \in Nat, c.num > 0, c.overlap \in Int
  PROVE  GeneralChunks(s, c) \in Seq(Within(C, HardLimit(c.num)))
  <1>. DEFINE num == c.num
              limit == HardLimit(num)
              chunks == Stripped(NaiveMerge(Sections(s, c), c))
              Parts(k) == IF CountTokens(chunks[k]) <= num THEN <<chunks[k]>>
                          ELSE HardSplit(chunks[k], num, limit)
              parts == [k \in DOMAIN chunks |-> Parts(k)]
  <1>1. NaiveMerge(Sections(s, c), c) \in Seq(Seq(C))
    <2>. DEFINE K == {}
    <2>1. Blank \cap K = {} /\ "|" \notin K
      OBVIOUS
    <2>2. Sections(s, c) \in Seq(Seq(C))
      BY SectionsSay
    <2>. HIDE DEF K, num, limit, chunks
    <2>3. NaiveMerge(Sections(s, c), c) \in Seq(Seq(C))
      BY <2>1, <2>2, NaiveMergeKeeps
    <2> QED
      BY <2>3
  <1>2. chunks \in Seq(Seq(C))
    <2>1. \A t \in Seq(C) : Strip(t) \in Seq(C)
      BY StripParts
    <2> QED
      BY <1>1, <2>1, StrippedParts
  <1>3. limit \in Nat /\ num <= limit /\ num \in Nat /\ num > 0
    BY DEF HardLimit
  <1>4. GeneralChunks(s, c) = FlattenSeq(parts)
    BY DEF GeneralChunks, EnsureLimit
  <1>. HIDE DEF chunks, limit, num
  <1>5. ASSUME NEW k \in DOMAIN chunks PROVE Parts(k) \in Seq(Within(C, limit))
    <2>1. chunks[k] \in Seq(C) /\ CountTokens(chunks[k]) \in Nat
      BY <1>2, CountsWords
    <2>2. CASE CountTokens(chunks[k]) <= num
      <3>1. chunks[k] \in Within(C, limit)
        BY <1>3, <2>1, <2>2 DEF Within
      <3> QED
        BY <2>2, <3>1
    <2>3. CASE ~ (CountTokens(chunks[k]) <= num)
      BY <1>3, <2>1, <2>3, HardSplitWithin
    <2> QED
      BY <2>2, <2>3
  <1>6. parts \in Seq(Seq(Within(C, limit)))
    <2>. HIDE DEF Parts
    <2>1. /\ parts = [k \in DOMAIN chunks |-> parts[k]]
          /\ \A k \in DOMAIN chunks : parts[k] \in Seq(Within(C, limit))
      BY <1>5
    <2>. HIDE DEF parts
    <2> QED
      BY ZenonT(60), <1>2, <2>1, SameLength
  <1>. HIDE DEF parts
  <1>7. FlattenSeq(parts) \in Seq(Within(C, limit))
    BY <1>6, FlattenParts
  <1> QED
    BY <1>4, <1>7 DEF limit, num

\* From the document to the chunks of the general preset
LEMMA GeneralChunksKeep ==
  ASSUME NEW C, "/" \in C, NEW s \in Seq(C), NEW c, c.num \in Int, c.overlap \in Int
  PROVE  LET out == Content(FlattenSeq(GeneralChunks(s, c)), c)
         IN  Keeps(Content(s, c), out, c.overlap)
  <1>. DEFINE K == C \ Dropped(c)
              secs == Sections(s, c)
              merged == NaiveMerge(secs, c)
              chunks == EnsureLimit(merged, c.num)
  <1>1. Blank \cap K = {} /\ (c.delimiter = "custom" => "|" \notin K)
    <2>1. c.delimiter = "custom" => c.delimiter # "line"
      OBVIOUS
    <2> QED
      BY <2>1 DEF Dropped
  <1>2. secs \in Seq(Seq(C)) /\ Said(secs, K) = Chosen(s, K)
    BY SectionsSay
  <1>3. Content(s, c) = Chosen(s, K)
    BY SameContent
  <1>4. GeneralChunks(s, c) = chunks
    BY DEF GeneralChunks
  <1>. HIDE DEF secs
  <1>5. merged \in Seq(Seq(C)) /\ Keeps(Said(secs, K), Said(merged, K), c.overlap)
    <2>. HIDE DEF K
    <2> QED
      BY <1>1, <1>2, NaiveMergeKeeps
  <1>. HIDE DEF merged
  <1>6. chunks \in Seq(Seq(C)) /\ Said(chunks, K) = Said(merged, K)
    <2>. HIDE DEF K
    <2> QED
      BY <1>1, <1>5, EnsureLimitSays
  <1>. HIDE DEF chunks
  <1>7. FlattenSeq(chunks) \in Seq(C)
    BY <1>6, FlattenIn
  <1>8. Content(FlattenSeq(chunks), c) = Said(chunks, K)
    BY <1>7, SameContent DEF Said
  <1> QED
    BY Zenon, <1>2, <1>3, <1>4, <1>5, <1>6, <1>8

-----------------------------------------------------------------------------
(* The document and the slices                                              *)

ChunkInv ==
    /\ ChunkTypeOK
    /\ sliceStart > 0 => config.num > 0

LEMMA ChunkInvInit == ChunkInit => ChunkInv
  BY ChunkingAssumption DEF ChunkInit, ChunkInv, ChunkTypeOK

\* How far the next slice begins
LEMMA SliceAdvances ==
  ASSUME NEW C, NEW s \in Seq(C), NEW start \in 1..Len(s), NEW num \in Nat, num > 0,
         NEW overlap \in Nat, overlap < num
  PROVE  LET end == SliceEnd(s, start, num)
             next == StepBack(s, start, end, overlap)
         IN  /\ end \in start..Len(s)
             /\ end < Len(s) => next \in (start + 1)..(end + 1)
  <1>. DEFINE enough == {e \in start..Len(s) : CountTokens(SubSeq(s, start, e)) >= num}
              end == SliceEnd(s, start, num)
              fits == {b \in start..end : \A a \in b..end : CountTokens(SubSeq(s, a, end)) <= overlap}
              next == StepBack(s, start, end, overlap)
  <1>1. end = IF enough = {} THEN Len(s) ELSE Min(enough)
    BY DEF SliceEnd
  <1>2. enough # {} => Min(enough) \in enough
    <2>1. enough \in SUBSET Nat
      OBVIOUS
    <2>. HIDE DEF enough
    <2> QED
      BY <2>1, MinIsLeast
  <1>3. end \in start..Len(s)
    BY <1>1, <1>2
  <1>4. ASSUME end < Len(s) PROVE next \in (start + 1)..(end + 1)
    <2>1. CountTokens(SubSeq(s, start, end)) >= num
      BY <1>1, <1>2, <1>4
    <2>. HIDE DEF end
    <2>2. SubSeq(s, start, end) \in Seq(C)
      BY <1>3, PartIn
    <2>3. CountTokens(SubSeq(s, start, end)) \in Nat
      BY <2>2, CountsWords
    <2>4. start \notin fits
      BY <1>3, <2>1, <2>3
    <2>5. next = IF overlap <= 0 \/ fits = {} THEN end + 1 ELSE Min(fits)
      BY DEF StepBack
    <2>6. fits # {} => Min(fits) \in fits
      <3>1. fits \in SUBSET Nat
        BY <1>3
      <3>. HIDE DEF fits
      <3> QED
        BY <3>1, MinIsLeast
    <2>7. \A b \in fits : b \in (start + 1)..(end + 1)
      <3>1. \A b \in fits : b \in start..end
        OBVIOUS
      <3>. HIDE DEF fits
      <3> QED
        BY <1>3, <2>4, <3>1
    <2>. HIDE DEF fits, next
    <2> QED
      BY <1>3, <2>5, <2>6, <2>7
  <1> QED
    BY <1>3, <1>4

LEMMA ChunkInvStep ==
  ChunkInv /\ [ChunkNext]_chunkVars =>
    ChunkInv' /\ [sliceStart > 0 => sliceStart' > sliceStart]_chunkVars
  <1> SUFFICES ASSUME ChunkInv, [ChunkNext]_chunkVars
               PROVE  ChunkInv' /\ [sliceStart > 0 => sliceStart' > sliceStart]_chunkVars
    OBVIOUS
  <1>. DEFINE C == config.chars
  <1>0. /\ config \in ChunkConfigs /\ text \in Seq(C) /\ Len(text) <= config.length
        /\ sliceStart \in 0..(Len(text) + 1) /\ slices \in Seq(Seq(C))
        /\ sliceStart > 0 => config.num > 0
        /\ config.num \in Int /\ config.overlap \in Int /\ config.length \in Nat
        /\ Len(text) \in Nat
    BY ChunkingAssumption DEF ChunkInv, ChunkTypeOK
  <1>1. CASE WriteChar
    <2>1. PICK ch \in C : text' = Append(text, ch)
      BY <1>1 DEF WriteChar
    <2>2. /\ config' = config /\ slices' = slices /\ sliceStart' = sliceStart
          /\ sliceStart = 0 /\ Len(text) < config.length
      BY <1>1 DEF WriteChar
    <2>. HIDE DEF C
    <2>3. text' \in Seq(C) /\ Len(text') = Len(text) + 1
      BY <1>0, <2>1
    <2>4. Len(text') <= config.length
      BY <1>0, <2>2, <2>3
    <2>5. sliceStart' \in 0..(Len(text') + 1)
      BY <1>0, <2>2, <2>3
    <2>6. ~ (sliceStart > 0)
      BY <2>2
    <2> QED
      BY <1>0, <2>2, <2>3, <2>4, <2>5, <2>6 DEF ChunkInv, ChunkTypeOK, C
  <1>2. CASE BeginSlicing
    <2>1. UNCHANGED <<config, text, slices>> /\ sliceStart = 0 /\ sliceStart' = 1 /\ config.num > 0
      BY <1>2 DEF BeginSlicing
    <2>2. 1 \in 0..(Len(text) + 1) /\ 1 > 0
      BY <1>0
    <2> QED
      BY <1>0, <2>1, <2>2 DEF ChunkInv, ChunkTypeOK
  <1>3. CASE SliceNext
    <2>. DEFINE end == SliceEnd(text, sliceStart, config.num)
                overlap == OverlapTokens(config.num, config.overlap)
                next == StepBack(text, sliceStart, end, overlap)
    <2>1. /\ sliceStart \in 1..Len(text)
          /\ slices' = slices \o Stripped(<<SubSeq(text, sliceStart, end)>>)
          /\ sliceStart' = IF end >= Len(text) THEN Len(text) + 1 ELSE next
          /\ config' = config /\ text' = text
      BY <1>0, <1>3 DEF SliceNext
    <2>2. config.num \in Nat /\ config.num > 0
      BY <1>0, <2>1
    <2>3. overlap \in Nat /\ overlap < config.num
      BY <1>0, <2>2, OverlapIsLess
    <2>. HIDE DEF overlap, C
    <2>4. end \in sliceStart..Len(text) /\ (end < Len(text) => next \in (sliceStart + 1)..(end + 1))
      BY <1>0, <2>1, <2>2, <2>3, SliceAdvances
    <2>. HIDE DEF next, end
    <2>5. Stripped(<<SubSeq(text, sliceStart, end)>>) \in Seq(Seq(C))
      <3>1. SubSeq(text, sliceStart, end) \in Seq(C)
        BY <1>0, <2>1, <2>4, PartIn
      <3>2. <<SubSeq(text, sliceStart, end)>> \in Seq(Seq(C))
        BY <3>1
      <3>3. \A t \in Seq(C) : Strip(t) \in Seq(C)
        BY StripParts
      <3> QED
        BY <3>2, <3>3, StrippedParts
    <2>6. slices' \in Seq(Seq(C))
      BY <1>0, <2>1, <2>5
    <2>7. sliceStart' \in 0..(Len(text) + 1) /\ sliceStart' > sliceStart
      BY <1>0, <2>1, <2>4
    <2> QED
      BY <1>0, <2>1, <2>2, <2>6, <2>7 DEF ChunkInv, ChunkTypeOK, C
  <1>4. CASE UNCHANGED chunkVars
    BY <1>0, <1>4 DEF chunkVars, ChunkInv, ChunkTypeOK
  <1> QED
    BY <1>1, <1>2, <1>3, <1>4 DEF ChunkNext

\* Every variable of the chunking has its type.
THEOREM ChunkTypeCorrect == ChunkSpec => []ChunkTypeOK
  <1>1. ChunkInv => ChunkTypeOK
    BY DEF ChunkInv
  <1> QED
    BY <1>1, ChunkInvInit, ChunkInvStep, PTL DEF ChunkSpec

\* Whatever the text, the limit and the overlap: every iteration of the
\* slicing loop starts its next slice further on.
THEOREM SlicingAdvancesHolds == ChunkSpec => SlicingAdvances
  BY ChunkInvInit, ChunkInvStep, PTL DEF ChunkSpec, SlicingAdvances

\* Whatever the document and the parser_config: no chunk of the general preset
\* counts more than one and a half times chunk_token_num.
THEOREM ChunksWithinLimitHolds == ChunkSpec => []ChunksWithinLimit
  <1>1. ChunkInv => ChunksWithinLimit
    <2> SUFFICES ASSUME ChunkInv, config.num > 0
                 PROVE  \A k \in DOMAIN GeneralChunks(text, config) :
                            CountTokens(GeneralChunks(text, config)[k]) <= HardLimit(config.num)
      BY DEF ChunksWithinLimit
    <2>. DEFINE C == config.chars \cup {"/"}
    <2>1. text \in Seq(C)
      <3>1. text \in Seq(config.chars)
        BY DEF ChunkInv, ChunkTypeOK
      <3> QED
        BY <3>1
    <2>2. config.num \in Nat /\ config.overlap \in Int
      BY ChunkingAssumption DEF ChunkInv, ChunkTypeOK
    <2>3. GeneralChunks(text, config) \in Seq(Within(C, HardLimit(config.num)))
      <3>1. "/" \in C
        OBVIOUS
      <3>. HIDE DEF C
      <3> QED
        BY <2>1, <2>2, <3>1, GeneralChunksWithin
    <2> QED
      BY <2>3 DEF Within
  <1> QED
    BY <1>1, ChunkInvInit, ChunkInvStep, PTL DEF ChunkSpec

\* Whatever the document and the parser_config: the chunks of the general
\* preset are the document up to blanks and delimiters when there is no
\* overlap, and with one they still hold all of it, in order.
THEOREM ChunksKeepTextHolds == ChunkSpec => []ChunksKeepText
  <1>1. ChunkInv => ChunksKeepText
    <2> SUFFICES ASSUME ChunkInv PROVE ChunksKeepText
      OBVIOUS
    <2>. DEFINE C == config.chars \cup {"/"}
                out == Content(FlattenSeq(GeneralChunks(text, config)), config)
                said == Content(text, config)
    <2>1. text \in Seq(C)
      <3>1. text \in Seq(config.chars)
        BY DEF ChunkInv, ChunkTypeOK
      <3> QED
        BY <3>1
    <2>2. config.num \in Int /\ config.overlap \in Int
      BY ChunkingAssumption DEF ChunkInv, ChunkTypeOK
    <2>3. Keeps(said, out, config.overlap)
      <3>1. "/" \in C
        OBVIOUS
      <3>. HIDE DEF C
      <3> QED
        BY <2>1, <2>2, <3>1, GeneralChunksKeep
    <2>4. ChunksKeepText <=> IF config.overlap = 0 THEN out = said ELSE IsSubsequence(said, out)
      BY DEF ChunksKeepText
    <2>. HIDE DEF out, said
    <2> QED
      BY <2>3, <2>4, SubsequenceIsRead DEF Keeps
  <1> QED
    BY <1>1, ChunkInvInit, ChunkInvStep, PTL DEF ChunkSpec
=============================================================================
