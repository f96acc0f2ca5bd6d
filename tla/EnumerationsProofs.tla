-------------------------- MODULE EnumerationsProofs --------------------------
(***************************************************************************)
(* What sorting and filtering do, for every finite set, every strict total *)
(* order and every sequence.                                               *)
(***************************************************************************)
EXTENDS Enumerations, SequencesExt, FiniteSetTheorems, TLAPS

StrictTotal(R, S) ==
  /\ \A x \in S : <<x, x>> \notin R
  /\ \A x, y, z \in S : <<x, y>> \in R /\ <<y, z>> \in R => <<x, z>> \in R
  /\ \A x, y \in S : x = y \/ <<x, y>> \in R \/ <<y, x>> \in R

\* A sequence is a function on the indexes up to its length.
LEMMA FunctionIsSeq ==
  ASSUME NEW n \in Nat, NEW T, NEW f \in [1..n -> T]
  PROVE  f \in Seq(T) /\ Len(f) = n
OBVIOUS


LEMMA MinOfTwo ==
  ASSUME NEW a \in Int, NEW b \in Int
  PROVE  Min({a, b}) = IF a <= b THEN a ELSE b
<1>1. \E x \in {a, b} : \A y \in {a, b} : x <= y
  OBVIOUS
<1>2. Min({a, b}) \in {a, b} /\ \A y \in {a, b} : Min({a, b}) <= y
  BY <1>1 DEF Min
<1> QED
  BY <1>2

\* A part of a sequence.
LEMMA SliceFacts ==
  ASSUME NEW T, NEW s \in Seq(T), NEW from \in Nat, NEW to \in Nat, to <= Len(s)
  PROVE  /\ SubSeq(s, from + 1, to) \in Seq(T)
         /\ DOMAIN SubSeq(s, from + 1, to) = 1..to - from
         /\ \A k \in 1..to - from : SubSeq(s, from + 1, to)[k] = s[from + k]
OBVIOUS

\* One sequence after the other.
LEMMA ConcatFacts ==
  ASSUME NEW T, NEW s \in Seq(T), NEW t \in Seq(T)
  PROVE  /\ s \o t \in Seq(T) /\ Len(s \o t) = Len(s) + Len(t)
         /\ \A k \in 1..Len(s) : (s \o t)[k] = s[k]
         /\ \A k \in 1..Len(t) : (s \o t)[Len(s) + k] = t[k]
         /\ Range(s \o t) = Range(s) \cup Range(t)
<1>1. /\ s \o t \in Seq(T) /\ Len(s \o t) = Len(s) + Len(t)
      /\ \A k \in 1..Len(s) : (s \o t)[k] = s[k]
      /\ \A k \in 1..Len(t) : (s \o t)[Len(s) + k] = t[k]
  OBVIOUS
<1>2. /\ DOMAIN s = 1..Len(s) /\ DOMAIN t = 1..Len(t) /\ DOMAIN (s \o t) = 1..Len(s) + Len(t)
      /\ Len(s) \in Nat /\ Len(t) \in Nat
  OBVIOUS
<1> DEFINE u == s \o t
<1> HIDE DEF u
<1>3. ASSUME NEW k \in DOMAIN u
      PROVE  u[k] \in Range(s) \cup Range(t)
  <2>1. CASE k \in 1..Len(s)
    BY <1>1, <1>2, <2>1 DEF Range, u
  <2>2. CASE k \notin 1..Len(s)
    <3>1. k - Len(s) \in 1..Len(t) /\ k = Len(s) + (k - Len(s))
      BY <1>2, <2>2 DEF u
    <3> QED
      BY <1>1, <1>2, <3>1 DEF Range, u
  <2> QED
    BY <2>1, <2>2
<1>4. ASSUME NEW k \in DOMAIN s
      PROVE  s[k] \in Range(u)
  BY <1>1, <1>2 DEF Range, u
<1>5. ASSUME NEW k \in DOMAIN t
      PROVE  t[k] \in Range(u)
  <2>1. Len(s) + k \in DOMAIN u /\ u[Len(s) + k] = t[k]
    BY <1>1, <1>2 DEF u
  <2> QED
    BY <2>1 DEF Range
<1>6. Range(u) = Range(s) \cup Range(t)
  BY <1>3, <1>4, <1>5 DEF Range
<1> QED
  BY <1>1, <1>6 DEF u

-----------------------------------------------------------------------------
\* The place of an element: the number of the elements before it.
LEMMA PlaceType ==
  ASSUME NEW S, IsFiniteSet(S), NEW R, StrictTotal(R, S), NEW x \in S
  PROVE  /\ IsFiniteSet(Before(S, R, x))
         /\ Cardinality(Before(S, R, x)) \in 0..Cardinality(S) - 1
<1>1. Before(S, R, x) \in SUBSET S /\ x \notin Before(S, R, x)
  BY DEF Before, StrictTotal
<1>2. Cardinality(Before(S, R, x)) \in Nat /\ Cardinality(S) \in Nat
  BY <1>1, FS_Subset, FS_CardinalityType
<1>3. /\ IsFiniteSet(Before(S, R, x)) /\ Cardinality(Before(S, R, x)) <= Cardinality(S)
      /\ Cardinality(S) # Cardinality(Before(S, R, x))
  BY <1>1, FS_Subset
<1> QED
  BY <1>2, <1>3

LEMMA PlaceOrder ==
  ASSUME NEW S, IsFiniteSet(S), NEW R, StrictTotal(R, S), NEW x \in S, NEW y \in S, <<x, y>> \in R
  PROVE  Cardinality(Before(S, R, x)) < Cardinality(Before(S, R, y))
<1> DEFINE X == Before(S, R, x)
           Y == Before(S, R, y)
<1>1. X \in SUBSET Y /\ x \in Y /\ x \notin X
  BY DEF Before, StrictTotal
<1>2. IsFiniteSet(Y) /\ Cardinality(X) \in Nat /\ Cardinality(Y) \in Nat
  BY PlaceType
<1>3. Cardinality(X) <= Cardinality(Y) /\ Cardinality(X) # Cardinality(Y)
  <2> HIDE DEF X, Y
  <2> QED
    BY <1>1, <1>2, FS_Subset
<1> QED
  BY <1>2, <1>3

LEMMA PlaceOne ==
  ASSUME NEW S, IsFiniteSet(S), NEW R, StrictTotal(R, S), NEW x \in S, NEW y \in S,
         Cardinality(Before(S, R, x)) = Cardinality(Before(S, R, y))
  PROVE  x = y
<1>1. Cardinality(Before(S, R, x)) \in Nat /\ Cardinality(Before(S, R, y)) \in Nat
  BY PlaceType
<1>2. x = y \/ <<x, y>> \in R \/ <<y, x>> \in R
  BY DEF StrictTotal
<1>3. <<x, y>> \notin R /\ <<y, x>> \notin R
  BY <1>1, PlaceOrder
<1> QED
  BY <1>2, <1>3

LEMMA PlaceTaken ==
  ASSUME NEW S, IsFiniteSet(S), NEW R, StrictTotal(R, S), NEW k \in 1..Cardinality(S)
  PROVE  \E x \in S : Cardinality(Before(S, R, x)) = k - 1
<1> DEFINE n == Cardinality(S)
           f == [x \in S |-> Cardinality(Before(S, R, x)) + 1]
<1>1. n \in Nat
  BY FS_CardinalityType
<1>2. \A x \in S : Cardinality(Before(S, R, x)) \in Nat /\ f[x] \in 1..n
  <2> TAKE x \in S
  <2>1. Cardinality(Before(S, R, x)) \in 0..n - 1
    BY PlaceType
  <2> QED
    BY <1>1, <2>1
<1>3. ASSUME NEW x \in S, NEW y \in S, f[x] = f[y]
      PROVE  x = y
  <2>1. Cardinality(Before(S, R, x)) = Cardinality(Before(S, R, y))
    BY <1>2, <1>3
  <2> QED
    BY <2>1, PlaceOne
<1>4. f \in Injection(S, 1..n)
  <2>1. f \in [S -> 1..n]
    BY <1>2
  <2>2. \A x, y \in S : f[x] = f[y] => x = y
    BY <1>3
  <2> HIDE DEF f
  <2> QED
    BY <2>1, <2>2 DEF Injection, IsInjective
<1>5. IsFiniteSet(1..n) /\ Cardinality(1..n) = n
  BY <1>1, FS_Interval
<1>6. f \in Surjection(S, 1..n)
  <2> HIDE DEF f
  <2> QED
    BY <1>4, <1>5, FS_Injection
<1>7. \E x \in S : f[x] = k
  <2> HIDE DEF f
  <2> QED
    BY <1>6 DEF Surjection
<1> QED
  BY <1>2, <1>7

\* Enumerate lists every element of the set, each at its place.
LEMMA EnumerateFacts ==
  ASSUME NEW S, IsFiniteSet(S), NEW R, StrictTotal(R, S)
  PROVE  /\ Cardinality(S) \in Nat
         /\ Enumerate(S, R) \in [1..Cardinality(S) -> S]
         /\ \A k \in 1..Cardinality(S) : Cardinality(Before(S, R, Enumerate(S, R)[k])) = k - 1
         /\ \A x \in S : /\ Cardinality(Before(S, R, x)) + 1 \in 1..Cardinality(S)
                         /\ x = Enumerate(S, R)[Cardinality(Before(S, R, x)) + 1]
         /\ \A i, j \in 1..Cardinality(S) : i < j <=> <<Enumerate(S, R)[i], Enumerate(S, R)[j]>> \in R
<1> DEFINE n == Cardinality(S)
           e == Enumerate(S, R)
           Place(x) == Cardinality(Before(S, R, x))
<1>1. n \in Nat
  BY FS_CardinalityType
<1>2. \A k \in 1..n : e[k] = CHOOSE x \in S : Place(x) = k - 1
  BY DEF Enumerate
<1>3. \A k \in 1..n : \E x \in S : Place(x) = k - 1
  BY PlaceTaken
<1>4. \A k \in 1..n : e[k] \in S /\ Place(e[k]) = k - 1
  <2> HIDE DEF Place, e
  <2> QED
    BY <1>2, <1>3
<1>5. e \in [1..n -> S]
  BY <1>4 DEF Enumerate
<1>6. \A x \in S : Place(x) \in 0..n - 1
  BY PlaceType
<1>7. ASSUME NEW x \in S
      PROVE  Place(x) + 1 \in 1..n /\ x = e[Place(x) + 1]
  <2>1. Place(x) + 1 \in 1..n /\ Place(x) = (Place(x) + 1) - 1
    BY <1>1, <1>6
  <2>2. e[Place(x) + 1] \in S /\ Place(e[Place(x) + 1]) = Place(x)
    BY <1>4, <2>1
  <2> HIDE DEF e
  <2> QED
    BY <2>1, <2>2, PlaceOne
<1>8. ASSUME NEW i \in 1..n, NEW j \in 1..n
      PROVE  i < j <=> <<e[i], e[j]>> \in R
  <2> HIDE DEF e
  <2>1. e[i] \in S /\ e[j] \in S /\ Place(e[i]) = i - 1 /\ Place(e[j]) = j - 1
    BY <1>4
  <2>2. i \in Int /\ j \in Int
    OBVIOUS
  <2>3. <<e[i], e[j]>> \in R => i < j
    BY <2>1, <2>2, PlaceOrder
  <2>4. <<e[j], e[i]>> \in R => j < i
    BY <2>1, <2>2, PlaceOrder
  <2>5. i < j => e[i] # e[j]
    BY <2>1, <2>2
  <2>6. e[i] = e[j] \/ <<e[i], e[j]>> \in R \/ <<e[j], e[i]>> \in R
    BY <2>1 DEF StrictTotal
  <2> QED
    BY <2>2, <2>3, <2>4, <2>5, <2>6
<1> HIDE DEF e, Place
<1>9. /\ \A x \in S : Place(x) + 1 \in 1..n /\ x = e[Place(x) + 1]
      /\ \A i, j \in 1..n : i < j <=> <<e[i], e[j]>> \in R
  BY <1>7, <1>8
<1> QED
  BY <1>1, <1>4, <1>5, <1>9 DEF e, Place

\* What it lists is the set, nothing twice.
LEMMA EnumerateOnce ==
  ASSUME NEW S, IsFiniteSet(S), NEW R, StrictTotal(R, S)
  PROVE  /\ Enumerate(S, R) \in Seq(S) /\ Len(Enumerate(S, R)) = Cardinality(S)
         /\ DOMAIN Enumerate(S, R) = 1..Cardinality(S)
         /\ \A x \in S : \E k \in DOMAIN Enumerate(S, R) : Enumerate(S, R)[k] = x
         /\ \A i, j \in DOMAIN Enumerate(S, R) : Enumerate(S, R)[i] = Enumerate(S, R)[j] => i = j
<1> DEFINE e == Enumerate(S, R)
<1> HIDE DEF e
<1>1. /\ Cardinality(S) \in Nat /\ e \in [1..Cardinality(S) -> S]
      /\ \A k \in 1..Cardinality(S) : Cardinality(Before(S, R, e[k])) = k - 1
      /\ \A x \in S : /\ Cardinality(Before(S, R, x)) + 1 \in 1..Cardinality(S)
                      /\ x = e[Cardinality(Before(S, R, x)) + 1]
  BY EnumerateFacts DEF e
<1>2. e \in Seq(S) /\ Len(e) = Cardinality(S) /\ DOMAIN e = 1..Cardinality(S)
  BY <1>1, FunctionIsSeq
<1>3. \A x \in S : \E k \in DOMAIN e : e[k] = x
  BY <1>1, <1>2
<1>4. ASSUME NEW i \in 1..Cardinality(S), NEW j \in 1..Cardinality(S), e[i] = e[j]
      PROVE  i = j
  <2>1. i - 1 = j - 1 /\ i \in Int /\ j \in Int
    BY <1>1, <1>4
  <2> QED
    BY <2>1
<1> QED
  BY <1>2, <1>3, <1>4 DEF e

\* In a sequence in the order R, as many are before an element as its index tells.
LEMMA PlaceInList ==
  ASSUME NEW S, NEW R, NEW s \in Seq(S), \A x \in S : \E i \in 1..Len(s) : s[i] = x,
         \A i, j \in 1..Len(s) : i < j <=> <<s[i], s[j]>> \in R, NEW i \in 1..Len(s)
  PROVE  Cardinality(Before(S, R, s[i])) = i - 1
<1> DEFINE A == Before(S, R, s[i])
           f == [k \in 1..i - 1 |-> s[k]]
<1>1. Len(s) \in Nat /\ i - 1 \in Nat /\ \A k \in 1..i - 1 : k \in 1..Len(s) /\ k < i
  OBVIOUS
<1>2. \A k \in 1..Len(s) : s[k] \in S
  OBVIOUS
<1>3. \A k \in 1..i - 1 : s[k] \in A
  BY <1>1, <1>2 DEF Before
<1>4. ASSUME NEW t \in A
      PROVE  \E k \in 1..i - 1 : s[k] = t
  <2>1. t \in S /\ <<t, s[i]>> \in R
    BY DEF Before
  <2>2. PICK k \in 1..Len(s) : s[k] = t
    BY <2>1
  <2>3. k < i
    BY <2>1, <2>2
  <2> QED
    BY <1>1, <2>2, <2>3
<1>5. ASSUME NEW j \in 1..i - 1, NEW k \in 1..i - 1, s[j] = s[k]
      PROVE  j = k
  <2>1. j \in 1..Len(s) /\ k \in 1..Len(s)
    BY <1>1
  <2>2. (j < k <=> <<s[j], s[k]>> \in R) /\ (k < j <=> <<s[k], s[j]>> \in R) /\ (j < j <=> <<s[j], s[j]>> \in R)
    BY <2>1
  <2> QED
    BY <1>5, <2>1, <2>2
<1> HIDE DEF A
<1>6. f \in [1..i - 1 -> A] /\ \A k \in 1..i - 1 : f[k] = s[k]
  BY <1>3
<1> HIDE DEF f
<1>7. f \in Bijection(1..i - 1, A)
  BY <1>4, <1>5, <1>6 DEF Bijection, Injection, Surjection, IsInjective
<1>8. Cardinality(A) = i - 1
  BY <1>1, <1>7, FS_CountingElements DEF ExistsBijection
<1> QED
  BY <1>8 DEF A

\* What is not on the page that begins after offset is not there, or behind it.
LEMMA PageMisses ==
  ASSUME NEW T, NEW s \in Seq(T), NEW offset \in Nat, NEW limit \in Nat, NEW i \in 1..Len(s),
         offset < i, s[i] \notin Range(SubSeq(s, offset + 1, Min({offset + limit, Len(s)})))
  PROVE  offset + limit < i
<1> DEFINE to == Min({offset + limit, Len(s)})
           page == SubSeq(s, offset + 1, to)
<1>1. Len(s) \in Nat /\ to = IF offset + limit <= Len(s) THEN offset + limit ELSE Len(s)
  BY MinOfTwo
<1>2. to \in Nat /\ to <= Len(s)
  BY <1>1
<1>3. ASSUME i <= offset + limit
      PROVE  i - offset \in 1..to - offset /\ offset + (i - offset) = i
  BY <1>1, <1>3
<1> HIDE DEF to
<1>4. DOMAIN page = 1..to - offset /\ \A k \in 1..to - offset : page[k] = s[offset + k]
  BY <1>2, SliceFacts
<1> HIDE DEF page
<1>5. ASSUME i <= offset + limit
      PROVE  s[i] \in Range(page)
  <2>1. page[i - offset] = s[i] /\ i - offset \in DOMAIN page
    BY <1>3, <1>4, <1>5
  <2> QED
    BY <2>1 DEF Range
<1> QED
  BY <1>5 DEF page, to

-----------------------------------------------------------------------------
LEMMA AscendingIsTotal ==
  ASSUME NEW S \in SUBSET Int
  PROVE  StrictTotal(Ascending(S), S)
<1>1. \A x, y \in S : <<x, y>> \in Ascending(S) <=> x < y
  BY DEF Ascending
<1> QED
  BY <1>1 DEF StrictTotal

\* The kept indexes go up, and are all of those whose element is in T.
LEMMA KeptAtFacts ==
  ASSUME NEW U, NEW s \in Seq(U), NEW T
  PROVE  /\ KeptAt(s, T) \in [1..Len(KeptAt(s, T)) -> 1..Len(s)]
         /\ Len(KeptAt(s, T)) \in Nat /\ Len(KeptAt(s, T)) <= Len(s)
         /\ \A k \in 1..Len(KeptAt(s, T)) : s[KeptAt(s, T)[k]] \in T
         /\ \A i \in 1..Len(s) : s[i] \in T => \E k \in 1..Len(KeptAt(s, T)) : KeptAt(s, T)[k] = i
         /\ \A i, j \in 1..Len(KeptAt(s, T)) : i < j <=> KeptAt(s, T)[i] < KeptAt(s, T)[j]
<1> DEFINE at == {i \in DOMAIN s : s[i] \in T}
           n == Cardinality(at)
           e == Enumerate(at, Ascending(at))
<1>1. DOMAIN s = 1..Len(s) /\ Len(s) \in Nat
  OBVIOUS
<1>2. at \in SUBSET (1..Len(s)) /\ at \in SUBSET Int
  BY <1>1
<1>3. IsFiniteSet(1..Len(s)) /\ Cardinality(1..Len(s)) = Len(s)
  BY <1>1, FS_Interval
<1>4. IsFiniteSet(at) /\ n <= Len(s) /\ n \in Nat
  <2> HIDE DEF at
  <2> QED
    BY <1>2, <1>3, FS_Subset, FS_CardinalityType
<1>5. StrictTotal(Ascending(at), at)
  <2> HIDE DEF at
  <2> QED
    BY <1>2, AscendingIsTotal
<1>6. /\ e \in [1..n -> at]
      /\ \A x \in at : \E k \in 1..n : e[k] = x
      /\ \A i, j \in 1..n : i < j <=> <<e[i], e[j]>> \in Ascending(at)
  <2> HIDE DEF at
  <2> QED
    BY <1>4, <1>5, EnumerateFacts
<1>7. KeptAt(s, T) = e /\ Len(e) = n
  <2>1. KeptAt(s, T) = e
    BY DEF KeptAt
  <2> HIDE DEF at, e, n
  <2> QED
    BY <1>4, <1>6, <2>1, FunctionIsSeq
<1>8. \A i, j \in 1..n : i < j <=> e[i] < e[j]
  <2>1. \A x, y \in at : <<x, y>> \in Ascending(at) <=> x < y
    BY DEF Ascending
  <2> HIDE DEF at, e, n
  <2> QED
    BY <1>6, <2>1
<1> HIDE DEF e, n
<1>9. /\ e \in [1..n -> 1..Len(s)] /\ \A k \in 1..n : s[e[k]] \in T
      /\ \A i \in 1..Len(s) : s[i] \in T => \E k \in 1..n : e[k] = i
  BY <1>1, <1>6
<1> QED
  BY <1>4, <1>7, <1>8, <1>9

\* Filter is s at these indexes: it keeps what is in T, and nothing else.
LEMMA FilterFacts ==
  ASSUME NEW U, NEW s \in Seq(U), NEW T
  PROVE  /\ Filter(s, T) \in Seq(U) /\ Len(Filter(s, T)) = Len(KeptAt(s, T))
         /\ DOMAIN Filter(s, T) = 1..Len(KeptAt(s, T))
         /\ \A k \in DOMAIN Filter(s, T) : Filter(s, T)[k] = s[KeptAt(s, T)[k]] /\ Filter(s, T)[k] \in T
         /\ \A i \in DOMAIN s : s[i] \in T => \E k \in DOMAIN Filter(s, T) : Filter(s, T)[k] = s[i]
<1> DEFINE at == KeptAt(s, T)
           n == Len(KeptAt(s, T))
<1> HIDE DEF at, n
<1>1. /\ at \in [1..n -> 1..Len(s)] /\ n \in Nat
      /\ \A k \in 1..n : s[at[k]] \in T
      /\ \A i \in 1..Len(s) : s[i] \in T => \E k \in 1..n : at[k] = i
  BY KeptAtFacts DEF at, n
<1>2. DOMAIN at = 1..n /\ Filter(s, T) = [k \in DOMAIN at |-> s[at[k]]]
  BY <1>1 DEF Filter, at
<1>3. DOMAIN s = 1..Len(s) /\ \A i \in 1..Len(s) : s[i] \in U
  OBVIOUS
<1>4. \A k \in 1..n : at[k] \in 1..Len(s)
  BY <1>1
<1>5. Filter(s, T) \in [1..n -> U] /\ \A k \in 1..n : Filter(s, T)[k] = s[at[k]]
  BY <1>2, <1>3, <1>4
<1>6. Filter(s, T) \in Seq(U) /\ Len(Filter(s, T)) = n /\ DOMAIN Filter(s, T) = 1..n
  BY <1>1, <1>5, FunctionIsSeq
<1>7. \A k \in 1..n : Filter(s, T)[k] = s[at[k]] /\ Filter(s, T)[k] \in T
  BY <1>1, <1>5
<1>8. ASSUME NEW i \in DOMAIN s, s[i] \in T
      PROVE  \E k \in 1..n : Filter(s, T)[k] = s[i]
  <2>1. PICK k \in 1..n : at[k] = i
    BY <1>1, <1>3, <1>8
  <2> QED
    BY <1>5, <2>1
<1> QED
  BY <1>6, <1>7, <1>8 DEF at, n
=============================================================================
