------------------------- MODULE PromptBatchesProofs -------------------------
(***************************************************************************)
(* Which files the model calls of a review are shown, for any files of the *)
(* pull request and any budgets of the route: every loop keeps the         *)
(* invariant IInv, which says what the loops before it have left.          *)
(***************************************************************************)
EXTENDS PromptBatches, SequenceTheorems, FunctionTheorems, FiniteSetTheorems, TLAPS

-----------------------------------------------------------------------------
(* Sums *)

Units(sizes) == UNION {{i} \X (1 .. sizes[i]) : i \in DOMAIN sizes}

LEMMA UnitsAre ==
  \A sizes : \A x :
      x \in Units(sizes) <=> \E i \in DOMAIN sizes : \E u \in 1 .. sizes[i] : x = <<i, u>>
BY DEF Units

LEMMA TotalIs == \A sizes : Total(sizes) = Cardinality(Units(sizes))
BY DEF Total, Units

\* The places of a list are finitely many.
LEMMA PlacesFinite == \A n \in Nat : IsFiniteSet(1 .. n) /\ Cardinality(1 .. n) = n
BY FS_Interval

\* A natural number for every place.
Sizes(sizes) == IsFiniteSet(DOMAIN sizes) /\ \A i \in DOMAIN sizes : sizes[i] \in Nat

\* A function that pairs the units of two places has as many units as the other.
LEMMA SameTotal ==
  ASSUME NEW A, NEW B, IsFiniteSet(Units(A)),
         NEW move \in [Units(A) -> Units(B)],
         \A x, y \in Units(A) : move[x] = move[y] => x = y,
         \A y \in Units(B) : \E x \in Units(A) : move[x] = y
  PROVE  IsFiniteSet(Units(B)) /\ Total(B) = Total(A)
<1>1. move \in Bijection(Units(A), Units(B))
  BY Fun_IsBij
<1>2. ExistsBijection(Units(A), Units(B))
  BY <1>1 DEF ExistsBijection
<1>3. IsFiniteSet(Units(B)) /\ Cardinality(Units(B)) = Cardinality(Units(A))
  BY <1>2, FS_Bijection
<1> QED
  BY <1>3, TotalIs

LEMMA OneSize ==
  ASSUME NEW a, NEW n \in Nat
  PROVE  LET one == [i \in {a} |-> n] IN IsFiniteSet(Units(one)) /\ Total(one) = n
<1> DEFINE one == [i \in {a} |-> n]
           T == {a} \X (1 .. n)
<1>1. Units(one) = T
  BY DEF Units
<1>2. IsFiniteSet({a}) /\ Cardinality({a}) = 1
  BY FS_Singleton
<1>3. IsFiniteSet(1 .. n) /\ Cardinality(1 .. n) = n
  BY PlacesFinite
<1>4. IsFiniteSet(T) /\ Cardinality(T) = Cardinality({a}) * Cardinality(1 .. n)
  BY <1>2, <1>3, FS_Product, Zenon
<1>5. Cardinality(T) = n
  BY <1>2, <1>3, <1>4
<1> QED
  BY <1>1, <1>4, <1>5, TotalIs

\* The sum over all places is that over some and that over the others.
LEMMA SplitTotal ==
  ASSUME NEW A, NEW B, NEW C, DOMAIN A = DOMAIN B \cup DOMAIN C, DOMAIN B \cap DOMAIN C = {},
         \A i \in DOMAIN B : A[i] = B[i], \A i \in DOMAIN C : A[i] = C[i],
         IsFiniteSet(Units(B)), IsFiniteSet(Units(C))
  PROVE  IsFiniteSet(Units(A)) /\ Total(A) = Total(B) + Total(C)
<1>1. Units(A) = Units(B) \cup Units(C)
  <2>1. ASSUME NEW x \in Units(A) PROVE x \in Units(B) \cup Units(C)
    BY UnitsAre
  <2>2. ASSUME NEW x \in Units(B) \cup Units(C) PROVE x \in Units(A)
    BY UnitsAre
  <2> QED
    BY <2>1, <2>2
<1>2. Units(B) \cap Units(C) = {}
  BY UnitsAre
<1>3. /\ IsFiniteSet(Units(B) \cup Units(C))
      /\ Cardinality(Units(B) \cup Units(C))
           = Cardinality(Units(B)) + Cardinality(Units(C)) - Cardinality({})
  BY <1>2, FS_Union
<1>4. Cardinality({}) = 0 /\ Cardinality(Units(B)) \in Nat /\ Cardinality(Units(C)) \in Nat
  BY FS_EmptySet, FS_CardinalityType
<1>5. Total(A) = Cardinality(Units(B) \cup Units(C))
      /\ Total(B) = Cardinality(Units(B)) /\ Total(C) = Cardinality(Units(C))
  BY <1>1, TotalIs, Zenon
<1> QED
  BY <1>1, <1>3, <1>4, <1>5

\* The units of finitely many places are finitely many.
LEMMA TotalIsNat ==
  ASSUME NEW sizes, Sizes(sizes)
  PROVE  IsFiniteSet(Units(sizes)) /\ Total(sizes) \in Nat
<1> DEFINE D == DOMAIN sizes
           part == [i \in D |-> {i} \X (1 .. sizes[i])]
           parts == {{i} \X (1 .. sizes[i]) : i \in D}
<1>1. IsFiniteSet(D) /\ \A i \in D : sizes[i] \in Nat
  BY DEF Sizes
<1>2. part \in Surjection(D, parts)
  <2>1. part \in [D -> parts]
    OBVIOUS
  <2>2. \A t \in parts : \E i \in D : part[i] = t
    OBVIOUS
  <2> QED
    BY <2>1, <2>2, Fun_IsSurj
<1>3. IsFiniteSet(parts)
  <2> HIDE DEF part, parts
  <2> QED
    BY <1>1, <1>2, FS_Surjection
<1>4. \A T \in parts : IsFiniteSet(T)
  <2> SUFFICES ASSUME NEW i \in D PROVE IsFiniteSet({i} \X (1 .. sizes[i]))
    OBVIOUS
  <2>1. IsFiniteSet({i}) /\ IsFiniteSet(1 .. sizes[i])
    BY <1>1, FS_Singleton, PlacesFinite
  <2> QED
    BY <2>1, FS_Product
<1>5. IsFiniteSet(UNION parts)
  <2> HIDE DEF parts
  <2> QED
    BY <1>3, <1>4, FS_UNION
<1>6. IsFiniteSet(Units(sizes))
  BY <1>5 DEF Units
<1> QED
  BY <1>6, FS_CardinalityType, TotalIs

LEMMA EmptyTotal ==
  ASSUME NEW sizes, DOMAIN sizes = {} PROVE Total(sizes) = 0
<1>1. Units(sizes) = {}
  BY UnitsAre
<1> QED
  BY <1>1, FS_EmptySet, TotalIs

\* The same numbers at other places.
LEMMA MovedTotal ==
  ASSUME NEW A, NEW B, Sizes(A), NEW move \in [DOMAIN A -> DOMAIN B],
         \A i, j \in DOMAIN A : move[i] = move[j] => i = j,
         \A k \in DOMAIN B : \E i \in DOMAIN A : move[i] = k,
         \A i \in DOMAIN A : B[move[i]] = A[i]
  PROVE  Total(B) = Total(A)
<1> DEFINE shift == [x \in Units(A) |-> <<move[x[1]], x[2]>>]
<1>1. IsFiniteSet(Units(A))
  BY TotalIsNat
<1>2. ASSUME NEW x \in Units(A)
      PROVE  /\ x[1] \in DOMAIN A /\ x[2] \in 1 .. A[x[1]] /\ x = <<x[1], x[2]>>
             /\ shift[x] = <<move[x[1]], x[2]>>
  BY UnitsAre
<1>3. shift \in [Units(A) -> Units(B)]
  <2> SUFFICES ASSUME NEW x \in Units(A) PROVE <<move[x[1]], x[2]>> \in Units(B)
    OBVIOUS
  <2>1. move[x[1]] \in DOMAIN B /\ x[2] \in 1 .. B[move[x[1]]]
    BY <1>2
  <2> QED
    BY <2>1, UnitsAre
<1>4. \A x, y \in Units(A) : shift[x] = shift[y] => x = y
  <2> HIDE DEF shift
  <2> SUFFICES ASSUME NEW x \in Units(A), NEW y \in Units(A), shift[x] = shift[y] PROVE x = y
    OBVIOUS
  <2>1. <<move[x[1]], x[2]>> = <<move[y[1]], y[2]>>
    BY <1>2
  <2>2. move[x[1]] = move[y[1]] /\ x[2] = y[2]
    BY <2>1
  <2>3. x[1] = y[1]
    BY <2>2, <1>2
  <2> QED
    BY <2>2, <2>3, <1>2
<1>5. ASSUME NEW k \in DOMAIN B, NEW u \in 1 .. B[k]
      PROVE  \E x \in Units(A) : shift[x] = <<k, u>>
  <2>1. PICK i \in DOMAIN A : move[i] = k
    OBVIOUS
  <2>2. u \in 1 .. A[i]
    BY <2>1
  <2>3. <<i, u>> \in Units(A)
    BY <2>2, UnitsAre
  <2>4. shift[<<i, u>>] = <<k, u>>
    BY <2>1, <2>3
  <2> QED
    BY <2>3, <2>4
<1> HIDE DEF shift
<1>6. ASSUME NEW y \in Units(B) PROVE \E x \in Units(A) : shift[x] = y
  <2>1. PICK k \in DOMAIN B : \E u \in 1 .. B[k] : y = <<k, u>>
    BY UnitsAre
  <2>2. PICK u \in 1 .. B[k] : y = <<k, u>>
    BY <2>1
  <2>3. \E x \in Units(A) : shift[x] = <<k, u>>
    BY <1>5
  <2> QED
    BY <2>2, <2>3
<1> QED
  BY <1>1, <1>3, <1>4, <1>6, SameTotal

-----------------------------------------------------------------------------
(* The characters of a list of entries *)

CharsAt(list) == [i \in DOMAIN list |-> list[i].chars]

LEMMA CharsAreSizes ==
  ASSUME NEW list \in Seq(Entries)
  PROVE  Sizes(CharsAt(list)) /\ CharsOf(list) = Total(CharsAt(list)) /\ CharsOf(list) \in Nat
<1>1. DOMAIN list = 1 .. Len(list) /\ Len(list) \in Nat
  BY LenProperties
<1>2. \A i \in DOMAIN list : list[i].chars \in Nat
  <2> TAKE i \in DOMAIN list
  <2>1. list[i] \in Entries
    BY <1>1, ElementOfSeq
  <2> QED
    BY <2>1 DEF Entries
<1>3. Sizes(CharsAt(list))
  BY <1>1, <1>2, PlacesFinite DEF Sizes, CharsAt
<1>4. CharsOf(list) = Total(CharsAt(list))
  BY DEF CharsOf, CharsAt
<1> QED
  BY <1>3, <1>4, TotalIsNat

LEMMA NoChars == CharsOf(<<>>) = 0
<1>1. CharsOf(<<>>) = Total(CharsAt(<<>>))
  BY DEF CharsOf, CharsAt
<1>2. DOMAIN CharsAt(<<>>) = {}
  BY DEF CharsAt
<1> QED
  BY <1>1, <1>2, EmptyTotal

LEMMA CharsAppend ==
  ASSUME NEW list \in Seq(Entries), NEW e \in Entries
  PROVE  CharsOf(Append(list, e)) = CharsOf(list) + e.chars
<1> DEFINE n == Len(list)
           longer == Append(list, e)
           one == [i \in {n + 1} |-> e.chars]
<1>1. /\ longer \in Seq(Entries) /\ Len(longer) = n + 1
      /\ \A i \in 1 .. n : longer[i] = list[i]
      /\ longer[n + 1] = e
  BY AppendProperties
<1>2. DOMAIN list = 1 .. n /\ n \in Nat /\ DOMAIN longer = 1 .. n + 1
  BY <1>1, LenProperties
<1>3. IsFiniteSet(Units(one)) /\ Total(one) = e.chars
  BY OneSize DEF Entries
<1>4. /\ DOMAIN CharsAt(list) = 1 .. n /\ DOMAIN one = {n + 1}
      /\ DOMAIN CharsAt(longer) = 1 .. n + 1
      /\ \A i \in 1 .. n : CharsAt(longer)[i] = CharsAt(list)[i]
      /\ \A i \in {n + 1} : CharsAt(longer)[i] = one[i]
  BY <1>1, <1>2 DEF CharsAt
<1>5. IsFiniteSet(Units(CharsAt(list)))
  BY CharsAreSizes, TotalIsNat
<1>6. 1 .. n + 1 = 1 .. n \cup {n + 1} /\ 1 .. n \cap {n + 1} = {}
  BY <1>2
<1> HIDE DEF one, longer
<1>7. Total(CharsAt(longer)) = Total(CharsAt(list)) + Total(one)
  BY <1>3, <1>4, <1>5, <1>6, SplitTotal
<1> QED
  BY <1>1, <1>3, <1>7, CharsAreSizes DEF longer

LEMMA CharsHeadTail ==
  ASSUME NEW list \in Seq(Entries), list # <<>>
  PROVE  /\ Head(list) \in Entries /\ Tail(list) \in Seq(Entries)
         /\ CharsOf(list) = Head(list).chars + CharsOf(Tail(list))
<1> DEFINE n == Len(list)
           rest == [i \in 2 .. n |-> list[i].chars]
           one == [i \in {1} |-> Head(list).chars]
           move == [i \in 1 .. n - 1 |-> i + 1]
           tail == Tail(list)
<1>1. /\ Head(list) \in Entries /\ tail \in Seq(Entries) /\ Len(tail) = n - 1
      /\ \A i \in 1 .. n - 1 : tail[i] = list[i + 1]
      /\ n \in Nat \ {0} /\ Head(list) = list[1]
  BY HeadTailProperties, EmptySeq
<1>2. DOMAIN list = 1 .. n /\ DOMAIN tail = 1 .. n - 1
  BY <1>1, LenProperties
<1>3. IsFiniteSet(Units(one)) /\ Total(one) = Head(list).chars
  BY <1>1, OneSize DEF Entries
<1>4. Total(rest) = Total(CharsAt(tail)) /\ IsFiniteSet(Units(rest))
  <2>1. /\ DOMAIN rest = 2 .. n /\ DOMAIN CharsAt(tail) = 1 .. n - 1
        /\ \A i \in 1 .. n - 1 : rest[i + 1] = CharsAt(tail)[i]
    BY <1>1, <1>2 DEF CharsAt
  <2>2. /\ move \in [1 .. n - 1 -> 2 .. n]
        /\ \A i, j \in 1 .. n - 1 : move[i] = move[j] => i = j
        /\ \A i \in 1 .. n - 1 : move[i] = i + 1
    BY <1>1
  <2>3. \A k \in 2 .. n : k - 1 \in 1 .. n - 1 /\ move[k - 1] = k
    BY <1>1
  <2>4. Sizes(CharsAt(tail)) /\ Sizes(CharsAt(list))
    BY <1>1, CharsAreSizes
  <2>5. Sizes(rest)
    <3>1. 2 .. n \in SUBSET (1 .. n)
      BY <1>1
    <3>2. IsFiniteSet(2 .. n)
      BY <1>1, <3>1, PlacesFinite, FS_Subset
    <3>3. \A i \in 2 .. n : rest[i] \in Nat
      BY <2>4, <1>2 DEF Sizes, CharsAt
    <3> QED
      BY <3>2, <3>3 DEF Sizes
  <2> HIDE DEF rest, move
  <2>6. Total(rest) = Total(CharsAt(tail))
    <3>1. PICK A : A = CharsAt(tail)
      OBVIOUS
    <3>2. DOMAIN A = 1 .. n - 1 /\ Sizes(A) /\ \A i \in 1 .. n - 1 : rest[move[i]] = A[i]
      BY <2>1, <2>2, <2>4, <3>1
    <3>3. move \in [DOMAIN A -> DOMAIN rest]
      BY <2>1, <2>2, <3>2
    <3>4. \A i, j \in DOMAIN A : move[i] = move[j] => i = j
      BY <2>2, <3>2
    <3>5. \A k \in DOMAIN rest : \E i \in DOMAIN A : move[i] = k
      BY <2>1, <2>3, <3>2
    <3>6. \A i \in DOMAIN A : rest[move[i]] = A[i]
      BY <3>2
    <3>7. Total(rest) = Total(A)
      BY <3>2, <3>3, <3>4, <3>5, <3>6, MovedTotal, Zenon
    <3> QED
      BY <3>1, <3>7
  <2> QED
    BY <2>5, <2>6, TotalIsNat
<1>5. /\ DOMAIN CharsAt(list) = 1 .. n /\ DOMAIN one = {1} /\ DOMAIN rest = 2 .. n
      /\ \A i \in 2 .. n : CharsAt(list)[i] = rest[i]
      /\ \A i \in {1} : CharsAt(list)[i] = one[i]
  BY <1>1, <1>2 DEF CharsAt
<1>6. 1 .. n = {1} \cup 2 .. n /\ {1} \cap 2 .. n = {}
  BY <1>1
<1> HIDE DEF one, rest
<1>7. Total(CharsAt(list)) = Total(one) + Total(rest)
  BY <1>3, <1>4, <1>5, <1>6, SplitTotal
<1> QED
  BY <1>1, <1>3, <1>4, <1>7, CharsAreSizes

\* The same entries in another order.
LEMMA CharsReordered ==
  ASSUME NEW list \in Seq(Entries), NEW other \in Seq(Entries), Len(other) = Len(list),
         NEW order \in [DOMAIN list -> DOMAIN list],
         \A j, k \in DOMAIN list : order[j] = order[k] => j = k,
         \A i \in DOMAIN list : \E k \in DOMAIN list : order[k] = i,
         \A k \in DOMAIN list : other[k] = list[order[k]]
  PROVE  CharsOf(other) = CharsOf(list)
<1>1. DOMAIN list = 1 .. Len(list) /\ DOMAIN other = DOMAIN list
  BY LenProperties
<1>2. /\ DOMAIN CharsAt(other) = DOMAIN list /\ DOMAIN CharsAt(list) = DOMAIN list
      /\ \A k \in DOMAIN list : CharsAt(list)[order[k]] = CharsAt(other)[k]
  BY <1>1 DEF CharsAt
<1>3. Sizes(CharsAt(other))
  BY CharsAreSizes
<1>4. Total(CharsAt(list)) = Total(CharsAt(other))
  <2>1. PICK A : A = CharsAt(other)
    OBVIOUS
  <2>2. PICK B : B = CharsAt(list)
    OBVIOUS
  <2>3. PICK move : move = order
    OBVIOUS
  <2>4. /\ Sizes(A)
        /\ move \in [DOMAIN A -> DOMAIN B]
        /\ \A i, j \in DOMAIN A : move[i] = move[j] => i = j
        /\ \A k \in DOMAIN B : \E i \in DOMAIN A : move[i] = k
        /\ \A i \in DOMAIN A : B[move[i]] = A[i]
    BY <1>2, <1>3, <2>1, <2>2, <2>3
  <2>5. Total(B) = Total(A)
    BY ONLY <2>4, MovedTotal
  <2> QED
    BY <2>1, <2>2, <2>5
<1> QED
  BY <1>4, CharsAreSizes

-----------------------------------------------------------------------------
(* The lengths of parts *)

\* How many entries the parts before part i have.
StartOf(parts, i) == Total([j \in 1 .. i - 1 |-> Len(parts[j])])

LEMMA StartIsNat ==
  ASSUME NEW S, NEW parts \in Seq(Seq(S)), NEW i \in 1 .. Len(parts) + 1
  PROVE  StartOf(parts, i) \in Nat
         /\ IsFiniteSet(Units([j \in 1 .. i - 1 |-> Len(parts[j])]))
<1> DEFINE lengths == [j \in 1 .. i - 1 |-> Len(parts[j])]
<1>1. Len(parts) \in Nat
  BY LenProperties
<1>2. \A j \in 1 .. i - 1 : Len(parts[j]) \in Nat
  <2> TAKE j \in 1 .. i - 1
  <2>1. parts[j] \in Seq(S)
    BY <1>1, ElementOfSeq
  <2> QED
    BY <2>1, LenProperties
<1>3. IsFiniteSet(1 .. i - 1)
  BY <1>1, PlacesFinite
<1>4. Sizes(lengths)
  BY <1>2, <1>3 DEF Sizes
<1> QED
  BY <1>4, TotalIsNat DEF StartOf

LEMMA FirstStart == \A parts : StartOf(parts, 1) = 0
<1> TAKE parts
<1> DEFINE lengths == [j \in 1 .. 1 - 1 |-> Len(parts[j])]
<1>1. DOMAIN lengths = {}
  OBVIOUS
<1> HIDE DEF lengths
<1>2. Total(lengths) = 0
  BY <1>1, EmptyTotal
<1> QED
  BY <1>2 DEF StartOf, lengths

LEMMA StartAppend ==
  ASSUME NEW S, NEW parts \in Seq(Seq(S)), NEW part \in Seq(S)
  PROVE  LET more == Append(parts, part)  n == Len(parts) IN
         /\ \A i \in 1 .. n + 1 : StartOf(more, i) = StartOf(parts, i)
         /\ StartOf(more, n + 2) = StartOf(parts, n + 1) + Len(part)
<1> DEFINE more == Append(parts, part)
           n == Len(parts)
           A == [j \in 1 .. (n + 2) - 1 |-> Len(more[j])]
           B == [j \in 1 .. (n + 1) - 1 |-> Len(parts[j])]
           C == [j \in {n + 1} |-> Len(part)]
<1>1. /\ n \in Nat /\ more[n + 1] = part
      /\ \A j \in 1 .. n : more[j] = parts[j]
  BY AppendProperties, LenProperties
<1>2. ASSUME NEW i \in 1 .. n + 1 PROVE StartOf(more, i) = StartOf(parts, i)
  <2>1. \A j \in 1 .. i - 1 : more[j] = parts[j]
    BY <1>1
  <2>2. [j \in 1 .. i - 1 |-> Len(more[j])] = [j \in 1 .. i - 1 |-> Len(parts[j])]
    BY <2>1
  <2> QED
    BY <2>2 DEF StartOf
<1>3. /\ DOMAIN A = 1 .. n + 1 /\ DOMAIN B = 1 .. n /\ DOMAIN C = {n + 1}
      /\ \A j \in 1 .. n : A[j] = B[j]
      /\ \A j \in {n + 1} : A[j] = C[j]
  BY <1>1
<1>4. 1 .. n + 1 = 1 .. n \cup {n + 1} /\ 1 .. n \cap {n + 1} = {}
  BY <1>1
<1>5. IsFiniteSet(Units(B))
  <2>1. \A i \in 1 .. Len(parts) + 1 :
           IsFiniteSet(Units([j \in 1 .. i - 1 |-> Len(parts[j])]))
    BY StartIsNat
  <2>2. n + 1 \in 1 .. Len(parts) + 1
    BY <1>1
  <2> QED
    BY <2>1, <2>2
<1>6. IsFiniteSet(Units(C)) /\ Total(C) = Len(part)
  <2>1. Len(part) \in Nat
    BY LenProperties
  <2> QED
    BY <2>1, OneSize
<1>7. StartOf(more, n + 2) = Total(A) /\ StartOf(parts, n + 1) = Total(B)
  BY DEF StartOf
<1> HIDE DEF A, B, C
<1>8. Total(A) = Total(B) + Total(C)
  <2>1. DOMAIN A = DOMAIN B \cup DOMAIN C /\ DOMAIN B \cap DOMAIN C = {}
    BY <1>3, <1>4
  <2>2. (\A j \in DOMAIN B : A[j] = B[j]) /\ \A j \in DOMAIN C : A[j] = C[j]
    BY <1>3
  <2> QED
    BY <2>1, <2>2, <1>5, <1>6, SplitTotal
<1> QED
  BY <1>2, <1>6, <1>7, <1>8

-----------------------------------------------------------------------------
(* Sorting *)

\* before[a] is the set of those ahead of a in a linear order of a finite set.
Linear(before) ==
    /\ IsFiniteSet(DOMAIN before)
    /\ \A a \in DOMAIN before : before[a] \subseteq DOMAIN before /\ a \notin before[a]
    /\ \A a, b \in DOMAIN before : b \in before[a] => before[b] \subseteq before[a]
    /\ \A a, b \in DOMAIN before : a # b => a \in before[b] \/ b \in before[a]

\* The list in that order has every element of the set once.
InOrderOf(before, list) ==
    /\ list \in Seq(DOMAIN before) /\ DOMAIN list = 1 .. Len(list)
    /\ Len(list) = Cardinality(DOMAIN before)
    /\ \A a \in DOMAIN before : \E k \in DOMAIN list : list[k] = a
    /\ \A k \in DOMAIN list : Cardinality(before[list[k]]) = k - 1
    /\ \A j, k \in DOMAIN list : j < k => list[j] \in before[list[k]]
    /\ \A j, k \in DOMAIN list : list[j] = list[k] => j = k

\* In a linear order of N elements each number below N is the number of those before
\* exactly one element.
LEMMA Ranks ==
  ASSUME NEW before, Linear(before)
  PROVE  LET N == Cardinality(DOMAIN before)
             rank == [a \in DOMAIN before |-> Cardinality(before[a])]
         IN  /\ N \in Nat
             /\ rank \in [DOMAIN before -> 0 .. N - 1]
             /\ \A a, b \in DOMAIN before : b \in before[a] => rank[b] < rank[a]
             /\ \A k \in 0 .. N - 1 : \E a \in DOMAIN before : rank[a] = k
<1> DEFINE S == DOMAIN before
           N == Cardinality(S)
           rank == [a \in S |-> Cardinality(before[a])]
<1>1. /\ IsFiniteSet(S)
      /\ \A a \in S : before[a] \subseteq S /\ a \notin before[a]
      /\ \A a, b \in S : b \in before[a] => before[b] \subseteq before[a]
      /\ \A a, b \in S : a # b => a \in before[b] \/ b \in before[a]
  BY DEF Linear
<1>2. N \in Nat
  BY <1>1, FS_CardinalityType
<1>3. \A a \in S : IsFiniteSet(before[a]) /\ rank[a] \in 0 .. N - 1
  <2> TAKE a \in S
  <2>1. before[a] \in SUBSET (S \ {a})
    BY <1>1
  <2>2. IsFiniteSet(S \ {a}) /\ Cardinality(S \ {a}) = N - 1
    BY <1>1, FS_RemoveElement
  <2>3. IsFiniteSet(before[a]) /\ Cardinality(before[a]) <= N - 1
    BY <2>1, <2>2, FS_Subset
  <2> QED
    BY <2>3, <1>2, FS_CardinalityType
<1>4. \A a, b \in S : b \in before[a] => rank[b] < rank[a]
  <2> SUFFICES ASSUME NEW a \in S, NEW b \in S, b \in before[a] PROVE rank[b] < rank[a]
    OBVIOUS
  <2>1. before[b] \in SUBSET before[a] /\ before[b] # before[a]
    BY <1>1
  <2>2. Cardinality(before[b]) <= Cardinality(before[a])
        /\ Cardinality(before[b]) # Cardinality(before[a])
    BY <2>1, <1>3, FS_Subset
  <2> QED
    BY <2>2, <1>3
<1>5. \A a, b \in S : rank[a] = rank[b] => a = b
  BY <1>1, <1>3, <1>4
<1> HIDE DEF rank, N, S
<1>6. rank \in [S -> 0 .. N - 1]
  BY <1>3 DEF rank
<1>7. rank \in Injection(S, 0 .. N - 1)
  BY <1>5, <1>6 DEF Injection, IsInjective
<1>8. IsFiniteSet(0 .. N - 1) /\ Cardinality(0 .. N - 1) = N
  BY <1>2, FS_Interval
<1>9. rank \in Surjection(S, 0 .. N - 1)
  BY <1>7, <1>8, FS_Injection DEF N
<1> QED
  BY <1>2, <1>4, <1>6, <1>9 DEF Surjection, rank, N, S

\* InOrder gives the list of a linear order.
LEMMA InOrderIs ==
  ASSUME NEW before, Linear(before)
  PROVE  InOrderOf(before, InOrder(before))
<1> DEFINE S == DOMAIN before
           N == Cardinality(S)
           rank == [a \in S |-> Cardinality(before[a])]
           list == InOrder(before)
<1>1. /\ N \in Nat
      /\ rank \in [S -> 0 .. N - 1]
      /\ \A a, b \in S : b \in before[a] => rank[b] < rank[a]
      /\ \A k \in 0 .. N - 1 : \E a \in S : rank[a] = k
  BY Ranks
<1>2. list = [k \in 1 .. N |-> CHOOSE a \in S : Cardinality(before[a]) = k - 1]
  BY DEF InOrder
<1>3. \A k \in 1 .. N : list[k] \in S /\ rank[list[k]] = k - 1
  <2> TAKE k \in 1 .. N
  <2>1. list[k] = CHOOSE a \in S : Cardinality(before[a]) = k - 1
    BY <1>2, Zenon
  <2>2. \E a \in S : Cardinality(before[a]) = k - 1
    BY <1>1
  <2> QED
    BY <2>1, <2>2
<1>4. list \in [1 .. N -> S]
  BY <1>2, <1>3, Zenon
<1> HIDE DEF rank, N, list
<1>5. list \in Seq(S) /\ Len(list) = N
  BY <1>1, <1>4, SeqDef, LenProperties
<1>6. \A a \in S : a \in S /\ \A b \in S : rank[a] = rank[b] => a = b
  <2>1. \A a, b \in S : a # b => a \in before[b] \/ b \in before[a]
    BY DEF Linear
  <2> QED
    BY <2>1, <1>1
<1>7. \A a \in S : \E k \in DOMAIN list : list[k] = a
  <2> TAKE a \in S
  <2>1. rank[a] + 1 \in 1 .. N
    BY <1>1
  <2>2. rank[list[rank[a] + 1]] = rank[a] /\ list[rank[a] + 1] \in S
    BY <2>1, <1>3, <1>1
  <2> QED
    BY <2>1, <2>2, <1>2, <1>6
<1>8. \A j, k \in 1 .. N : j < k => list[j] \in before[list[k]]
  <2> SUFFICES ASSUME NEW j \in 1 .. N, NEW k \in 1 .. N, j < k
               PROVE  list[j] \in before[list[k]]
    OBVIOUS
  <2>1. rank[list[j]] < rank[list[k]]
    BY <1>3
  <2>2. list[j] \in before[list[k]] \/ list[k] \in before[list[j]]
    BY <2>1, <1>3 DEF Linear
  <2> QED
    BY <2>1, <2>2, <1>1, <1>3
<1>9. \A j, k \in 1 .. N : list[j] = list[k] => j = k
  BY <1>3
<1>10. \A k \in 1 .. N : Cardinality(before[list[k]]) = k - 1
  BY <1>3 DEF rank
<1> QED
  BY <1>2, <1>5, <1>7, <1>8, <1>9, <1>10 DEF InOrderOf, list, N

\* The first elements of a list, all of it if it is shorter.
LEMMA FirstOfIs ==
  ASSUME NEW S, NEW list \in Seq(S), NEW n \in Int
  PROVE  LET first == FirstOf(list, n) IN
         /\ first \in Seq(S) /\ DOMAIN first = 1 .. Len(first)
         /\ Len(first) = IF n < 1 THEN 0 ELSE IF n < Len(list) THEN n ELSE Len(list)
         /\ Len(first) <= Len(list)
         /\ \A k \in DOMAIN first : k \in DOMAIN list /\ first[k] = list[k]
<1> DEFINE m == IF n < Len(list) THEN n ELSE Len(list)
<1>1. Len(list) \in Nat /\ DOMAIN list = 1 .. Len(list)
  BY LenProperties
<1>2. m \in Int /\ m <= Len(list)
  BY <1>1
<1>3. \A i \in 1 .. m : list[i] \in S
  BY <1>1, <1>2, ElementOfSeq
<1> HIDE DEF m
<1>4. /\ SubSeq(list, 1, m) \in Seq(S)
      /\ Len(SubSeq(list, 1, m)) = IF 1 <= m THEN m ELSE 0
      /\ \A k \in 1 .. m : SubSeq(list, 1, m)[k] = list[k]
  BY <1>2, <1>3, SubSeqProperties
<1>5. FirstOf(list, n) = SubSeq(list, 1, m)
  BY DEF FirstOf, m
<1>6. DOMAIN SubSeq(list, 1, m) = 1 .. Len(SubSeq(list, 1, m))
  BY <1>4, LenProperties
<1> QED
  BY <1>1, <1>2, <1>4, <1>5, <1>6 DEF m

-----------------------------------------------------------------------------
(* The priority of a file *)

\* A changed file as it is before the selection.
WholeOf(fs, i) == [file |-> i, chars |-> fs[i].size]

\* An entry of one of these files.
Known(fs, e) == e \in Entries /\ e.file \in DOMAIN fs

Signals(fs, e) == fs[e.file].signal \in 1 .. e.chars

\* The comparison of two of these files.
Higher(fs, d, e) ==
    LET f == fs[d.file]  g == fs[e.file] IN
    \/ f.risk /\ ~g.risk
    \/ f.risk = g.risk /\ Signals(fs, d) /\ ~Signals(fs, e)
    \/ f.risk = g.risk /\ Signals(fs, d) = Signals(fs, e) /\ f.lines > g.lines

\* They are the ones of the model, for the files of the request.
LEMMA SamePriority ==
  /\ \A i : Whole(i) = WholeOf(files, i)
  /\ \A d, e : Above(d, e) = Higher(files, d, e)
BY DEF Whole, WholeOf, Above, Higher, HasSignal, Signals

LEMMA FilesAreRated ==
  ASSUME NEW fs \in Seq(Files), NEW i \in DOMAIN fs
  PROVE  /\ fs[i].risk \in BOOLEAN /\ fs[i].lines \in Nat /\ fs[i].size \in Nat
<1>1. fs[i] \in Files
  BY ElementOfSeq, LenProperties
<1> QED
  BY <1>1, FilesAssumption

\* The priority is a strict weak order.
LEMMA HigherIsOrder ==
  ASSUME NEW fs \in Seq(Files)
  PROVE  /\ \A d : Known(fs, d) => ~Higher(fs, d, d)
         /\ \A c, d, e : Known(fs, c) /\ Known(fs, d) /\ Known(fs, e) =>
               /\ Higher(fs, c, d) /\ Higher(fs, d, e) => Higher(fs, c, e)
               /\ ~Higher(fs, c, d) /\ ~Higher(fs, d, e) => ~Higher(fs, c, e)
<1>1. \A e : Known(fs, e) =>
         /\ fs[e.file].risk \in BOOLEAN /\ fs[e.file].lines \in Nat
         /\ Signals(fs, e) \in BOOLEAN
  BY FilesAreRated DEF Known, Signals
<1>2. \A d, e : Higher(fs, d, e) <=>
         \/ fs[d.file].risk /\ ~fs[e.file].risk
         \/ /\ fs[d.file].risk = fs[e.file].risk
            /\ Signals(fs, d) /\ ~Signals(fs, e)
         \/ /\ fs[d.file].risk = fs[e.file].risk
            /\ Signals(fs, d) = Signals(fs, e) /\ fs[d.file].lines > fs[e.file].lines
  BY DEF Higher
<1> QED
  BY <1>1, <1>2

LEMMA PrecedesIsLinear ==
  ASSUME files \in Seq(Files), NEW list \in Seq(Entries), \A k \in DOMAIN list : Known(files, list[k])
  PROVE  Linear([j \in DOMAIN list |-> {i \in DOMAIN list : Precedes(list, i, j)}])
<1>0. PICK before : before = [j \in DOMAIN list |-> {i \in DOMAIN list : Precedes(list, i, j)}]
  OBVIOUS
<1>1. /\ DOMAIN before = DOMAIN list
      /\ \A j \in DOMAIN list : before[j] \subseteq DOMAIN list
      /\ \A i, j \in DOMAIN list : i \in before[j] <=> Precedes(list, i, j)
  BY <1>0
<1>2. DOMAIN list = 1 .. Len(list) /\ Len(list) \in Nat
  BY LenProperties
<1>3. IsFiniteSet(DOMAIN list)
  BY <1>2, PlacesFinite
<1>4. \A i, j \in DOMAIN list :
         Precedes(list, i, j) <=> Higher(files, list[i], list[j]) \/ (~Higher(files, list[j], list[i]) /\ i < j)
  BY SamePriority DEF Precedes
<1>5. /\ \A j \in DOMAIN list : ~Higher(files, list[j], list[j])
      /\ \A i, j, k \in DOMAIN list :
            /\ Higher(files, list[i], list[j]) /\ Higher(files, list[j], list[k]) => Higher(files, list[i], list[k])
            /\ ~Higher(files, list[i], list[j]) /\ ~Higher(files, list[j], list[k]) => ~Higher(files, list[i], list[k])
  <2>1. \A d : Known(files, d) => ~Higher(files, d, d)
    BY HigherIsOrder
  <2>2. \A c, d, e : Known(files, c) /\ Known(files, d) /\ Known(files, e) =>
               /\ Higher(files, c, d) /\ Higher(files, d, e) => Higher(files, c, e)
               /\ ~Higher(files, c, d) /\ ~Higher(files, d, e) => ~Higher(files, c, e)
    BY HigherIsOrder
  <2> QED
    BY <2>1, <2>2
<1>6. ASSUME NEW i \in DOMAIN list, NEW j \in DOMAIN list, NEW k \in DOMAIN list,
             Precedes(list, i, j), Precedes(list, j, k)
      PROVE  Precedes(list, i, k)
  <2>1. i \in Int /\ j \in Int /\ k \in Int
    BY <1>2
  <2>2. ~Higher(files, list[j], list[i]) /\ ~Higher(files, list[k], list[j])
    BY <1>4, <1>5, <1>6
  <2>3. ~Higher(files, list[k], list[i])
    BY <1>5, <2>2
  <2>4. CASE Higher(files, list[i], list[k])
    BY <1>4, <2>4
  <2>5. CASE ~Higher(files, list[i], list[k])
    <3>1. ~Higher(files, list[i], list[j])
      BY <1>5, <2>2, <2>5
    <3>2. ~Higher(files, list[j], list[k])
      BY <1>5, <2>2, <2>5
    <3>3. i < j /\ j < k
      BY <1>4, <1>6, <3>1, <3>2
    <3> QED
      BY <1>4, <2>1, <2>3, <3>3
  <2> QED
    BY <2>4, <2>5
<1>7. \A i, j \in DOMAIN list : i # j => Precedes(list, i, j) \/ Precedes(list, j, i)
  BY <1>2, <1>4
<1>8. \A j \in DOMAIN list : ~Precedes(list, j, j)
  BY <1>2, <1>4, <1>5
<1>9. Linear(before)
  <2>1. \A a, b \in DOMAIN list : b \in before[a] => before[b] \subseteq before[a]
    BY <1>1, <1>6
  <2> QED
    BY <1>1, <1>3, <1>7, <1>8, <2>1 DEF Linear
<1> QED
  BY <1>0, <1>9

\* What sorting a list of entries gives: every entry once, none above an earlier one.
SortedOf(fs, list, sorted) ==
    /\ sorted \in Seq(Entries) /\ Len(sorted) = Len(list)
    /\ \A k \in DOMAIN sorted : \E i \in DOMAIN list : sorted[k] = list[i]
    /\ \A i \in DOMAIN list : \E k \in DOMAIN sorted : sorted[k] = list[i]
    /\ \A j, k \in DOMAIN sorted : j < k => ~Higher(fs, sorted[k], sorted[j])
    /\ CharsOf(sorted) = CharsOf(list)
    /\ (\A i, j \in DOMAIN list : list[i].file = list[j].file => i = j) =>
          \A j, k \in DOMAIN sorted : sorted[j].file = sorted[k].file => j = k

LEMMA SortedIs ==
  ASSUME files \in Seq(Files), NEW list \in Seq(Entries), \A k \in DOMAIN list : Known(files, list[k])
  PROVE  SortedOf(files, list, Sorted(list))
<1>0. PICK before : before = [j \in DOMAIN list |-> {i \in DOMAIN list : Precedes(list, i, j)}]
  OBVIOUS
<1>1. PICK order : order = InOrder(before)
  OBVIOUS
<1>2. PICK sorted : sorted = [k \in DOMAIN list |-> list[order[k]]]
  OBVIOUS
<1>3. Sorted(list) = sorted
  BY <1>0, <1>1, <1>2 DEF Sorted
<1>4. DOMAIN list = 1 .. Len(list) /\ Len(list) \in Nat /\ DOMAIN before = DOMAIN list
  BY <1>0, LenProperties
<1>5. InOrderOf(before, order)
  <2>1. Linear(before)
    BY <1>0, PrecedesIsLinear
  <2> QED
    BY <1>1, <2>1, InOrderIs
<1>6. /\ DOMAIN order = 1 .. Len(list)
      /\ \A k \in 1 .. Len(list) : order[k] \in DOMAIN list
      /\ \A i \in DOMAIN list : \E k \in 1 .. Len(list) : order[k] = i
      /\ \A j, k \in 1 .. Len(list) : j < k => order[j] \in before[order[k]]
      /\ \A j, k \in 1 .. Len(list) : order[j] = order[k] => j = k
  <2>1. Cardinality(1 .. Len(list)) = Len(list)
    BY <1>4, PlacesFinite
  <2>2. Len(order) = Len(list) /\ order \in Seq(DOMAIN before) /\ DOMAIN order = 1 .. Len(order)
    BY <1>4, <1>5, <2>1 DEF InOrderOf
  <2>3. \A k \in DOMAIN order : order[k] \in DOMAIN before
    BY <2>2, ElementOfSeq
  <2> QED
    BY <1>4, <1>5, <2>2, <2>3 DEF InOrderOf
<1>7. /\ sorted \in Seq(Entries) /\ Len(sorted) = Len(list) /\ DOMAIN sorted = DOMAIN list
      /\ \A k \in DOMAIN list : sorted[k] = list[order[k]]
  <2>1. \A k \in 1 .. Len(list) : list[order[k]] \in Entries
    BY <1>4, <1>6, ElementOfSeq
  <2>2. sorted \in [1 .. Len(list) -> Entries]
    BY <1>2, <1>4, <2>1
  <2>3. sorted \in Seq(Entries)
    BY <1>4, <2>2, SeqDef
  <2>4. Len(sorted) = Len(list)
    BY <1>4, <2>2, <2>3, LenProperties
  <2> QED
    BY <1>2, <1>4, <2>3, <2>4
<1>8. \A k \in DOMAIN sorted : \E i \in DOMAIN list : sorted[k] = list[i]
  BY <1>4, <1>6, <1>7
<1>9. \A i \in DOMAIN list : \E k \in DOMAIN sorted : sorted[k] = list[i]
  <2> TAKE i \in DOMAIN list
  <2>1. PICK k \in 1 .. Len(list) : order[k] = i
    BY <1>6
  <2> QED
    BY <2>1, <1>4, <1>7
<1>10. ASSUME NEW j \in DOMAIN sorted, NEW k \in DOMAIN sorted, j < k
       PROVE  ~Higher(files, sorted[k], sorted[j])
  <2>1. /\ j \in 1 .. Len(list) /\ k \in 1 .. Len(list)
        /\ order[j] \in DOMAIN list /\ order[k] \in DOMAIN list
    BY <1>4, <1>6, <1>7
  <2>2. order[j] \in before[order[k]]
    BY <1>6, <1>10, <2>1
  <2>3. Precedes(list, order[j], order[k])
    BY <1>0, <2>1, <2>2
  <2>4. Known(files, list[order[j]]) /\ Known(files, list[order[k]])
    BY <2>1
  <2>5. ~Higher(files, list[order[k]], list[order[j]])
    BY <2>3, <2>4, HigherIsOrder, SamePriority DEF Precedes
  <2> QED
    BY <2>1, <2>5, <1>4, <1>7
<1>11. CharsOf(sorted) = CharsOf(list)
  <2>1. order \in [DOMAIN list -> DOMAIN list]
    <3>1. order = [k \in DOMAIN order |-> order[k]]
      BY <1>5, SeqDef DEF InOrderOf
    <3> QED
      BY <1>4, <1>6, <3>1
  <2>2. \A j, k \in DOMAIN list : order[j] = order[k] => j = k
    BY <1>4, <1>6
  <2>3. \A i \in DOMAIN list : \E k \in DOMAIN list : order[k] = i
    BY <1>4, <1>6
  <2> QED
    BY <1>7, <2>1, <2>2, <2>3, CharsReordered
<1>12. ASSUME \A i, j \in DOMAIN list : list[i].file = list[j].file => i = j,
              NEW j \in DOMAIN sorted, NEW k \in DOMAIN sorted, sorted[j].file = sorted[k].file
       PROVE  j = k
  <2>1. j \in 1 .. Len(list) /\ k \in 1 .. Len(list)
    BY <1>4, <1>7
  <2>2. order[j] = order[k]
    BY <1>4, <1>6, <1>7, <1>12, <2>1
  <2> QED
    BY <1>6, <2>1, <2>2
<1> QED
  BY <1>3, <1>7, <1>8, <1>9, <1>10, <1>11, <1>12 DEF SortedOf

\* The characters of an entry are among those of the list.
LEMMA CharsOfOne ==
  ASSUME NEW list \in Seq(Entries), NEW k \in DOMAIN list
  PROVE  list[k].chars \in Nat /\ list[k].chars <= CharsOf(list)
<1> DEFINE one == [i \in {k} |-> list[k].chars]
<1>1. Sizes(CharsAt(list)) /\ CharsOf(list) = Total(CharsAt(list))
  BY CharsAreSizes
<1>2. CharsAt(list)[k] = list[k].chars /\ DOMAIN CharsAt(list) = DOMAIN list
  BY DEF CharsAt
<1>3. list[k].chars \in Nat
  BY <1>1, <1>2 DEF Sizes
<1>4. IsFiniteSet(Units(CharsAt(list)))
  BY <1>1, TotalIsNat
<1>5. Total(one) = list[k].chars
  BY <1>3, OneSize
<1>6. Units(one) \in SUBSET Units(CharsAt(list))
  <2>1. DOMAIN one = {k} /\ one[k] = list[k].chars
    OBVIOUS
  <2> HIDE DEF one
  <2>2. ASSUME NEW x \in Units(one) PROVE x \in Units(CharsAt(list))
    BY <1>2, <2>1, UnitsAre
  <2> QED
    BY <2>2
<1> HIDE DEF one
<1>7. Cardinality(Units(one)) <= Cardinality(Units(CharsAt(list)))
  BY <1>4, <1>6, FS_Subset
<1> QED
  BY <1>1, <1>3, <1>5, <1>7, TotalIs

-----------------------------------------------------------------------------
(* The inductive invariant *)

\* The list has an entry of this file.
Has(list, i) == \E k \in DOMAIN list : list[k].file = i

\* The list has no file twice.
Distinct(list) == \A j, k \in DOMAIN list : list[j].file = list[k].file => j = k

\* The entries are of files of the request.
AllKnown(fs, list) == \A k \in DOMAIN list : list[k].file \in DOMAIN fs

\* No patch is longer than the limit of a file.
AllShort(list) == \A k \in DOMAIN list : list[k].chars <= FileChars

\* Every entry that has patch stands at least as high as this one.
NotBelow(fs, list, e) ==
    \A k \in DOMAIN list : list[k].chars > 0 => ~Higher(fs, e, WholeOf(fs, list[k].file))

Types ==
    /\ TypeOK
    /\ AllKnown(files, queue) /\ AllKnown(files, selected) /\ AllShort(selected)

\* What has still to be selected: whole files in the order of their priority, none of
\* them selected.
QueueInOrder ==
    phase = "select" =>
        /\ \A k \in DOMAIN queue : queue[k] = WholeOf(files, queue[k].file)
        /\ \A j, k \in DOMAIN queue : j < k => ~Higher(files, queue[k], queue[j])
        /\ Distinct(queue)
        /\ \A k \in DOMAIN queue : ~Has(selected, queue[k].file)

\* The selection keeps to its limits, and the budget is what it leaves of them.
SelectionInv ==
    /\ phase = "sort" => selected = <<>>
    /\ phase \in {"sort", "select"} => CharsOf(selected) + budget = RouteChars
    /\ phase = "select" => Len(selected) + Len(queue) <= RouteFiles
    /\ Distinct(selected)
    /\ Len(selected) <= RouteFiles /\ CharsOf(selected) <= RouteChars

\* What has been selected stands above what has not; while there is budget left, what
\* waits stands above what has been left out.
BestSoFar ==
    /\ phase = "select" => \A k \in DOMAIN queue : NotBelow(files, selected, queue[k])
    /\ phase = "select" /\ budget > 0 => \A i \in DOMAIN files :
          \/ Has(selected, i) \/ Has(queue, i)
          \/ \A k \in DOMAIN queue : ~Higher(files, WholeOf(files, i), queue[k])
    /\ phase # "sort" => \A i \in DOMAIN files :
          \/ Has(selected, i) \/ (phase = "select" /\ Has(queue, i))
          \/ NotBelow(files, selected, WholeOf(files, i))

\* The batch keeps to its limits.
Within(fs, batch) ==
    /\ Len(batch) <= BatchFiles /\ CharsOf(batch) <= BatchChars
    /\ AllKnown(fs, batch) /\ AllShort(batch)

\* The entries of this part are those of the list after this place.
Segment(part, list, start) == \A k \in DOMAIN part : part[k] = list[start + k]

\* The parts follow one after the other in the list, each within the limits.
Parts(fs, parts, list) ==
    \A i \in DOMAIN parts :
        Within(fs, parts[i]) /\ Segment(parts[i], list, StartOf(parts, i))

GroupsInv ==
    /\ Parts(files, groups, selected) /\ Within(files, group)
    /\ phase \in {"sort", "select"} => groups = <<>>
    /\ phase # "group" => group = <<>>
    /\ LET start == StartOf(groups, Len(groups) + 1) IN
       /\ phase = "group" =>
             /\ start + Len(group) + Len(queue) = Len(selected)
             /\ Segment(group, selected, start)
             /\ Segment(queue, selected, start + Len(group))
       /\ phase \in {"write", "show", "done"} => start = Len(selected)

\* A file of the batch is among the snapshots with its patch, or it has none and others
\* use up the budget of the batch.
ShownIn(list, batch, entry) ==
    \/ \E k \in DOMAIN list : list[k].file = entry.file /\ list[k].chars = entry.chars
    \/ entry.chars = 0 /\ CharsOf(batch) = BatchChars

\* While a message is written, the budget is what the files that wait in the queue and
\* those that are shown leave of it.
Showing(batch, rest, left, shown) ==
    /\ rest # <<>> => CharsOf(rest) + BatchChars = CharsOf(batch) + left
    /\ \A i \in DOMAIN batch :
          \/ \E k \in DOMAIN rest : rest[k] = batch[i]
          \/ ShownIn(shown, batch, batch[i])

MessagesInv ==
    /\ phase \in {"sort", "select", "group"} => messages = <<>>
    /\ Len(messages) <= Len(groups)
    /\ \A m \in DOMAIN messages : \A i \in DOMAIN groups[m] :
          ShownIn(messages[m], groups[m], groups[m][i])
    /\ phase = "show" =>
          /\ Len(messages) < Len(groups)
          /\ AllShort(queue)
          /\ Showing(groups[Len(messages) + 1], queue, budget, snapshots)

IInv ==
    /\ Types /\ QueueInOrder /\ SelectionInv /\ BestSoFar /\ GroupsInv /\ MessagesInv

-----------------------------------------------------------------------------
(* Lists of entries *)

\* What an appended list has.
LEMMA AppendIs ==
  ASSUME NEW S, NEW list \in Seq(S), NEW e \in S
  PROVE  LET longer == Append(list, e) IN
         /\ longer \in Seq(S) /\ Len(longer) = Len(list) + 1 /\ Len(list) \in Nat
         /\ DOMAIN list = 1 .. Len(list) /\ DOMAIN longer = 1 .. Len(list) + 1
         /\ \A k \in DOMAIN list : longer[k] = list[k]
         /\ longer[Len(list) + 1] = e
BY AppendProperties, LenProperties

\* What a list has after its first element.
LEMMA TailIs ==
  ASSUME NEW S, NEW list \in Seq(S), list # <<>>
  PROVE  /\ Head(list) \in S /\ Tail(list) \in Seq(S)
         /\ Len(list) \in Nat \ {0} /\ Len(Tail(list)) = Len(list) - 1
         /\ DOMAIN list = 1 .. Len(list) /\ DOMAIN Tail(list) = 1 .. Len(list) - 1
         /\ Head(list) = list[1]
         /\ \A k \in DOMAIN Tail(list) : Tail(list)[k] = list[k + 1]
<1>1. /\ Head(list) \in S /\ Tail(list) \in Seq(S) /\ Len(Tail(list)) = Len(list) - 1
      /\ \A k \in 1 .. Len(list) - 1 : Tail(list)[k] = list[k + 1]
  BY HeadTailProperties, EmptySeq
<1>2. Len(list) \in Nat \ {0} /\ Head(list) = list[1]
  BY HeadTailProperties, EmptySeq
<1>3. DOMAIN list = 1 .. Len(list) /\ DOMAIN Tail(list) = 1 .. Len(Tail(list))
  BY <1>1, LenProperties
<1> QED
  BY <1>1, <1>2, <1>3

\* Closing a batch: it becomes the last of the parts.
LEMMA ClosedBatch ==
  ASSUME NEW fs, NEW list, NEW parts \in Seq(Seq(Entries)), NEW part \in Seq(Entries),
         Parts(fs, parts, list), Within(fs, part),
         Segment(part, list, StartOf(parts, Len(parts) + 1))
  PROVE  LET more == Append(parts, part) IN
         /\ more \in Seq(Seq(Entries)) /\ Parts(fs, more, list)
         /\ StartOf(more, Len(more) + 1) = StartOf(parts, Len(parts) + 1) + Len(part)
         /\ Len(more) = Len(parts) + 1
<1> DEFINE more == Append(parts, part)
           n == Len(parts)
<1>1. /\ more \in Seq(Seq(Entries)) /\ Len(more) = n + 1 /\ n \in Nat
      /\ DOMAIN parts = 1 .. n /\ DOMAIN more = 1 .. n + 1
      /\ \A k \in 1 .. n : more[k] = parts[k]
      /\ more[n + 1] = part
  BY AppendIs
<1>2. /\ \A i \in 1 .. n + 1 : StartOf(more, i) = StartOf(parts, i)
      /\ StartOf(more, n + 2) = StartOf(parts, n + 1) + Len(part)
  BY StartAppend
<1> HIDE DEF more, n
<1>3. ASSUME NEW i \in 1 .. n + 1
      PROVE  Within(fs, more[i]) /\ Segment(more[i], list, StartOf(more, i))
  <2>1. CASE i \in 1 .. n
    <3>1. Within(fs, parts[i]) /\ Segment(parts[i], list, StartOf(parts, i))
      BY <1>1, <2>1 DEF Parts
    <3> QED
      BY <1>1, <1>2, <2>1, <3>1
  <2>2. CASE i = n + 1
    <3>1. more[i] = part /\ StartOf(more, i) = StartOf(parts, n + 1)
      BY <1>1, <1>2, <2>2
    <3> QED
      BY <3>1 DEF n
  <2> QED
    BY <1>1, <2>1, <2>2
<1>4. Parts(fs, more, list)
  BY <1>1, <1>3 DEF Parts
<1>5. Len(more) + 1 = n + 2
  BY <1>1
<1> QED
  BY <1>1, <1>2, <1>4, <1>5 DEF more, n

-----------------------------------------------------------------------------
(* The steps *)

\* An empty batch keeps to the limits.
LEMMA EmptyBatch == \A fs : Within(fs, <<>>)
<1>1. CharsOf(<<>>) = 0
  BY NoChars
<1> QED
  BY <1>1, BudgetAssumption DEF Within, AllKnown, AllShort

LEMMA InitInv == Init => IInv
<1> SUFFICES ASSUME Init PROVE IInv
  OBVIOUS
<1> USE DEF Init
<1>1. files \in Seq(Files) /\ Len(files) <= MaxFiles
  <2>1. PICK n \in 0 .. MaxFiles : files \in [1 .. n -> Files]
    OBVIOUS
  <2>2. n \in Nat /\ n <= MaxFiles
    BY BudgetAssumption
  <2>3. files \in Seq(Files)
    BY <2>1, <2>2, SeqDef
  <2>4. Len(files) = n
    BY <2>1, <2>2, <2>3, LenProperties
  <2> QED
    BY <2>2, <2>3, <2>4
<1>2. CharsOf(selected) = 0 /\ Within(files, group)
  BY NoChars, EmptyBatch
<1>3. Types
  BY <1>1, BudgetAssumption DEF Types, TypeOK, AllKnown, AllShort
<1>4. QueueInOrder
  BY DEF QueueInOrder
<1>5. SelectionInv
  BY <1>2, BudgetAssumption DEF SelectionInv, Distinct
<1>6. BestSoFar
  BY DEF BestSoFar
<1>7. GroupsInv
  BY <1>2 DEF GroupsInv, Parts
<1>8. MessagesInv
  BY DEF MessagesInv
<1> QED
  BY <1>3, <1>4, <1>5, <1>6, <1>7, <1>8 DEF IInv

LEMMA StutterInv == IInv /\ UNCHANGED vars => IInv'
BY DEF vars, IInv, Types, TypeOK, QueueInOrder, SelectionInv, BestSoFar, GroupsInv, MessagesInv

\* The whole files of a request.
LEMMA AllFilesAre ==
  ASSUME NEW fs \in Seq(Files), Len(fs) <= MaxFiles
  PROVE  LET list == [i \in DOMAIN fs |-> WholeOf(fs, i)] IN
         /\ list \in Seq(Entries) /\ DOMAIN list = DOMAIN fs /\ DOMAIN fs = 1 .. Len(fs)
         /\ \A i \in DOMAIN fs : list[i] = WholeOf(fs, i) /\ Known(fs, list[i])
         /\ Distinct(list)
<1> DEFINE list == [i \in DOMAIN fs |-> WholeOf(fs, i)]
<1>1. DOMAIN fs = 1 .. Len(fs) /\ Len(fs) \in Nat
  BY LenProperties
<1>2. \A i \in DOMAIN fs : WholeOf(fs, i) \in Entries /\ WholeOf(fs, i).file = i
  BY <1>1, FilesAreRated, BudgetAssumption DEF WholeOf, Entries
<1>3. list \in [1 .. Len(fs) -> Entries]
  BY <1>1, <1>2
<1>4. list \in Seq(Entries)
  BY <1>1, <1>3, SeqDef
<1>5. \A i \in DOMAIN fs : list[i] = WholeOf(fs, i) /\ Known(fs, list[i])
  BY <1>2 DEF Known
<1>6. Distinct(list)
  BY <1>2 DEF Distinct
<1> QED
  BY <1>1, <1>4, <1>5, <1>6

LEMMA SortInv == IInv /\ Sort => IInv'
<1> SUFFICES ASSUME IInv, Sort PROVE IInv'
  OBVIOUS
<1>1. PICK list : list = [i \in DOMAIN files |-> WholeOf(files, i)]
  OBVIOUS
<1>2. PICK sorted : sorted = Sorted(list)
  OBVIOUS
<1>3. /\ files \in Seq(Files) /\ Len(files) <= MaxFiles /\ budget \in Nat
      /\ selected = <<>> /\ groups = <<>> /\ group = <<>> /\ messages = <<>>
      /\ phase = "sort" /\ snapshots \in Seq(Snapshots)
  BY DEF IInv, Types, TypeOK, Sort, SelectionInv, GroupsInv, MessagesInv
<1>4. /\ list \in Seq(Entries) /\ DOMAIN list = DOMAIN files
      /\ \A i \in DOMAIN files : list[i] = WholeOf(files, i) /\ Known(files, list[i])
      /\ Distinct(list)
  BY <1>1, <1>3, AllFilesAre
<1>5. SortedOf(files, list, sorted)
  BY <1>2, <1>3, <1>4, SortedIs
<1>6. /\ sorted \in Seq(Entries)
      /\ \A k \in DOMAIN sorted : \E i \in DOMAIN files : sorted[k] = WholeOf(files, i)
      /\ \A i \in DOMAIN files : \E k \in DOMAIN sorted : sorted[k] = WholeOf(files, i)
      /\ \A j, k \in DOMAIN sorted : j < k => ~Higher(files, sorted[k], sorted[j])
      /\ Distinct(sorted)
      /\ DOMAIN sorted = 1 .. Len(sorted) /\ Len(sorted) \in Nat
  <2>1. DOMAIN sorted = 1 .. Len(sorted) /\ Len(sorted) \in Nat
    BY <1>5, LenProperties DEF SortedOf
  <2>2. Distinct(sorted)
    BY <1>4, <1>5 DEF SortedOf, Distinct
  <2> QED
    BY <1>4, <1>5, <2>1, <2>2 DEF SortedOf
<1>7. /\ phase' = "select" /\ queue' = FirstOf(sorted, RouteFiles)
      /\ UNCHANGED <<files, budget, selected, groups, group, snapshots, messages>>
  <2>1. list = [i \in DOMAIN files |-> Whole(i)]
    BY <1>1, SamePriority
  <2> QED
    BY <1>2, <2>1 DEF Sort
<1>8. /\ queue' \in Seq(Entries) /\ DOMAIN queue' = 1 .. Len(queue')
      /\ Len(queue') <= Len(sorted) /\ Len(queue') <= RouteFiles /\ Len(queue') \in Nat
      /\ \A k \in DOMAIN queue' : k \in DOMAIN sorted /\ queue'[k] = sorted[k]
  <2>1. RouteFiles \in Nat \ {0}
    BY BudgetAssumption
  <2>2. /\ FirstOf(sorted, RouteFiles) \in Seq(Entries)
        /\ DOMAIN FirstOf(sorted, RouteFiles) = 1 .. Len(FirstOf(sorted, RouteFiles))
        /\ Len(FirstOf(sorted, RouteFiles))
             = IF RouteFiles < 1 THEN 0
               ELSE IF RouteFiles < Len(sorted) THEN RouteFiles ELSE Len(sorted)
        /\ \A k \in DOMAIN FirstOf(sorted, RouteFiles) :
              k \in DOMAIN sorted /\ FirstOf(sorted, RouteFiles)[k] = sorted[k]
    BY <1>6, <2>1, FirstOfIs
  <2> QED
    BY <1>6, <1>7, <2>1, <2>2
<1>9. \A i : WholeOf(files, i).file = i
  BY DEF WholeOf
<1>10. \A k \in DOMAIN queue' :
          /\ queue'[k].file \in DOMAIN files
          /\ queue'[k] = WholeOf(files, queue'[k].file)
  BY <1>6, <1>8, <1>9
<1>11. Types'
  BY <1>3, <1>7, <1>8, <1>10 DEF Types, TypeOK, AllKnown, AllShort
<1>12. QueueInOrder'
  <2>1. Distinct(queue')
    BY <1>6, <1>8 DEF Distinct
  <2>2. \A j, k \in DOMAIN queue' : j < k => ~Higher(files, queue'[k], queue'[j])
    BY <1>6, <1>8
  <2>3. \A i : ~Has(selected', i)
    BY <1>3, <1>7 DEF Has
  <2> QED
    BY <1>7, <1>10, <2>1, <2>2, <2>3 DEF QueueInOrder
<1>13. SelectionInv'
  BY <1>3, <1>7, <1>8 DEF IInv, SelectionInv
<1>14. BestSoFar'
  <2>1. ASSUME NEW i \in DOMAIN files
        PROVE  \/ Has(queue', i)
               \/ \A k \in DOMAIN queue' : ~Higher(files, WholeOf(files, i), queue'[k])
    <3>1. PICK k \in DOMAIN sorted : sorted[k] = WholeOf(files, i)
      BY <1>6
    <3>2. CASE k \in DOMAIN queue'
      BY <1>8, <1>9, <3>1, <3>2 DEF Has
    <3>3. CASE k \notin DOMAIN queue'
      <4>1. ASSUME NEW j \in DOMAIN queue' PROVE j < k /\ j \in DOMAIN sorted
        BY <1>6, <1>8, <3>3
      <4> QED
        BY <1>6, <1>8, <3>1, <4>1
    <3> QED
      BY <3>2, <3>3
  <2>2. \A e : NotBelow(files, selected', e)
    BY <1>3, <1>7 DEF NotBelow
  <2> QED
    BY <1>7, <2>1, <2>2 DEF BestSoFar
<1>15. GroupsInv'
  BY <1>3, <1>7, EmptyBatch DEF GroupsInv, Parts
<1>16. MessagesInv'
  BY <1>3, <1>7 DEF MessagesInv
<1> QED
  BY <1>11, <1>12, <1>13, <1>14, <1>15, <1>16 DEF IInv

LEMMA SelectInv == IInv /\ Select => IInv'
<1> SUFFICES ASSUME IInv, Select PROVE IInv'
  OBVIOUS
<1>1. PICK entry : entry = Head(queue)
  OBVIOUS
<1>2. PICK chars : chars = Least(entry.chars, Least(FileChars, budget))
  OBVIOUS
<1>3. PICK cut : cut = [entry EXCEPT !.chars = chars]
  OBVIOUS
<1>4. /\ phase = "select" /\ queue # <<>> /\ queue' = Tail(queue)
      /\ UNCHANGED <<files, phase, groups, group, snapshots, messages>>
  BY DEF Select
<1>5. \/ entry.chars > 0 /\ budget = 0 /\ UNCHANGED <<selected, budget>>
      \/ /\ ~(entry.chars > 0 /\ budget = 0)
         /\ selected' = Append(selected, cut) /\ budget' = budget - chars
  BY <1>1, <1>2, <1>3 DEF Select
<1>6. /\ files \in Seq(Files) /\ Len(files) <= MaxFiles /\ budget \in Nat
      /\ queue \in Seq(Entries) /\ selected \in Seq(Entries)
      /\ groups = <<>> /\ group = <<>> /\ messages = <<>> /\ snapshots \in Seq(Snapshots)
      /\ AllKnown(files, queue) /\ AllKnown(files, selected) /\ AllShort(selected)
  BY <1>4 DEF IInv, Types, TypeOK, GroupsInv, MessagesInv
<1>7. /\ entry \in Entries /\ queue' \in Seq(Entries) /\ entry = queue[1]
      /\ Len(queue) \in Nat \ {0} /\ Len(queue') = Len(queue) - 1
      /\ DOMAIN queue = 1 .. Len(queue) /\ DOMAIN queue' = 1 .. Len(queue) - 1
      /\ 1 \in DOMAIN queue
      /\ \A k \in DOMAIN queue' : k + 1 \in DOMAIN queue /\ queue'[k] = queue[k + 1]
  BY <1>1, <1>4, <1>6, TailIs
<1>8. /\ entry.file \in DOMAIN files /\ entry.file \in 1 .. MaxFiles /\ entry.chars \in Nat
      /\ chars \in Nat /\ chars <= entry.chars /\ chars <= FileChars /\ chars <= budget
  <2>1. entry.file \in DOMAIN files /\ entry.file \in 1 .. MaxFiles /\ entry.chars \in Nat
    BY <1>6, <1>7 DEF AllKnown, Entries
  <2>2. FileChars \in Nat
    BY BudgetAssumption
  <2> QED
    BY <1>2, <1>6, <2>1, <2>2 DEF Least
<1>9. cut \in Entries /\ cut.file = entry.file /\ cut.chars = chars
  BY <1>3, <1>7, <1>8 DEF Entries
<1>10. /\ \A k \in DOMAIN queue : queue[k] = WholeOf(files, queue[k].file)
       /\ \A j, k \in DOMAIN queue : j < k => ~Higher(files, queue[k], queue[j])
       /\ Distinct(queue)
       /\ \A k \in DOMAIN queue : ~Has(selected, queue[k].file)
  BY <1>4 DEF IInv, QueueInOrder
<1>11. /\ CharsOf(selected) + budget = RouteChars
       /\ Len(selected) + Len(queue) <= RouteFiles /\ Distinct(selected)
       /\ CharsOf(selected) \in Nat /\ Len(selected) \in Nat
  BY <1>4, <1>6, CharsAreSizes, LenProperties DEF IInv, SelectionInv
<1>12. \A k \in DOMAIN queue : NotBelow(files, selected, queue[k])
  BY <1>4 DEF IInv, BestSoFar
<1>13. /\ RouteFiles \in Nat /\ RouteChars \in Nat
  BY BudgetAssumption
\* The files that wait are still in order and none twice.
<1>14. /\ AllKnown(files, queue') /\ Distinct(queue')
       /\ \A k \in DOMAIN queue' : queue'[k] = WholeOf(files, queue'[k].file)
       /\ \A j, k \in DOMAIN queue' : j < k => ~Higher(files, queue'[k], queue'[j])
       /\ \A k \in DOMAIN queue' : queue'[k].file # entry.file
       /\ \A k \in DOMAIN queue' : ~Higher(files, queue'[k], entry)
  <2>1. \A j, k \in DOMAIN queue' : j + 1 = k + 1 => j = k
    BY <1>7
  <2>2. \A j, k \in DOMAIN queue' : j < k => j + 1 < k + 1
    BY <1>7
  <2>3. \A k \in DOMAIN queue' : 1 < k + 1 /\ 1 # k + 1
    BY <1>7
  <2>4. AllKnown(files, queue')
    BY <1>6, <1>7 DEF AllKnown
  <2>5. Distinct(queue')
    BY <1>7, <1>10, <2>1 DEF Distinct
  <2>6. \A k \in DOMAIN queue' : queue'[k].file # entry.file
    BY <1>7, <1>10, <2>3 DEF Distinct
  <2>7. \A k \in DOMAIN queue' : ~Higher(files, queue'[k], entry)
    BY <1>7, <1>10, <2>3
  <2>8. \A j, k \in DOMAIN queue' : j < k => ~Higher(files, queue'[k], queue'[j])
    BY <1>7, <1>10, <2>2
  <2> QED
    BY <1>7, <1>10, <2>4, <2>5, <2>6, <2>7, <2>8
\* A file that waited waits still, or it is the one whose turn it was.
<1>15. \A i : Has(queue, i) => Has(queue', i) \/ i = entry.file
  <2> SUFFICES ASSUME NEW i, NEW k \in DOMAIN queue, queue[k].file = i, k # 1
               PROVE  Has(queue', i)
    BY <1>7 DEF Has
  <2>1. k - 1 \in DOMAIN queue' /\ queue'[k - 1] = queue[(k - 1) + 1] /\ (k - 1) + 1 = k
    BY <1>7
  <2> QED
    BY <2>1 DEF Has
<1>16. GroupsInv'
  BY <1>4, <1>6, EmptyBatch DEF GroupsInv, Parts
<1>17. MessagesInv'
  BY <1>4, <1>6 DEF MessagesInv
<1>18. entry = WholeOf(files, entry.file)
  BY <1>7, <1>10
<1>19. CASE entry.chars > 0 /\ budget = 0 /\ UNCHANGED <<selected, budget>>
  <2>1. Types'
    BY <1>4, <1>6, <1>7, <1>14, <1>19 DEF IInv, Types, TypeOK
  <2>2. QueueInOrder'
    BY <1>4, <1>7, <1>10, <1>14, <1>19 DEF QueueInOrder
  <2>3. SelectionInv'
    BY <1>4, <1>7, <1>11, <1>13, <1>19 DEF IInv, SelectionInv
  <2>4. ASSUME NEW i \in DOMAIN files
        PROVE  \/ Has(selected, i) \/ Has(queue', i)
               \/ NotBelow(files, selected, WholeOf(files, i))
    <3>1. \/ Has(selected, i) \/ Has(queue, i)
          \/ NotBelow(files, selected, WholeOf(files, i))
      BY <1>4 DEF IInv, BestSoFar
    <3>2. NotBelow(files, selected, entry)
      BY <1>7, <1>12
    <3> QED
      BY <1>15, <1>18, <3>1, <3>2
  <2>5. BestSoFar'
    BY <1>4, <1>7, <1>12, <1>19, <2>4 DEF BestSoFar
  <2> QED
    BY <1>16, <1>17, <2>1, <2>2, <2>3, <2>5 DEF IInv
<1>20. CASE /\ ~(entry.chars > 0 /\ budget = 0)
            /\ selected' = Append(selected, cut) /\ budget' = budget - chars
  <2>1. /\ selected' \in Seq(Entries) /\ Len(selected') = Len(selected) + 1
        /\ DOMAIN selected = 1 .. Len(selected) /\ DOMAIN selected' = 1 .. Len(selected) + 1
        /\ \A k \in DOMAIN selected : selected'[k] = selected[k]
        /\ selected'[Len(selected) + 1] = cut
    BY <1>6, <1>9, <1>20, AppendIs
  <2>2. DOMAIN selected' = DOMAIN selected \cup {Len(selected) + 1}
        /\ Len(selected) + 1 \notin DOMAIN selected
    BY <1>11, <2>1
  <2>3. budget' \in Nat /\ CharsOf(selected') = CharsOf(selected) + chars
    BY <1>6, <1>8, <1>9, <1>20, CharsAppend
  <2>4. \A i : Has(selected', i) <=> Has(selected, i) \/ i = entry.file
    BY <1>9, <2>1, <2>2 DEF Has
  <2>5. AllKnown(files, selected') /\ AllShort(selected')
    BY <1>6, <1>8, <1>9, <2>1, <2>2 DEF AllKnown, AllShort
  <2>6. Distinct(selected')
    <3>1. \A k \in DOMAIN selected : selected[k].file # entry.file
      BY <1>7, <1>10 DEF Has
    <3> QED
      BY <1>9, <1>11, <2>1, <2>2, <3>1 DEF Distinct
  <2>7. Types'
    BY <1>4, <1>6, <1>7, <1>14, <2>1, <2>3, <2>5 DEF Types, TypeOK
  <2>8. QueueInOrder'
    <3>1. \A k \in DOMAIN queue' : ~Has(selected', queue'[k].file)
      BY <1>7, <1>10, <1>14, <2>4
    <3> QED
      BY <1>4, <1>14, <3>1 DEF QueueInOrder
  <2>9. SelectionInv'
    <3>1. CharsOf(selected') + budget' = RouteChars /\ CharsOf(selected') <= RouteChars
      BY <1>6, <1>8, <1>11, <1>13, <1>20, <2>3
    <3>2. Len(selected') + Len(queue') <= RouteFiles /\ Len(selected') <= RouteFiles
      BY <1>7, <1>11, <1>13, <2>1
    <3>3. phase' = "select"
      BY <1>4
    <3> QED
      BY <2>6, <3>1, <3>2, <3>3 DEF SelectionInv
  <2>10. \A e : NotBelow(files, selected', e)
                  <=> NotBelow(files, selected, e) /\ (chars > 0 => ~Higher(files, e, entry))
    BY <1>9, <1>18, <2>1, <2>2 DEF NotBelow
  <2>11. \A k \in DOMAIN queue' : NotBelow(files, selected', queue'[k])
    BY <1>7, <1>12, <1>14, <2>10
  <2>12. ASSUME budget > 0, NEW i \in DOMAIN files
         PROVE  \/ Has(selected', i) \/ Has(queue', i)
                \/ \A k \in DOMAIN queue : ~Higher(files, WholeOf(files, i), queue[k])
    <3>1. \/ Has(selected, i) \/ Has(queue, i)
          \/ \A k \in DOMAIN queue : ~Higher(files, WholeOf(files, i), queue[k])
      BY <1>4, <2>12 DEF IInv, BestSoFar
    <3> QED
      BY <1>15, <2>4, <3>1
  <2>13. ASSUME NEW i \in DOMAIN files
         PROVE  \/ Has(selected', i) \/ Has(queue', i)
                \/ NotBelow(files, selected', WholeOf(files, i))
    <3>1. \/ Has(selected, i) \/ Has(queue, i)
          \/ NotBelow(files, selected, WholeOf(files, i))
      BY <1>4 DEF IInv, BestSoFar
    <3>2. chars > 0 => budget > 0
      BY <1>6, <1>8
    <3>3. chars > 0 => \/ Has(selected', i) \/ Has(queue', i)
                       \/ ~Higher(files, WholeOf(files, i), entry)
      BY <1>7, <2>12, <3>2
    <3> QED
      BY <1>15, <2>4, <2>10, <3>1, <3>3
  <2>14. BestSoFar'
    <3>1. budget' > 0 => budget > 0
      BY <1>6, <1>8, <1>20
    <3>2. ASSUME budget' > 0, NEW i \in DOMAIN files
          PROVE  \/ Has(selected', i) \/ Has(queue', i)
                 \/ \A k \in DOMAIN queue' : ~Higher(files, WholeOf(files, i), queue'[k])
      BY <1>7, <2>12, <3>1, <3>2
    <3> QED
      BY <1>4, <2>11, <2>13, <3>2 DEF BestSoFar
  <2> QED
    BY <1>16, <1>17, <2>7, <2>8, <2>9, <2>14 DEF IInv
<1> QED
  BY <1>5, <1>19, <1>20

LEMMA EndSelectInv == IInv /\ EndSelect => IInv'
<1> SUFFICES ASSUME IInv, EndSelect PROVE IInv'
  OBVIOUS
<1>1. /\ phase = "select" /\ queue = <<>> /\ queue' = selected /\ phase' = "group"
      /\ UNCHANGED <<files, budget, selected, groups, group, snapshots, messages>>
  BY DEF EndSelect
<1>2. /\ groups = <<>> /\ group = <<>> /\ messages = <<>> /\ selected \in Seq(Entries)
      /\ Len(selected) \in Nat /\ DOMAIN selected = 1 .. Len(selected)
  BY <1>1, LenProperties DEF IInv, Types, TypeOK, GroupsInv, MessagesInv
<1>3. Types'
  BY <1>1 DEF IInv, Types, TypeOK
<1>4. QueueInOrder'
  BY <1>1 DEF QueueInOrder
<1>5. SelectionInv'
  BY <1>1 DEF IInv, SelectionInv
<1>6. BestSoFar'
  <2>1. \A i : ~Has(queue, i)
    BY <1>1 DEF Has
  <2>2. \A i \in DOMAIN files : Has(selected, i) \/ NotBelow(files, selected, WholeOf(files, i))
    BY <1>1, <2>1 DEF IInv, BestSoFar
  <2> QED
    BY <1>1, <2>2 DEF BestSoFar
<1>7. GroupsInv'
  <2>1. StartOf(<<>>, 1) = 0 /\ Len(<<>>) = 0
    BY FirstStart
  <2>2. Segment(selected, selected, 0)
    BY <1>2 DEF Segment
  <2>3. Segment(<<>>, selected, 0)
    BY DEF Segment
  <2>4. Parts(files, <<>>, selected) /\ Within(files, <<>>)
    BY EmptyBatch DEF Parts
  <2>5. PICK start : start = StartOf(groups', Len(groups') + 1)
    OBVIOUS
  <2>6. start = 0 /\ Len(group') = 0
    BY <1>1, <1>2, <2>1, <2>5
  <2>7. /\ start + Len(group') + Len(queue') = Len(selected')
        /\ Segment(group', selected', start)
        /\ Segment(queue', selected', start + Len(group'))
    BY <1>1, <1>2, <2>2, <2>3, <2>6
  <2> QED
    BY <1>1, <1>2, <2>4, <2>5, <2>7 DEF GroupsInv
<1>8. MessagesInv'
  BY <1>1, <1>2 DEF MessagesInv
<1> QED
  BY <1>3, <1>4, <1>5, <1>6, <1>7, <1>8 DEF IInv

LEMMA GroupInv == IInv /\ Group => IInv'
<1> SUFFICES ASSUME IInv, Group PROVE IInv'
  OBVIOUS
<1>1. PICK entry : entry = Head(queue)
  OBVIOUS
<1>2. PICK start : start = StartOf(groups, Len(groups) + 1)
  OBVIOUS
<1>3. /\ phase = "group" /\ queue # <<>> /\ queue' = Tail(queue)
      /\ UNCHANGED <<files, phase, budget, selected, snapshots, messages>>
  BY DEF Group
<1>4. \/ group # <<>> /\ groups' = Append(groups, group) /\ group' = <<entry>>
      \/ /\ group = <<>> \/ ~Full(group, entry)
         /\ group' = Append(group, entry) /\ groups' = groups
  BY <1>1 DEF Group
<1>5. /\ files \in Seq(Files) /\ Len(files) <= MaxFiles /\ budget \in Nat
      /\ queue \in Seq(Entries) /\ selected \in Seq(Entries) /\ group \in Seq(Entries)
      /\ groups \in Seq(Seq(Entries)) /\ snapshots \in Seq(Snapshots)
      /\ messages = <<>>
      /\ AllKnown(files, queue) /\ AllKnown(files, selected) /\ AllShort(selected)
  BY <1>3 DEF IInv, Types, TypeOK, MessagesInv
<1>6. /\ entry \in Entries /\ queue' \in Seq(Entries) /\ entry = queue[1]
      /\ Len(queue) \in Nat \ {0} /\ Len(queue') = Len(queue) - 1
      /\ DOMAIN queue = 1 .. Len(queue) /\ DOMAIN queue' = 1 .. Len(queue) - 1
      /\ 1 \in DOMAIN queue
      /\ \A k \in DOMAIN queue' : k + 1 \in DOMAIN queue /\ queue'[k] = queue[k + 1]
  BY <1>1, <1>3, <1>5, TailIs
<1>7. /\ Parts(files, groups, selected) /\ Within(files, group)
      /\ start + Len(group) + Len(queue) = Len(selected)
      /\ Segment(group, selected, start)
      /\ Segment(queue, selected, start + Len(group))
  BY <1>2, <1>3 DEF IInv, GroupsInv
<1>8. start \in Nat /\ Len(group) \in Nat /\ Len(selected) \in Nat /\ Len(groups) \in Nat
      /\ DOMAIN selected = 1 .. Len(selected)
  <2>1. Len(groups) + 1 \in 1 .. Len(groups) + 1 /\ Len(groups) \in Nat
    BY <1>5, LenProperties
  <2>2. \A i \in 1 .. Len(groups) + 1 : StartOf(groups, i) \in Nat
    BY <1>5, StartIsNat
  <2>3. start \in Nat
    BY <1>2, <2>1, <2>2
  <2> QED
    BY <1>5, <2>1, <2>3, LenProperties
<1>9. entry = selected[start + Len(group) + 1]
  <2>1. entry = selected[(start + Len(group)) + 1]
    BY <1>6, <1>7 DEF Segment
  <2> QED
    BY <1>8, <2>1
<1>10. \A k \in DOMAIN queue' : queue'[k] = selected[start + Len(group) + 1 + k]
  <2> TAKE k \in DOMAIN queue'
  <2>1. queue'[k] = selected[(start + Len(group)) + (k + 1)]
    BY <1>6, <1>7 DEF Segment
  <2>2. (start + Len(group)) + (k + 1) = start + Len(group) + 1 + k
    BY <1>6, <1>8
  <2> QED
    BY <2>1, <2>2
<1>11. /\ entry.chars \in Nat /\ entry.chars <= FileChars /\ entry.file \in DOMAIN files
  <2>1. start + Len(group) + 1 \in DOMAIN selected
    BY <1>6, <1>7, <1>8
  <2> QED
    BY <1>5, <1>6, <1>9, <2>1 DEF AllShort, AllKnown, Entries
<1>12. AllKnown(files, queue')
  BY <1>5, <1>6 DEF AllKnown
<1>13. /\ FileChars \in Nat /\ BatchChars \in Nat /\ BatchFiles \in Nat \ {0}
       /\ FileChars <= BatchChars
  BY BudgetAssumption
<1>14. QueueInOrder' /\ SelectionInv' /\ BestSoFar'
  BY <1>3 DEF IInv, QueueInOrder, SelectionInv, BestSoFar
\* What is to be shown of the new group and the new list of groups.
<1>15. ASSUME groups' \in Seq(Seq(Entries)), group' \in Seq(Entries),
              Parts(files, groups', selected), Within(files, group'),
              Len(groups') \in Nat,
              NEW begin, begin = StartOf(groups', Len(groups') + 1),
              begin + Len(group') = start + Len(group) + 1,
              Segment(group', selected, begin)
       PROVE  IInv'
  <2>1. Types'
    BY <1>3, <1>5, <1>6, <1>12, <1>15 DEF Types, TypeOK
  <2>2. begin + Len(group') + Len(queue') = Len(selected)
    BY <1>6, <1>7, <1>8, <1>15
  <2>3. Segment(queue', selected, begin + Len(group'))
    BY <1>10, <1>15 DEF Segment
  <2>4. GroupsInv'
    BY <1>3, <1>15, <2>2, <2>3 DEF GroupsInv
  <2>5. MessagesInv'
    <3>1. Len(messages) = 0 /\ DOMAIN messages = {}
      BY <1>5
    <3> QED
      BY <1>3, <1>5, <1>15, <3>1 DEF MessagesInv
  <2> QED
    BY <1>14, <2>1, <2>4, <2>5 DEF IInv
<1>16. CASE group # <<>> /\ groups' = Append(groups, group) /\ group' = <<entry>>
  <2>1. /\ groups' \in Seq(Seq(Entries)) /\ Parts(files, groups', selected)
        /\ StartOf(groups', Len(groups') + 1) = start + Len(group)
        /\ Len(groups') = Len(groups) + 1
    BY <1>2, <1>5, <1>7, <1>16, ClosedBatch
  <2>2. group' = Append(<<>>, entry) /\ group' \in Seq(Entries) /\ Len(group') = 1
        /\ DOMAIN group' = {1} /\ group'[1] = entry
    BY <1>6, <1>16
  <2>3. CharsOf(group') = entry.chars
    <3>1. PICK empty : empty = <<>>
      OBVIOUS
    <3>2. empty \in Seq(Entries) /\ CharsOf(empty) = 0 /\ group' = Append(empty, entry)
      BY <2>2, <3>1, NoChars
    <3>3. CharsOf(Append(empty, entry)) = CharsOf(empty) + entry.chars
      BY <1>6, <3>2, CharsAppend
    <3> QED
      BY <1>11, <3>2, <3>3
  <2>4. Within(files, group')
    BY <1>11, <1>13, <2>2, <2>3 DEF Within, AllKnown, AllShort
  <2>5. Segment(group', selected, start + Len(group))
    BY <1>9, <2>2 DEF Segment
  <2> QED
    BY <1>8, <1>15, <2>1, <2>2, <2>4, <2>5
<1>17. CASE /\ group = <<>> \/ ~Full(group, entry)
            /\ group' = Append(group, entry) /\ groups' = groups
  <2>1. /\ group' \in Seq(Entries) /\ Len(group') = Len(group) + 1
        /\ DOMAIN group = 1 .. Len(group) /\ DOMAIN group' = DOMAIN group \cup {Len(group) + 1}
        /\ \A k \in DOMAIN group : group'[k] = group[k]
        /\ group'[Len(group) + 1] = entry
    <3>1. /\ group' \in Seq(Entries) /\ Len(group') = Len(group) + 1
          /\ DOMAIN group = 1 .. Len(group) /\ DOMAIN group' = 1 .. Len(group) + 1
          /\ \A k \in DOMAIN group : group'[k] = group[k]
          /\ group'[Len(group) + 1] = entry
      BY <1>5, <1>6, <1>17, AppendIs
    <3>2. 1 .. Len(group) + 1 = 1 .. Len(group) \cup {Len(group) + 1}
      BY <1>8
    <3> QED
      BY <3>1, <3>2
  <2>2. CharsOf(group') = CharsOf(group) + entry.chars /\ CharsOf(group) \in Nat
    BY <1>5, <1>6, <1>17, CharsAppend, CharsAreSizes
  <2>3. Len(group') <= BatchFiles /\ CharsOf(group') <= BatchChars
    <3>1. CASE group = <<>>
      <4>1. Len(group) = 0 /\ CharsOf(group) = 0
        BY <3>1, NoChars
      <4> QED
        BY <1>11, <1>13, <2>1, <2>2, <4>1
    <3>2. CASE ~Full(group, entry)
      BY <1>8, <1>11, <1>13, <2>1, <2>2, <3>2 DEF Full
    <3> QED
      BY <1>17, <3>1, <3>2
  <2>4. Within(files, group')
    BY <1>7, <1>11, <2>1, <2>3 DEF Within, AllKnown, AllShort
  <2>5. Segment(group', selected, start)
    <3>1. start + (Len(group) + 1) = start + Len(group) + 1
      BY <1>8
    <3> QED
      BY <1>7, <1>9, <2>1, <3>1 DEF Segment
  <2>6. start + Len(group') = start + Len(group) + 1
    BY <1>8, <2>1
  <2> QED
    BY <1>2, <1>5, <1>7, <1>8, <1>15, <1>17, <2>1, <2>4, <2>5, <2>6
<1> QED
  BY <1>4, <1>16, <1>17

LEMMA EndGroupInv == IInv /\ EndGroup => IInv'
<1> SUFFICES ASSUME IInv, EndGroup PROVE IInv'
  OBVIOUS
<1>1. /\ phase = "group" /\ queue = <<>> /\ phase' = "write" /\ group' = <<>>
      /\ groups' = (IF WithLast = <<>> THEN << <<>> >> ELSE WithLast)
      /\ UNCHANGED <<files, queue, budget, selected, snapshots, messages>>
  BY DEF EndGroup
<1>2. /\ selected \in Seq(Entries) /\ group \in Seq(Entries) /\ Len(group) \in Nat
      /\ groups \in Seq(Seq(Entries)) /\ Len(groups) \in Nat
      /\ messages = <<>>
  BY <1>1, LenProperties DEF IInv, Types, TypeOK, MessagesInv
<1>3. PICK start : start = StartOf(groups, Len(groups) + 1)
  OBVIOUS
<1>4. /\ Parts(files, groups, selected) /\ Within(files, group)
      /\ start + Len(group) = Len(selected) /\ start \in Nat
      /\ Segment(group, selected, start)
  <2>1. start + Len(group) + Len(queue) = Len(selected) /\ Segment(group, selected, start)
        /\ Parts(files, groups, selected) /\ Within(files, group)
    BY <1>1, <1>3 DEF IInv, GroupsInv
  <2>2. Len(groups) + 1 \in 1 .. Len(groups) + 1
    BY <1>2
  <2>3. \A i \in 1 .. Len(groups) + 1 : StartOf(groups, i) \in Nat
    BY <1>2, StartIsNat
  <2>4. Len(queue) = 0
    BY <1>1
  <2> QED
    BY <1>2, <1>3, <2>1, <2>2, <2>3, <2>4
<1>5. \/ groups' = groups /\ group = <<>>
      \/ groups' = Append(groups, group)
  <2>1. CASE group # <<>>
    <3>1. WithLast = Append(groups, group)
      BY <2>1 DEF WithLast
    <3>2. Append(groups, group) # <<>>
      <4>1. Len(Append(groups, group)) = Len(groups) + 1
        BY <1>2, AppendIs
      <4> QED
        BY <1>2, <4>1
    <3> QED
      BY <1>1, <3>1, <3>2
  <2>2. CASE group = <<>> /\ groups # <<>>
    BY <1>1, <2>2 DEF WithLast
  <2>3. CASE group = <<>> /\ groups = <<>>
    BY <1>1, <2>3 DEF WithLast
  <2> QED
    BY <2>1, <2>2, <2>3
<1>6. /\ groups' \in Seq(Seq(Entries)) /\ Parts(files, groups', selected)
      /\ StartOf(groups', Len(groups') + 1) = Len(selected)
      /\ Len(groups') \in Nat
  <2>1. CASE groups' = groups /\ group = <<>>
    <3>1. Len(group) = 0
      BY <2>1
    <3> QED
      BY <1>2, <1>3, <1>4, <2>1, <3>1
  <2>2. CASE groups' = Append(groups, group)
    <3>1. /\ groups' \in Seq(Seq(Entries)) /\ Parts(files, groups', selected)
          /\ StartOf(groups', Len(groups') + 1) = start + Len(group)
          /\ Len(groups') = Len(groups) + 1
      BY <1>2, <1>3, <1>4, <2>2, ClosedBatch
    <3> QED
      BY <1>2, <1>4, <3>1
  <2> QED
    BY <1>5, <2>1, <2>2
<1>7. Types'
  BY <1>1, <1>6 DEF IInv, Types, TypeOK
<1>8. QueueInOrder' /\ SelectionInv' /\ BestSoFar'
  BY <1>1 DEF IInv, QueueInOrder, SelectionInv, BestSoFar
<1>9. GroupsInv'
  BY <1>1, <1>6, EmptyBatch DEF GroupsInv
<1>10. MessagesInv'
  <2>1. Len(messages) = 0 /\ DOMAIN messages = {}
    BY <1>2
  <2> QED
    BY <1>1, <1>2, <1>6, <2>1 DEF MessagesInv
<1> QED
  BY <1>7, <1>8, <1>9, <1>10 DEF IInv

LEMMA StartBatchInv == IInv /\ StartBatch => IInv'
<1> SUFFICES ASSUME IInv, StartBatch PROVE IInv'
  OBVIOUS
<1>1. PICK batch : batch = groups[Len(messages) + 1]
  OBVIOUS
<1>2. PICK sorted : sorted = Sorted(batch)
  OBVIOUS
<1>3. /\ phase = "write" /\ phase' = "show" /\ Len(messages) < Len(groups)
      /\ queue' = FirstOf(sorted, BatchFiles) /\ budget' = BatchChars /\ snapshots' = <<>>
      /\ UNCHANGED <<files, selected, groups, group, messages>>
  BY <1>1, <1>2 DEF StartBatch
<1>4. /\ files \in Seq(Files) /\ groups \in Seq(Seq(Entries))
      /\ Len(messages) \in Nat /\ Len(groups) \in Nat
      /\ DOMAIN groups = 1 .. Len(groups)
  <2>1. files \in Seq(Files) /\ groups \in Seq(Seq(Entries)) /\ messages \in Seq(Seq(Snapshots))
    BY DEF IInv, Types, TypeOK
  <2> QED
    BY <2>1, LenProperties
<1>5. Len(messages) + 1 \in DOMAIN groups
  BY <1>3, <1>4
<1>6. /\ batch \in Seq(Entries) /\ Within(files, batch)
      /\ Len(batch) \in Nat /\ DOMAIN batch = 1 .. Len(batch)
  <2>1. batch \in Seq(Entries)
    BY <1>1, <1>4, <1>5, ElementOfSeq
  <2>2. Within(files, batch)
    BY <1>1, <1>5 DEF IInv, GroupsInv, Parts
  <2> QED
    BY <2>1, <2>2, LenProperties
<1>7. SortedOf(files, batch, sorted)
  <2>1. \A k \in DOMAIN batch : Known(files, batch[k])
    <3> TAKE k \in DOMAIN batch
    <3>1. batch[k] \in Entries
      BY <1>6, ElementOfSeq
    <3> QED
      BY <1>6, <3>1 DEF Known, Within, AllKnown
  <2> QED
    BY <1>2, <1>4, <1>6, <2>1, SortedIs
<1>8. /\ sorted \in Seq(Entries) /\ Len(sorted) = Len(batch) /\ Len(batch) <= BatchFiles
      /\ \A k \in DOMAIN sorted : \E i \in DOMAIN batch : sorted[k] = batch[i]
      /\ \A i \in DOMAIN batch : \E k \in DOMAIN sorted : sorted[k] = batch[i]
      /\ CharsOf(sorted) = CharsOf(batch)
  BY <1>6, <1>7 DEF SortedOf, Within
\* A batch has no more files than its message may show.
<1>9. queue' = sorted
  <2>1. BatchFiles \in Nat \ {0}
    BY BudgetAssumption
  <2>2. PICK first : first = FirstOf(sorted, BatchFiles)
    OBVIOUS
  <2>3. /\ first \in Seq(Entries) /\ DOMAIN first = 1 .. Len(first)
        /\ Len(first) = IF BatchFiles < 1 THEN 0
                        ELSE IF BatchFiles < Len(sorted) THEN BatchFiles ELSE Len(sorted)
        /\ \A k \in DOMAIN first : first[k] = sorted[k]
    BY <1>8, <2>1, <2>2, FirstOfIs
  <2>4. Len(first) = Len(sorted)
    <3>1. \A limit \in Nat \ {0}, n \in Nat : n <= limit =>
             (IF limit < 1 THEN 0 ELSE IF limit < n THEN limit ELSE n) = n
      OBVIOUS
    <3>2. Len(sorted) \in Nat /\ Len(sorted) <= BatchFiles
      BY <1>6, <1>8
    <3> QED
      BY <2>1, <2>3, <3>1, <3>2
  <2>5. first = sorted
    BY <1>8, <2>3, <2>4, SeqEqual
  <2> QED
    BY <1>3, <2>2, <2>5
<1>10. AllKnown(files, sorted) /\ AllShort(sorted)
  BY <1>6, <1>8 DEF Within, AllKnown, AllShort
<1>11. Types'
  BY <1>3, <1>8, <1>9, <1>10, BudgetAssumption DEF IInv, Types, TypeOK
<1>12. QueueInOrder' /\ SelectionInv' /\ BestSoFar'
  BY <1>3 DEF IInv, QueueInOrder, SelectionInv, BestSoFar
<1>13. GroupsInv'
  BY <1>3 DEF IInv, GroupsInv
<1>14. Showing(batch, sorted, BatchChars, <<>>)
  BY <1>8 DEF Showing
<1>15. MessagesInv'
  <2>1. groups'[Len(messages') + 1] = batch
    BY <1>1, <1>3
  <2>2. Showing(groups'[Len(messages') + 1], queue', budget', snapshots')
    BY <1>3, <1>9, <1>14, <2>1
  <2> QED
    BY <1>3, <1>9, <1>10, <2>2 DEF IInv, MessagesInv
<1> QED
  BY <1>11, <1>12, <1>13, <1>15 DEF IInv

\* What a budget has left (left) when the first of the patches that wait (e characters)
\* is written and the others (r) wait on: room is the budget of the batch (b).
LEMMA BudgetLeft ==
  ASSUME NEW q \in Nat, NEW e \in Nat, NEW r \in Nat, NEW b \in Nat, NEW room \in Nat,
         NEW left \in Nat, q = e + r, q + room = b + left, b <= room
  PROVE  /\ e <= left /\ left - e \in Nat
         /\ r + room = b + (left - e)
         /\ left = e => r = 0 /\ b = room
OBVIOUS

LEMMA ShowInv == IInv /\ Show => IInv'
<1> SUFFICES ASSUME IInv, Show PROVE IInv'
  OBVIOUS
<1>1. PICK batch : batch = groups[Len(messages) + 1]
  OBVIOUS
<1>2. PICK entry : entry = Head(queue)
  OBVIOUS
<1>3. PICK chars : chars = Least(entry.chars, Least(FileChars, budget))
  OBVIOUS
<1>4. /\ phase = "show" /\ queue # <<>> /\ budget' = budget - chars
      /\ snapshots' = Append(snapshots, Snapshot(entry, chars))
      /\ queue' = (IF budget = chars THEN <<>> ELSE Tail(queue))
      /\ UNCHANGED <<files, phase, selected, groups, group, messages>>
  BY <1>2, <1>3 DEF Show
<1>5. /\ files \in Seq(Files) /\ groups \in Seq(Seq(Entries)) /\ budget \in Nat
      /\ queue \in Seq(Entries) /\ snapshots \in Seq(Snapshots)
      /\ Len(messages) \in Nat /\ Len(groups) \in Nat
      /\ DOMAIN groups = 1 .. Len(groups)
      /\ AllKnown(files, queue) /\ AllShort(queue)
      /\ Len(messages) < Len(groups) /\ Showing(batch, queue, budget, snapshots)
  <2>1. /\ files \in Seq(Files) /\ groups \in Seq(Seq(Entries)) /\ budget \in Nat
        /\ queue \in Seq(Entries) /\ snapshots \in Seq(Snapshots)
        /\ messages \in Seq(Seq(Snapshots)) /\ AllKnown(files, queue)
    BY DEF IInv, Types, TypeOK
  <2>2. AllShort(queue) /\ Len(messages) < Len(groups)
        /\ Showing(batch, queue, budget, snapshots)
    BY <1>1, <1>4 DEF IInv, MessagesInv
  <2> QED
    BY <2>1, <2>2, LenProperties
<1>6. batch \in Seq(Entries) /\ Within(files, batch) /\ CharsOf(batch) \in Nat
  <2>1. Len(messages) + 1 \in DOMAIN groups
    BY <1>5
  <2>2. batch \in Seq(Entries) /\ Within(files, batch)
    BY <1>1, <1>5, <2>1, ElementOfSeq DEF IInv, GroupsInv, Parts
  <2> QED
    BY <2>2, CharsAreSizes
<1>7. PICK rest : rest = Tail(queue)
  OBVIOUS
<1>8. /\ entry \in Entries /\ rest \in Seq(Entries) /\ entry = queue[1]
      /\ Len(queue) \in Nat \ {0}
      /\ DOMAIN queue = 1 .. Len(queue) /\ DOMAIN rest = 1 .. Len(queue) - 1
      /\ 1 \in DOMAIN queue
      /\ \A k \in DOMAIN rest : k + 1 \in DOMAIN queue /\ rest[k] = queue[k + 1]
  BY <1>2, <1>4, <1>5, <1>7, TailIs
<1>9. /\ entry.chars \in Nat /\ entry.chars <= FileChars
      /\ entry.file \in 1 .. MaxFiles
  BY <1>5, <1>8 DEF AllShort, Entries
\* The patch of the file fits into what is left of the budget.
<1>10. /\ CharsOf(queue) = entry.chars + CharsOf(rest) /\ CharsOf(rest) \in Nat
       /\ CharsOf(queue) + BatchChars = CharsOf(batch) + budget
       /\ CharsOf(batch) <= BatchChars /\ BatchChars \in Nat /\ FileChars \in Nat
  <2>1. CharsOf(queue) = entry.chars + CharsOf(rest) /\ CharsOf(rest) \in Nat
    BY <1>2, <1>4, <1>5, <1>7, <1>8, CharsHeadTail, CharsAreSizes
  <2>2. CharsOf(queue) + BatchChars = CharsOf(batch) + budget
    BY <1>4, <1>5 DEF Showing
  <2> QED
    BY <1>6, <2>1, <2>2, BudgetAssumption DEF Within
<1>11. /\ entry.chars <= budget /\ budget - entry.chars \in Nat
       /\ CharsOf(rest) + BatchChars = CharsOf(batch) + (budget - entry.chars)
       /\ budget = entry.chars => CharsOf(rest) = 0 /\ CharsOf(batch) = BatchChars
  <2>1. CharsOf(queue) \in Nat
    BY <1>5, CharsAreSizes
  <2> QED
    <3>1. PICK q : q = CharsOf(queue)
      OBVIOUS
    <3>2. PICK r : r = CharsOf(rest)
      OBVIOUS
    <3>3. PICK b : b = CharsOf(batch)
      OBVIOUS
    <3>4. PICK e : e = entry.chars
      OBVIOUS
    <3>5. /\ q \in Nat /\ e \in Nat /\ r \in Nat /\ b \in Nat /\ BatchChars \in Nat
          /\ budget \in Nat
      BY <1>5, <1>6, <1>9, <1>10, <2>1, <3>1, <3>2, <3>3, <3>4
    <3>6. q = e + r /\ q + BatchChars = b + budget /\ b <= BatchChars
      BY <1>10, <3>1, <3>2, <3>3, <3>4
    <3>7. /\ e <= budget /\ budget - e \in Nat
          /\ r + BatchChars = b + (budget - e)
          /\ budget = e => r = 0 /\ b = BatchChars
      BY ONLY <3>5, <3>6, BudgetLeft
    <3> QED
      BY <3>2, <3>3, <3>4, <3>7
<1>12. /\ chars = entry.chars
       /\ budget' \in Nat /\ budget' = budget - entry.chars
  <2>1. \A e, limit, left \in Nat : e <= limit /\ e <= left => Least(e, Least(limit, left)) = e
    BY DEF Least
  <2>2. chars = entry.chars
    BY <1>3, <1>5, <1>9, <1>10, <1>11, <2>1
  <2> QED
    BY <1>4, <1>11, <2>2
<1>13. Snapshot(entry, chars) \in Snapshots
  BY <1>9, <1>12 DEF Snapshot, Snapshots
<1>14. /\ snapshots' \in Seq(Snapshots)
       /\ DOMAIN snapshots = 1 .. Len(snapshots) /\ Len(snapshots) \in Nat
       /\ DOMAIN snapshots' = 1 .. Len(snapshots) + 1
       /\ \A k \in DOMAIN snapshots : snapshots'[k] = snapshots[k]
       /\ snapshots'[Len(snapshots) + 1] = Snapshot(entry, chars)
  BY <1>4, <1>5, <1>13, AppendIs
\* What has been shown stays, and the file is shown with its patch.
<1>15. /\ \A e : ShownIn(snapshots, batch, e) => ShownIn(snapshots', batch, e)
       /\ ShownIn(snapshots', batch, entry)
  <2>1. \A k \in DOMAIN snapshots : k \in DOMAIN snapshots' /\ snapshots'[k] = snapshots[k]
    BY <1>14
  <2>2. /\ Len(snapshots) + 1 \in DOMAIN snapshots'
        /\ snapshots'[Len(snapshots) + 1].file = entry.file
        /\ snapshots'[Len(snapshots) + 1].chars = entry.chars
    BY <1>12, <1>14 DEF Snapshot
  <2> QED
    BY <2>1, <2>2 DEF ShownIn
<1>16. \A i \in DOMAIN batch :
          \/ \E k \in DOMAIN rest : rest[k] = batch[i]
          \/ ShownIn(snapshots', batch, batch[i])
  <2> TAKE i \in DOMAIN batch
  <2>1. CASE ShownIn(snapshots, batch, batch[i])
    BY <1>15, <2>1
  <2>2. ASSUME NEW k \in DOMAIN queue, queue[k] = batch[i]
        PROVE  \/ \E j \in DOMAIN rest : rest[j] = batch[i]
               \/ ShownIn(snapshots', batch, batch[i])
    <3>1. CASE k = 1
      BY <1>8, <1>15, <2>2, <3>1
    <3>2. CASE k # 1
      <4>1. k - 1 \in DOMAIN rest /\ (k - 1) + 1 = k
        BY <1>8, <3>2
      <4>2. rest[k - 1] = queue[k]
        BY <1>8, <4>1
      <4> QED
        BY <2>2, <4>1, <4>2
    <3> QED
      BY <3>1, <3>2
  <2> QED
    BY <1>5, <2>1, <2>2 DEF Showing
<1>17. /\ queue' \in Seq(Entries) /\ AllKnown(files, queue') /\ AllShort(queue')
       /\ Showing(batch, queue', budget', snapshots')
  <2>1. AllKnown(files, rest) /\ AllShort(rest)
    BY <1>5, <1>8 DEF AllKnown, AllShort
  <2>2. CASE budget = chars
    <3>1. queue' = <<>>
      BY <1>4, <2>2
    <3>2. CharsOf(rest) = 0 /\ CharsOf(batch) = BatchChars
      BY <1>11, <1>12, <2>2
    <3>3. ASSUME NEW k \in DOMAIN rest PROVE rest[k].chars = 0
      <4>1. rest[k].chars \in Nat /\ rest[k].chars <= CharsOf(rest)
        BY <1>8, CharsOfOne
      <4> QED
        BY <3>2, <4>1
    <3>4. \A i \in DOMAIN batch : ShownIn(snapshots', batch, batch[i])
      BY <1>16, <3>2, <3>3 DEF ShownIn
    <3> QED
      BY <3>1, <3>4 DEF AllKnown, AllShort, Showing
  <2>3. CASE budget # chars
    <3>1. queue' = rest
      BY <1>4, <1>7, <2>3
    <3>2. CharsOf(rest) + BatchChars = CharsOf(batch) + budget'
      BY <1>11, <1>12
    <3> QED
      BY <1>8, <1>16, <2>1, <3>1, <3>2 DEF Showing
  <2> QED
    BY <2>2, <2>3
<1>18. Types'
  BY <1>4, <1>12, <1>14, <1>17 DEF IInv, Types, TypeOK
<1>19. QueueInOrder' /\ SelectionInv' /\ BestSoFar'
  BY <1>4 DEF IInv, QueueInOrder, SelectionInv, BestSoFar
<1>20. GroupsInv'
  BY <1>4 DEF IInv, GroupsInv
<1>21. MessagesInv'
  <2>1. groups'[Len(messages') + 1] = batch
    BY <1>1, <1>4
  <2> QED
    BY <1>4, <1>17, <2>1 DEF IInv, MessagesInv
<1> QED
  BY <1>18, <1>19, <1>20, <1>21 DEF IInv

LEMMA EndBatchInv == IInv /\ EndBatch => IInv'
<1> SUFFICES ASSUME IInv, EndBatch PROVE IInv'
  OBVIOUS
<1>1. /\ phase = "show" /\ phase' = "write" /\ queue = <<>>
      /\ messages' = Append(messages, snapshots)
      /\ UNCHANGED <<files, queue, budget, selected, groups, group, snapshots>>
  BY DEF EndBatch
<1>2. messages \in Seq(Seq(Snapshots)) /\ snapshots \in Seq(Snapshots)
      /\ groups \in Seq(Seq(Entries))
  BY DEF IInv, Types, TypeOK
<1>3. /\ messages' \in Seq(Seq(Snapshots)) /\ Len(messages') = Len(messages) + 1
      /\ Len(messages) \in Nat
      /\ DOMAIN messages = 1 .. Len(messages) /\ DOMAIN messages' = 1 .. Len(messages) + 1
      /\ \A m \in DOMAIN messages : messages'[m] = messages[m]
      /\ messages'[Len(messages) + 1] = snapshots
  BY <1>1, <1>2, AppendIs
<1>4. Types'
  BY <1>1, <1>3 DEF IInv, Types, TypeOK
<1>5. QueueInOrder' /\ SelectionInv' /\ BestSoFar'
  BY <1>1 DEF IInv, QueueInOrder, SelectionInv, BestSoFar
<1>6. GroupsInv'
  BY <1>1 DEF IInv, GroupsInv
<1>7. MessagesInv'
  <2>1. PICK batch : batch = groups[Len(messages) + 1]
    OBVIOUS
  <2>2. \A i \in DOMAIN batch : ShownIn(snapshots, batch, batch[i])
    <3>1. Showing(batch, queue, budget, snapshots)
      BY <1>1, <2>1 DEF IInv, MessagesInv
    <3> QED
      BY <1>1, <3>1 DEF Showing
  <2>3. \A m \in DOMAIN messages : \A i \in DOMAIN groups[m] :
           ShownIn(messages[m], groups[m], groups[m][i])
    BY DEF IInv, MessagesInv
  <2>4. ASSUME NEW m \in DOMAIN messages', NEW i \in DOMAIN groups[m]
        PROVE  ShownIn(messages'[m], groups[m], groups[m][i])
    <3>1. CASE m \in DOMAIN messages
      BY <1>3, <2>3, <2>4, <3>1
    <3>2. CASE m \notin DOMAIN messages
      <4>1. m = Len(messages) + 1
        BY <1>3, <2>4, <3>2
      <4> QED
        BY <1>3, <2>1, <2>2, <2>4, <4>1
    <3> QED
      BY <3>1, <3>2
  <2>5. Len(messages') <= Len(groups)
    <3>1. Len(messages) < Len(groups) /\ Len(groups) \in Nat
      BY <1>1, <1>2, LenProperties DEF IInv, MessagesInv
    <3> QED
      BY <1>3, <3>1
  <2> QED
    BY <1>1, <2>4, <2>5 DEF MessagesInv
<1> QED
  BY <1>4, <1>5, <1>6, <1>7 DEF IInv

LEMMA FinishInv == IInv /\ Finish => IInv'
<1> SUFFICES ASSUME IInv, Finish PROVE IInv'
  OBVIOUS
<1>1. /\ phase = "write" /\ phase' = "done"
      /\ UNCHANGED <<files, queue, budget, selected, groups, group, snapshots, messages>>
  BY DEF Finish
<1>2. Types'
  BY <1>1 DEF IInv, Types, TypeOK
<1>3. QueueInOrder' /\ SelectionInv' /\ BestSoFar'
  BY <1>1 DEF IInv, QueueInOrder, SelectionInv, BestSoFar
<1>4. GroupsInv' /\ MessagesInv'
  BY <1>1 DEF IInv, GroupsInv, MessagesInv
<1> QED
  BY <1>2, <1>3, <1>4 DEF IInv

LEMMA NextInv == IInv /\ [Next]_vars => IInv'
BY SortInv, SelectInv, EndSelectInv, GroupInv, EndGroupInv, StartBatchInv, ShowInv,
   EndBatchInv, FinishInv, StutterInv DEF Next

\* The invariant holds in every state of every run.
LEMMA Always == Spec => []IInv
BY InitInv, NextInv, PTL DEF Spec

-----------------------------------------------------------------------------
(* What it gives *)

LEMMA ShowsSelection == IInv => BatchesShowSelection
<1> SUFFICES ASSUME IInv PROVE BatchesShowSelection
  OBVIOUS
<1>1. \A i : Before(i) = StartOf(groups, i)
  BY DEF Before, StartOf
<1>2. /\ phase \in {"write", "show", "done"} => Before(Len(groups) + 1) = Len(selected)
      /\ \A i \in DOMAIN groups :
            /\ Within(files, groups[i])
            /\ \A k \in DOMAIN groups[i] : groups[i][k] = selected[Before(i) + k]
  BY <1>1 DEF IInv, GroupsInv, Parts, Segment
<1>3. \A m \in DOMAIN messages : \A i \in DOMAIN groups[m] :
         ShownIn(messages[m], groups[m], groups[m][i])
  BY DEF IInv, MessagesInv
<1>4. Distinct(selected) /\ Len(selected) <= RouteFiles /\ CharsOf(selected) <= RouteChars
  BY DEF IInv, SelectionInv
<1> QED
  BY <1>2, <1>3, <1>4 DEF BatchesShowSelection, Within, ShownIn, Distinct

LEMMA SelectsBest == IInv => BestFilesSelected
<1> SUFFICES ASSUME IInv, phase \in {"group", "write", "show", "done"}, NEW i \in DOMAIN files,
                    \A k \in DOMAIN selected : selected[k].file # i,
                    NEW k \in DOMAIN selected, selected[k].chars > 0
             PROVE  ~Above(Whole(i), Whole(selected[k].file))
  BY DEF BestFilesSelected
<1>1. NotBelow(files, selected, WholeOf(files, i))
  BY DEF IInv, BestSoFar, Has
<1>2. ~Higher(files, WholeOf(files, i), WholeOf(files, selected[k].file))
  BY <1>1 DEF NotBelow
<1> QED
  BY <1>2, SamePriority

\* The loops work on lists of entries of changed files; the budget that is left is never
\* negative (_selected_files_for_review, _changed_file_snapshot).
THEOREM EntriesWellFormed == Spec => []TypeOK
<1>1. IInv => TypeOK
  BY DEF IInv, Types
<1> QED
  BY <1>1, Always, PTL

\* Whatever the files and the budgets: no file is selected twice, the batches one after
\* the other are the selected files, selection and batches keep to their limits, and the
\* message of a batch shows every file with the patch it was selected with, except for
\* files without a patch in a batch whose patches use up the budget
\* (_selected_files_for_review, _group_files, build_review_messages).
THEOREM BatchesAreTheSelection == Spec => []BatchesShowSelection
BY Always, ShowsSelection, PTL

\* No file that the selection leaves out stands above one that takes up patch budget, in
\* the order of _file_review_priority.
THEOREM BestComeFirst == Spec => []BestFilesSelected
BY Always, SelectsBest, PTL
=============================================================================
