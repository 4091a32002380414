------------------------- MODULE GroundedReviewProofs -------------------------
(***************************************************************************)
(* What a review rests on and what its findings are, for any manifest,     *)
(* request, index, patches and answers of the model.                       *)
(***************************************************************************)
EXTENDS GroundedReview, SequenceTheorems, FiniteSetTheorems, TLAPS

-----------------------------------------------------------------------------
(* Sorting *)

\* The definitions of FiniteSets inside of ReviewGrounding.
LEMMA SameFinite == \A S : Grounding!IsFiniteSet(S) = IsFiniteSet(S)
BY DEF Grounding!IsFiniteSet, IsFiniteSet

\* The size of a set is the same in both modules.
LEMMA SameCardinality == \A S : Grounding!Cardinality(S) = Cardinality(S)
BY SameFinite DEF Grounding!Cardinality, Cardinality

\* The places of a list are finitely many.
LEMMA PlacesFinite == \A n \in Nat : IsFiniteSet(1 .. n)
BY FS_Interval

\* before[a] is the set of those ahead of a in a linear order of a finite set.
Linear(before) ==
    /\ IsFiniteSet(DOMAIN before)
    /\ \A a \in DOMAIN before : before[a] \subseteq DOMAIN before /\ a \notin before[a]
    /\ \A a, b \in DOMAIN before : b \in before[a] => before[b] \subseteq before[a]
    /\ \A a, b \in DOMAIN before : a # b => a \in before[b] \/ b \in before[a]

\* The list in that order has every element of the set once.
InOrderOf(before, list) ==
    /\ list \in Seq(DOMAIN before) /\ DOMAIN list = 1 .. Len(list)
    /\ Len(list) = Cardinality(DOMAIN before)
    /\ \A a \in DOMAIN before : \E k \in DOMAIN list : list[k] = a
    /\ \A k \in DOMAIN list : Cardinality(before[list[k]]) = k - 1
    /\ \A j, k \in DOMAIN list : j < k => list[j] \in before[list[k]]
    /\ \A j, k \in DOMAIN list : list[j] = list[k] => j = k

\* In a linear order of N elements each number below N is the number of those before
\* exactly one element.
LEMMA Ranks ==
  ASSUME NEW before, Linear(before)
  PROVE  LET N == Cardinality(DOMAIN before)
             rank == [a \in DOMAIN before |-> Cardinality(before[a])]
         IN  /\ N \in Nat
             /\ rank \in [DOMAIN before -> 0 .. N - 1]
             /\ \A a, b \in DOMAIN before : b \in before[a] => rank[b] < rank[a]
             /\ \A k \in 0 .. N - 1 : \E a \in DOMAIN before : rank[a] = k
<1> DEFINE S == DOMAIN before
           N == Cardinality(S)
           rank == [a \in S |-> Cardinality(before[a])]
<1>1. /\ IsFiniteSet(S)
      /\ \A a \in S : before[a] \subseteq S /\ a \notin before[a]
      /\ \A a, b \in S : b \in before[a] => before[b] \subseteq before[a]
      /\ \A a, b \in S : a # b => a \in before[b] \/ b \in before[a]
  BY DEF Linear
<1>2. N \in Nat
  BY <1>1, FS_CardinalityType
<1>3. \A a \in S : IsFiniteSet(before[a]) /\ rank[a] \in 0 .. N - 1
  <2> TAKE a \in S
  <2>1. before[a] \in SUBSET (S \ {a})
    BY <1>1
  <2>2. IsFiniteSet(S \ {a}) /\ Cardinality(S \ {a}) = N - 1
    BY <1>1, FS_RemoveElement
  <2>3. IsFiniteSet(before[a]) /\ Cardinality(before[a]) <= N - 1
    BY <2>1, <2>2, FS_Subset
  <2> QED
    BY <2>3, <1>2, FS_CardinalityType
<1>4. \A a, b \in S : b \in before[a] => rank[b] < rank[a]
  <2> SUFFICES ASSUME NEW a \in S, NEW b \in S, b \in before[a] PROVE rank[b] < rank[a]
    OBVIOUS
  <2>1. before[b] \in SUBSET before[a] /\ before[b] # before[a]
    BY <1>1
  <2>2. Cardinality(before[b]) <= Cardinality(before[a])
        /\ Cardinality(before[b]) # Cardinality(before[a])
    BY <2>1, <1>3, FS_Subset
  <2> QED
    BY <2>2, <1>3
<1>5. \A a, b \in S : rank[a] = rank[b] => a = b
  BY <1>1, <1>3, <1>4
<1> HIDE DEF rank, N, S
<1>6. rank \in [S -> 0 .. N - 1]
  BY <1>3 DEF rank
<1>7. rank \in Injection(S, 0 .. N - 1)
  BY <1>5, <1>6 DEF Injection, IsInjective
<1>8. IsFiniteSet(0 .. N - 1) /\ Cardinality(0 .. N - 1) = N
  BY <1>2, FS_Interval
<1>9. rank \in Surjection(S, 0 .. N - 1)
  BY <1>7, <1>8, FS_Injection DEF N
<1> QED
  BY <1>2, <1>4, <1>6, <1>9 DEF Surjection, rank, N, S

\* InOrder gives the list of a linear order.
LEMMA InOrderIs ==
  ASSUME NEW before, Linear(before)
  PROVE  InOrderOf(before, Grounding!InOrder(before))
<1> DEFINE S == DOMAIN before
           N == Cardinality(S)
           rank == [a \in S |-> Cardinality(before[a])]
           list == Grounding!InOrder(before)
<1>1. /\ N \in Nat
      /\ rank \in [S -> 0 .. N - 1]
      /\ \A a, b \in S : b \in before[a] => rank[b] < rank[a]
      /\ \A k \in 0 .. N - 1 : \E a \in S : rank[a] = k
  BY Ranks
<1>2. list = [k \in 1 .. N |-> CHOOSE a \in S : Grounding!Cardinality(before[a]) = k - 1]
  BY SameCardinality DEF Grounding!InOrder
<1>3. \A k \in 1 .. N : list[k] \in S /\ rank[list[k]] = k - 1
  <2> TAKE k \in 1 .. N
  <2>1. list[k] = CHOOSE a \in S : Grounding!Cardinality(before[a]) = k - 1
    BY <1>2, Zenon
  <2>2. \E a \in S : Grounding!Cardinality(before[a]) = k - 1
    BY <1>1, SameCardinality
  <2> QED
    BY <2>1, <2>2, SameCardinality
<1>4. list \in [1 .. N -> S]
  BY <1>2, <1>3, Zenon
<1> HIDE DEF rank, N, list
<1>5. list \in Seq(S) /\ Len(list) = N
  BY <1>1, <1>4, SeqDef, LenProperties
<1>6. \A a \in S : a \in S /\ \A b \in S : rank[a] = rank[b] => a = b
  <2>1. \A a, b \in S : a # b => a \in before[b] \/ b \in before[a]
    BY DEF Linear
  <2> QED
    BY <2>1, <1>1
<1>7. \A a \in S : \E k \in DOMAIN list : list[k] = a
  <2> TAKE a \in S
  <2>1. rank[a] + 1 \in 1 .. N
    BY <1>1
  <2>2. rank[list[rank[a] + 1]] = rank[a] /\ list[rank[a] + 1] \in S
    BY <2>1, <1>3, <1>1
  <2> QED
    BY <2>1, <2>2, <1>2, <1>6
<1>8. \A j, k \in 1 .. N : j < k => list[j] \in before[list[k]]
  <2> SUFFICES ASSUME NEW j \in 1 .. N, NEW k \in 1 .. N, j < k
               PROVE  list[j] \in before[list[k]]
    OBVIOUS
  <2>1. rank[list[j]] < rank[list[k]]
    BY <1>3
  <2>2. list[j] \in before[list[k]] \/ list[k] \in before[list[j]]
    BY <2>1, <1>3 DEF Linear
  <2> QED
    BY <2>1, <2>2, <1>1, <1>3
<1>9. \A j, k \in 1 .. N : list[j] = list[k] => j = k
  BY <1>3
<1>10. \A k \in 1 .. N : Cardinality(before[list[k]]) = k - 1
  BY <1>3 DEF rank
<1> QED
  BY <1>2, <1>5, <1>7, <1>8, <1>9, <1>10 DEF InOrderOf, list, N

\* Numbers in their order.
LEMMA AscendingIs ==
  ASSUME NEW numbers, IsFiniteSet(numbers), \A n \in numbers : n \in Int
  PROVE  LET list == Grounding!Ascending(numbers) IN
         /\ list \in Seq(numbers) /\ DOMAIN list = 1 .. Len(list)
         /\ Len(list) = Cardinality(numbers)
         /\ \A a \in numbers : \E k \in DOMAIN list : list[k] = a
         /\ \A j, k \in DOMAIN list : j < k => list[j] < list[k]
<1>0. PICK before : before = [n \in numbers |-> {m \in numbers : m < n}]
  OBVIOUS
<1>1. /\ DOMAIN before = numbers
      /\ \A n \in numbers : before[n] \subseteq numbers
      /\ \A n, m \in numbers : m \in before[n] <=> m < n
      /\ \A n \in numbers : n \in Int
  BY <1>0
<1>2. Linear(before)
  <2>1. \A a, b \in numbers : b \in before[a] => before[b] \subseteq before[a]
    BY <1>1
  <2>2. \A a, b \in numbers : a # b => a \in before[b] \/ b \in before[a]
    BY <1>1
  <2> QED
    BY <1>1, <2>1, <2>2 DEF Linear
<1>3. InOrderOf(before, Grounding!InOrder(before))
  BY <1>2, InOrderIs
<1>4. Grounding!Ascending(numbers) = Grounding!InOrder(before)
  BY <1>0 DEF Grounding!Ascending
<1> QED
  BY <1>1, <1>3, <1>4 DEF InOrderOf

\* The first elements of a list, all of it if it is shorter.
LEMMA FirstOfIs ==
  ASSUME NEW S, NEW list \in Seq(S), NEW n \in Int
  PROVE  LET first == Grounding!FirstOf(list, n) IN
         /\ first \in Seq(S) /\ DOMAIN first = 1 .. Len(first)
         /\ Len(first) = IF n < 1 THEN 0 ELSE IF n < Len(list) THEN n ELSE Len(list)
         /\ Len(first) <= Len(list)
         /\ \A k \in DOMAIN first : k \in DOMAIN list /\ first[k] = list[k]
<1> DEFINE m == IF n < Len(list) THEN n ELSE Len(list)
<1>1. Len(list) \in Nat /\ DOMAIN list = 1 .. Len(list)
  BY LenProperties
<1>2. m \in Int /\ m <= Len(list)
  BY <1>1
<1>3. \A i \in 1 .. m : list[i] \in S
  BY <1>1, <1>2, ElementOfSeq
<1> HIDE DEF m
<1>4. /\ SubSeq(list, 1, m) \in Seq(S)
      /\ Len(SubSeq(list, 1, m)) = IF 1 <= m THEN m ELSE 0
      /\ \A k \in 1 .. m : SubSeq(list, 1, m)[k] = list[k]
  BY <1>2, <1>3, SubSeqProperties
<1>5. Grounding!FirstOf(list, n) = SubSeq(list, 1, m)
  BY DEF Grounding!FirstOf, m
<1>6. DOMAIN SubSeq(list, 1, m) = 1 .. Len(SubSeq(list, 1, m))
  BY <1>4, LenProperties
<1> QED
  BY <1>1, <1>2, <1>4, <1>5, <1>6 DEF m

\* Items with different ids are ranked by their scores, each once.
LEMMA RankedIs ==
  ASSUME NEW score, IsFiniteSet(DOMAIN score),
         \A a \in DOMAIN score : score[a] \in Int /\ a.id \in Int,
         \A a, b \in DOMAIN score : a.id = b.id => a = b,
         NEW list, list = Grounding!Ranked(score)
  PROVE  /\ list \in Seq(DOMAIN score) /\ DOMAIN list = 1 .. Len(list)
         /\ \A a \in DOMAIN score : \E k \in DOMAIN list : list[k] = a
         /\ \A j, k \in DOMAIN list : j < k => score[list[j]] >= score[list[k]]
         /\ \A j, k \in DOMAIN list : list[j] = list[k] => j = k
<1> DEFINE S == DOMAIN score
           ahead(a, b) == score[a] > score[b] \/ (score[a] = score[b] /\ a.id < b.id)
<1>1. PICK before : before = [a \in S |-> {b \in S : ahead(b, a)}]
  OBVIOUS
<1>2. /\ DOMAIN before = S
      /\ \A a \in S : before[a] \subseteq S
      /\ \A a, b \in S : b \in before[a] <=> ahead(b, a)
  BY <1>1
<1>3. Linear(before)
  <2>1. \A a, b \in S : b \in before[a] => before[b] \subseteq before[a]
    BY <1>2
  <2>2. \A a, b \in S : a # b => a \in before[b] \/ b \in before[a]
    BY <1>2
  <2>3. \A a \in S : a \notin before[a]
    BY <1>2
  <2> QED
    BY <1>2, <2>1, <2>2, <2>3 DEF Linear
<1>4. InOrderOf(before, Grounding!InOrder(before))
  BY <1>3, InOrderIs
<1>5. list = Grounding!InOrder(before)
  BY <1>1 DEF Grounding!Ranked
<1>7. InOrderOf(before, list)
  BY <1>4, <1>5
<1>8. \A a, b \in S : b \in before[a] => score[b] >= score[a]
  BY <1>2
<1>9. list \in Seq(S) /\ DOMAIN list = 1 .. Len(list)
  BY <1>2, <1>7 DEF InOrderOf
<1>10. \A j, k \in DOMAIN list : j < k => score[list[j]] >= score[list[k]]
  BY <1>7, <1>8, <1>9, ElementOfSeq DEF InOrderOf
<1> QED
  BY <1>2, <1>7, <1>9, <1>10 DEF InOrderOf

-----------------------------------------------------------------------------
(* The ranking of the policies *)

IsChunk(chunk) == IsFiniteSet(chunk.words)

\* A score is a number, and not below what the words earn.
LEMMA ScoreIs ==
  ASSUME NEW chunk, NEW query, IsChunk(chunk)
  PROVE  /\ Grounding!WordScore(chunk, query) \in Nat
         /\ Grounding!Score(chunk, query) \in Nat
         /\ Grounding!Score(chunk, query) =
               Grounding!WordScore(chunk, query)
                 + (IF Grounding!IsOwn(chunk) THEN Bonus * Precision ELSE 0)
<1>1. Bonus \in Nat /\ Precision \in Nat
  BY GroundingAssumption DEF Grounding!GroundingAssumption
<1>2. Grounding!Shared(chunk, query) \in Nat
  <2>1. IsFiniteSet(chunk.words \cap query)
    BY FS_Intersection DEF IsChunk
  <2>2. Grounding!Shared(chunk, query) = Cardinality(chunk.words \cap query)
    BY SameCardinality DEF Grounding!Shared
  <2> QED
    BY <2>1, <2>2, FS_CardinalityType
<1>3. PICK most : most = Precision * Grounding!Shared(chunk, query)
  OBVIOUS
<1>4. most \in Nat
  BY <1>1, <1>2, <1>3
<1>5. PICK units : units = {m \in 1 .. most :
          (2 * m - 1) * (2 * m - 1) * Grounding!Cardinality(chunk.words) <= 4 * most * most}
  OBVIOUS
<1>6. Cardinality(units) \in Nat
  <2>1. IsFiniteSet(1 .. most)
    BY <1>4, PlacesFinite
  <2>2. units \in SUBSET (1 .. most)
    BY <1>5
  <2>3. IsFiniteSet(units)
    BY <2>1, <2>2, FS_Subset
  <2> QED
    BY <2>3, FS_CardinalityType
<1>7. Grounding!WordScore(chunk, query) = Cardinality(units)
  BY <1>3, <1>5, SameCardinality DEF Grounding!WordScore
<1>8. Bonus * Precision \in Nat
  BY <1>1
<1> QED
  BY <1>6, <1>7, <1>8 DEF Grounding!Score

RelevantAt(chunks, query, types) ==
    {i \in DOMAIN chunks : Grounding!Relevant(chunks[i], query, types)}

\* No chunk of a list scores less than a number.
AllScore(list, query, number) ==
    \A k \in DOMAIN list : Grounding!Score(list[k], query) >= number

\* What a ranking returns is relevant; what it leaves out scores no more than any of them,
\* and they score no less than as many relevant chunks as it may return.
IsRanking(result, chunks, query, top, types) ==
    /\ Len(result) <= top
    /\ \A k \in DOMAIN result : \E i \in RelevantAt(chunks, query, types) :
          result[k] = chunks[i]
    /\ \A i \in RelevantAt(chunks, query, types) :
          \/ \E k \in DOMAIN result : result[k] = chunks[i]
          \/ Len(result) = top /\ AllScore(result, query, Grounding!Score(chunks[i], query))
    /\ \A I \in SUBSET RelevantAt(chunks, query, types), n \in Nat :
          Cardinality(I) >= top /\ (\A i \in I : Grounding!Score(chunks[i], query) >= n) =>
             AllScore(result, query, n)

\* rank_policy_chunks gives such a list.
LEMMA RankingIs ==
  ASSUME NEW C, \A c \in C : IsChunk(c), NEW chunks \in Seq(C),
         NEW query, NEW top \in Nat, NEW types,
         NEW result, result = Grounding!RankPolicyChunks(chunks, query, top, types)
  PROVE  /\ result \in Seq(C) /\ DOMAIN result = 1 .. Len(result)
         /\ IsRanking(result, chunks, query, top, types)
<1> DEFINE relevant == {i \in DOMAIN chunks : Grounding!Relevant(chunks[i], query, types)}
           score(i) == Grounding!Score(chunks[i], query)
           ahead(i, j) == score(i) > score(j) \/ (score(i) = score(j) /\ i < j)
<1>1. PICK before : before = [i \in relevant |-> {j \in relevant : ahead(j, i)}]
  OBVIOUS
<1>2. /\ DOMAIN before = relevant
      /\ \A i \in relevant : before[i] \subseteq relevant
      /\ \A i, j \in relevant : j \in before[i] <=> ahead(j, i)
  BY <1>1
<1>3. /\ DOMAIN chunks = 1 .. Len(chunks) /\ Len(chunks) \in Nat
      /\ \A i \in relevant : i \in Int /\ chunks[i] \in C
      /\ IsFiniteSet(relevant)
  <2>1. DOMAIN chunks = 1 .. Len(chunks) /\ Len(chunks) \in Nat
    BY LenProperties
  <2>2. relevant \in SUBSET (1 .. Len(chunks))
    BY <2>1
  <2>3. IsFiniteSet(relevant)
    <3>1. IsFiniteSet(1 .. Len(chunks))
      BY <2>1, PlacesFinite
    <3> QED
      BY <2>2, <3>1, FS_Subset
  <2>4. \A i \in 1 .. Len(chunks) : i \in Int /\ chunks[i] \in C
    BY <2>1, ElementOfSeq
  <2> QED
    BY <2>1, <2>2, <2>3, <2>4
<1>4. \A i \in relevant : score(i) \in Nat
  BY <1>3, ScoreIs
<1>5. \A i, j \in relevant : ahead(i, j) => score(i) >= score(j)
  BY <1>4
<1> HIDE DEF score, relevant
<1>6. Linear(before)
  <2>1. \A i, j \in relevant : j \in before[i] => before[j] \subseteq before[i]
    BY <1>2, <1>3, <1>4
  <2>2. \A i, j \in relevant : i # j => i \in before[j] \/ j \in before[i]
    BY <1>2, <1>3, <1>4
  <2>3. \A i \in relevant : i \notin before[i]
    BY <1>2, <1>3, <1>4
  <2> QED
    BY <1>2, <1>3, <2>1, <2>2, <2>3 DEF Linear
<1>7. PICK ranked : ranked = Grounding!InOrder(before)
  OBVIOUS
<1>8. InOrderOf(before, ranked)
  BY <1>6, <1>7, InOrderIs
<1>9. PICK taken : taken = Grounding!FirstOf(ranked, top)
  OBVIOUS
<1>10. /\ ranked \in Seq(relevant) /\ DOMAIN ranked = 1 .. Len(ranked) /\ Len(ranked) \in Nat
       /\ \A k \in DOMAIN ranked : ranked[k] \in relevant
  BY <1>2, <1>8, ElementOfSeq, LenProperties DEF InOrderOf
<1>11. /\ taken \in Seq(relevant) /\ DOMAIN taken = 1 .. Len(taken)
       /\ Len(taken) = IF top < Len(ranked) THEN top ELSE Len(ranked)
       /\ \A k \in DOMAIN taken : k \in DOMAIN ranked /\ taken[k] = ranked[k]
  BY <1>9, <1>10, FirstOfIs
<1>13. result = [k \in DOMAIN taken |-> chunks[taken[k]]]
  BY <1>1, <1>7, <1>9, Zenon DEF Grounding!RankPolicyChunks, relevant, score
<1>14. \A k \in DOMAIN taken : result[k] = chunks[ranked[k]] /\ ranked[k] \in relevant
  BY <1>10, <1>11, <1>13
<1>15. /\ result \in Seq(C) /\ DOMAIN result = 1 .. Len(result) /\ Len(result) = Len(taken)
  <2>1. Len(taken) \in Nat
    BY <1>10, <1>11
  <2>2. result \in [1 .. Len(taken) -> C]
    BY <1>3, <1>11, <1>13, <1>14
  <2> QED
    BY <2>1, <2>2, SeqDef, LenProperties
<1>16. \A i \in relevant :
          \/ \E k \in DOMAIN result : result[k] = chunks[i]
          \/ /\ Len(result) = top
             /\ \A k \in DOMAIN result : score(ranked[k]) >= score(i)
  <2> TAKE i \in relevant
  <2>1. PICK p \in DOMAIN ranked : ranked[p] = i
    BY <1>2, <1>8 DEF InOrderOf
  <2>2. CASE p <= Len(result)
    <3>1. p \in DOMAIN taken
      BY <2>1, <2>2, <1>10, <1>11, <1>15
    <3>2. p \in DOMAIN result /\ result[p] = chunks[i]
      BY <2>1, <3>1, <1>11, <1>14, <1>15
    <3> QED
      BY <3>2
  <2>3. CASE ~ (p <= Len(result))
    <3>1. Len(result) = top
      <4>1. p \in Int /\ p <= Len(ranked)
        BY <2>1, <1>10
      <4>2. Len(result) = (IF top < Len(ranked) THEN top ELSE Len(ranked))
        BY <1>11, <1>15
      <4>3. Len(ranked) \in Int
        BY <1>10
      <4> QED
        BY <2>3, <4>1, <4>2, <4>3
    <3>2. ASSUME NEW k \in DOMAIN result PROVE score(ranked[k]) >= score(i)
      <4>1. k \in DOMAIN ranked /\ k < p
        BY <2>1, <2>3, <1>10, <1>11, <1>15
      <4>2. ranked[k] \in before[i]
        BY <2>1, <4>1, <1>8 DEF InOrderOf
      <4> QED
        BY <4>1, <4>2, <1>2, <1>5, <1>10
    <3> QED
      BY <3>1, <3>2
  <2> QED
    BY <2>2, <2>3
<1>17. ASSUME NEW I \in SUBSET relevant, NEW n \in Nat, Cardinality(I) >= top,
              \A i \in I : score(i) >= n, NEW k \in DOMAIN result
       PROVE  score(ranked[k]) >= n
  <2> SUFFICES ASSUME ~ (score(ranked[k]) >= n) PROVE FALSE
    OBVIOUS
  <2>1. k \in DOMAIN ranked /\ k <= top /\ ranked[k] \in relevant
    BY <1>10, <1>11, <1>15
  <2>2. \A i \in I : i \in before[ranked[k]]
    <3> TAKE i \in I
    <3>1. i # ranked[k]
      BY <1>17
    <3>2. i \in before[ranked[k]] \/ ranked[k] \in before[i]
      BY <2>1, <3>1, <1>2, <1>6 DEF Linear
    <3>3. ranked[k] \in before[i] => score(ranked[k]) >= score(i)
      BY <2>1, <1>2, <1>5
    <3>4. score(i) >= n /\ score(i) \in Nat /\ score(ranked[k]) \in Nat
      BY <2>1, <1>4, <1>17
    <3> QED
      BY <3>2, <3>3, <3>4
  <2>3. I \in SUBSET before[ranked[k]] /\ IsFiniteSet(before[ranked[k]])
    BY <2>1, <2>2, <1>2, <1>3, FS_Subset
  <2>4. Cardinality(I) <= Cardinality(before[ranked[k]]) /\ Cardinality(I) \in Nat
    BY <2>3, FS_Subset, FS_CardinalityType
  <2>5. Cardinality(before[ranked[k]]) = k - 1 /\ k \in Int
    BY <2>1, <1>8, <1>10 DEF InOrderOf
  <2> QED
    BY <2>1, <2>4, <2>5, <1>17
<1>18. \A k \in DOMAIN result : Grounding!Score(result[k], query) = score(ranked[k])
  BY <1>11, <1>14, <1>15 DEF score
<1>19. Len(result) <= top
  BY <1>10, <1>11, <1>15
<1>20. RelevantAt(chunks, query, types) = relevant
  BY DEF RelevantAt, relevant
<1>21. \A n : AllScore(result, query, n) <=> \A k \in DOMAIN result : score(ranked[k]) >= n
  BY <1>18 DEF AllScore
<1>22. \A k \in DOMAIN result : \E i \in relevant : result[k] = chunks[i]
  BY <1>11, <1>14, <1>15
<1>23. \A I \in SUBSET relevant, n \in Nat :
          Cardinality(I) >= top /\ (\A i \in I : score(i) >= n) => AllScore(result, query, n)
  BY <1>17, <1>21
<1>24. \A i : Grounding!Score(chunks[i], query) = score(i)
  BY DEF score
<1>25. \A i \in relevant :
          \/ \E k \in DOMAIN result : result[k] = chunks[i]
          \/ Len(result) = top /\ AllScore(result, query, Grounding!Score(chunks[i], query))
  <2> TAKE i \in relevant
  <2>1. AllScore(result, query, score(i)) <=>
           \A k \in DOMAIN result : score(ranked[k]) >= score(i)
    BY <1>21
  <2>2. Grounding!Score(chunks[i], query) = score(i)
    BY <1>24
  <2> QED
    BY <1>16, <2>1, <2>2
<1>26. \A I \in SUBSET relevant, n \in Nat :
          Cardinality(I) >= top /\ (\A i \in I : Grounding!Score(chunks[i], query) >= n) =>
             AllScore(result, query, n)
  <2> TAKE I \in SUBSET relevant, n \in Nat
  <2>1. HAVE Cardinality(I) >= top /\ (\A i \in I : Grounding!Score(chunks[i], query) >= n)
  <2>2. \A i \in I : score(i) >= n
    BY <2>1, <1>24
  <2> QED
    BY <2>1, <2>2, <1>23
<1>27. IsRanking(result, chunks, query, top, types)
  BY <1>19, <1>20, <1>22, <1>25, <1>26 DEF IsRanking
<1> QED
  BY <1>15, <1>27

-----------------------------------------------------------------------------
(* The selection of skills and cards *)

\* A finite set of numbers has a least one.
LEMMA LeastOf ==
  ASSUME NEW numbers, IsFiniteSet(numbers), \A n \in numbers : n \in Int, numbers # {}
  PROVE  \E least \in numbers : \A n \in numbers : least <= n
<1>1. PICK list : list = Grounding!Ascending(numbers)
  OBVIOUS
<1>2. /\ list \in Seq(numbers) /\ DOMAIN list = 1 .. Len(list)
      /\ \A a \in numbers : \E k \in DOMAIN list : list[k] = a
      /\ \A j, k \in DOMAIN list : j < k => list[j] < list[k]
  BY <1>1, AscendingIs
<1>3. 1 \in DOMAIN list /\ list[1] \in numbers
  <2>1. Len(list) \in Nat /\ DOMAIN list # {}
    BY <1>2, LenProperties
  <2> QED
    BY <1>2, <2>1, ElementOfSeq
<1>4. \A n \in numbers : list[1] <= n
  <2> TAKE n \in numbers
  <2>1. PICK k \in DOMAIN list : list[k] = n
    BY <1>2
  <2>2. k = 1 \/ 1 < k
    BY <1>2
  <2> QED
    BY <1>2, <1>3, <2>1, <2>2
<1> QED
  BY <1>3, <1>4

\* A list has finitely many elements.
LEMMA ElementsFinite ==
  ASSUME NEW S, NEW list \in Seq(S)
  PROVE  IsFiniteSet(Elements(list))
<1>1. DOMAIN list = 1 .. Len(list) /\ Len(list) \in Nat
  BY LenProperties
<1>2. list \in [1 .. Len(list) -> Elements(list)]
  <2>1. list = [i \in 1 .. Len(list) |-> list[i]]
    BY <1>1, SeqDef
  <2>2. \A i \in 1 .. Len(list) : list[i] \in Elements(list)
    BY <1>1 DEF Elements
  <2> QED
    BY <2>1, <2>2
<1>3. list \in Surjection(1 .. Len(list), Elements(list))
  BY <1>1, <1>2 DEF Surjection, Elements
<1>4. IsFiniteSet(1 .. Len(list))
  BY <1>1, PlacesFinite
<1> QED
  BY <1>3, <1>4, FS_Surjection

\* Elements of the two modules.
LEMMA SameElements == \A list : Grounding!Elements(list) = Elements(list)
BY DEF Grounding!Elements, Elements

\* What is assumed of a manifest.
LEMMA ManifestIs ==
  ASSUME NEW m \in Manifests
  PROVE  /\ m.skills \in Seq(Elements(m.skills)) /\ m.cards \in Seq(Elements(m.cards))
         /\ IsFiniteSet(Elements(m.skills)) /\ IsFiniteSet(Elements(m.cards))
         /\ \A skill \in Elements(m.skills) :
               skill.id \in Int /\ skill.priority \in Int /\ IsFiniteSet(skill.signals)
         /\ \A card \in Elements(m.cards) : card.id \in Int /\ IsFiniteSet(card.signals)
         /\ \A r \in RouteNames : m.max_skills[r] \in Nat /\ m.max_cards[r] \in Nat
         /\ m.max_policies_per_batch \in Nat \ {0}
<1>1. Grounding!RouteNames = RouteNames
  BY DEF Grounding!RouteNames, RouteNames, Grounding!Failure, Failure, Grounding!Standard,
     Standard, Grounding!Deep, Deep
<1>2. /\ m.skills \in Seq(Elements(m.skills)) /\ m.cards \in Seq(Elements(m.cards))
      /\ \A skill \in Elements(m.skills) :
            {skill.id, skill.priority} \subseteq Int /\ IsFiniteSet(skill.signals)
      /\ \A card \in Elements(m.cards) : card.id \in Int /\ IsFiniteSet(card.signals)
      /\ {m.max_skills, m.max_cards} \subseteq [RouteNames -> Nat]
      /\ m.max_policies_per_batch \in Nat \ {0}
  BY GroundingAssumption, SameElements, SameFinite, <1>1 DEF Grounding!GroundingAssumption
<1>3. IsFiniteSet(Elements(m.skills)) /\ IsFiniteSet(Elements(m.cards))
  BY <1>2, ElementsFinite
<1> QED
  BY <1>2, <1>3

\* A manifest the service starts with has no id twice.
LEMMA DistinctIds ==
  ASSUME NEW m \in Manifests, Grounding!Acceptable(m)
  PROVE  /\ \A a, b \in Elements(m.skills) : a.id = b.id => a = b
         /\ \A a, b \in Elements(m.cards) : a.id = b.id => a = b
BY DEF Grounding!Acceptable, Grounding!Distinct, Elements

\* A list of items that are all different.
LEMMA ItemsDistinct ==
  ASSUME NEW S, \A a, b \in S : a.id = b.id => a = b, NEW list \in Seq(S),
         \A j, k \in DOMAIN list : list[j] = list[k] => j = k
  PROVE  Grounding!Distinct(list)
BY ElementOfSeq, LenProperties DEF Grounding!Distinct

\* The selected skills are skills of the manifest, none twice.
LEMMA SkillsAre ==
  ASSUME NEW m \in Manifests, Grounding!Acceptable(m), NEW signals, NEW r \in RouteNames
  PROVE  LET skills == Grounding!FirstOf(Grounding!RankedSkills(m, signals, r),
                                         m.max_skills[r])
         IN  /\ skills \in Seq(Elements(m.skills)) /\ DOMAIN skills = 1 .. Len(skills)
             /\ Grounding!Distinct(skills)
<1> DEFINE E == Grounding!Enabled(m, signals, r)
<1>1. PICK score : score = [skill \in E |-> Grounding!SkillScore(skill, signals, r)]
  OBVIOUS
<1>2. DOMAIN score = E /\ E \subseteq Elements(m.skills) /\ IsFiniteSet(E)
  <2>1. E \subseteq Elements(m.skills)
    BY SameElements DEF Grounding!Enabled
  <2> QED
    BY <1>1, <2>1, ManifestIs, FS_Subset
<1>3. \A a \in E : score[a] \in Int /\ a.id \in Int
  <2> TAKE a \in E
  <2>1. a.id \in Int /\ a.priority \in Int /\ IsFiniteSet(a.signals)
    BY <1>2, ManifestIs
  <2>2. Grounding!Cardinality(a.signals \cap signals) \in Nat
    BY <2>1, FS_Intersection, FS_CardinalityType, SameCardinality
  <2> QED
    BY <1>1, <2>1, <2>2 DEF Grounding!SkillScore
<1>4. \A a, b \in E : a.id = b.id => a = b
  BY <1>2, DistinctIds
<1> HIDE DEF E
<1>5. PICK list : list = Grounding!RankedSkills(m, signals, r)
  OBVIOUS
<1>6. list = Grounding!Ranked(score)
  BY <1>1, <1>5 DEF Grounding!RankedSkills, E
<1>7. list \in Seq(E) /\ \A j, k \in DOMAIN list : list[j] = list[k] => j = k
  BY <1>2, <1>3, <1>4, <1>6, RankedIs
<1>8. PICK skills : skills = Grounding!FirstOf(list, m.max_skills[r])
  OBVIOUS
<1>9. m.max_skills[r] \in Int
  BY ManifestIs
<1>10. /\ skills \in Seq(E) /\ DOMAIN skills = 1 .. Len(skills)
       /\ \A k \in DOMAIN skills : k \in DOMAIN list /\ skills[k] = list[k]
  BY <1>7, <1>8, <1>9, FirstOfIs
<1>11. skills \in Seq(Elements(m.skills))
  BY <1>2, <1>10, SeqMonotonic
<1>12. Grounding!Distinct(skills)
  BY <1>4, <1>7, <1>10, ItemsDistinct
<1> QED
  BY <1>5, <1>8, <1>10, <1>11, <1>12

\* The candidates are cards of the manifest and come by their scores.
LEMMA CardsRanked ==
  ASSUME NEW m \in Manifests, Grounding!Acceptable(m), NEW r, NEW skills, NEW files,
         NEW signals, NEW K, K = Grounding!Candidates(m, skills, files, signals, r),
         NEW score, DOMAIN score = K,
         \A card \in K : score[card] = Grounding!CardScore(card, files, signals),
         NEW ranked, ranked = Grounding!Ranked(score)
  PROVE  /\ K \subseteq Elements(m.cards)
         /\ ranked \in Seq(K) /\ DOMAIN ranked = 1 .. Len(ranked)
         /\ \A a \in K : \E k \in DOMAIN ranked : ranked[k] = a
         /\ \A j, k \in DOMAIN ranked : j < k => score[ranked[j]] >= score[ranked[k]]
         /\ \A j, k \in DOMAIN ranked : ranked[j] = ranked[k] => j = k
         /\ \A a \in K : score[a] \in Int
<1>1. DOMAIN score = K /\ K \subseteq Elements(m.cards) /\ IsFiniteSet(K)
  <2>1. K \subseteq Elements(m.cards)
    BY SameElements DEF Grounding!Candidates
  <2> QED
    BY <2>1, ManifestIs, FS_Subset
<1>2. \A a \in K : score[a] \in Int /\ a.id \in Int
  <2> TAKE a \in K
  <2>1. a.id \in Int /\ IsFiniteSet(a.signals)
    BY <1>1, ManifestIs
  <2>2. Grounding!Cardinality(a.signals \cap signals) \in Nat
    BY <2>1, FS_Intersection, FS_CardinalityType, SameCardinality
  <2> QED
    BY <2>1, <2>2 DEF Grounding!CardScore
<1>3. \A a, b \in K : a.id = b.id => a = b
  BY <1>1, DistinctIds
<1>5. /\ ranked \in Seq(K) /\ DOMAIN ranked = 1 .. Len(ranked)
      /\ \A a \in K : \E k \in DOMAIN ranked : ranked[k] = a
      /\ \A j, k \in DOMAIN ranked : j < k => score[ranked[j]] >= score[ranked[k]]
      /\ \A j, k \in DOMAIN ranked : ranked[j] = ranked[k] => j = k
  BY <1>1, <1>2, <1>3, RankedIs
<1> QED
  BY <1>1, <1>2, <1>5

\* The card in place i is the best one of skill.
IsBestAt(ranked, skill, i) ==
    /\ i \in DOMAIN ranked /\ ranked[i].skill = skill.id
    /\ \A j \in 1 .. i - 1 : ranked[j].skill # skill.id

\* The first card of a skill in the ranking is where BestAt says.
LEMMA BestAtIs ==
  ASSUME NEW K, NEW ranked \in Seq(K), NEW skill,
         \E i \in DOMAIN ranked : ranked[i].skill = skill.id
  PROVE  IsBestAt(ranked, skill, Grounding!BestAt(ranked, skill))
<1> DEFINE of == {i \in DOMAIN ranked : ranked[i].skill = skill.id}
<1>1. DOMAIN ranked = 1 .. Len(ranked) /\ Len(ranked) \in Nat
  BY LenProperties
<1>2. IsFiniteSet(of) /\ of # {} /\ \A n \in of : n \in Int
  <2>1. IsFiniteSet(1 .. Len(ranked))
    BY <1>1, PlacesFinite
  <2>2. of \in SUBSET (1 .. Len(ranked))
    BY <1>1
  <2> QED
    BY <2>1, <2>2, FS_Subset
<1>3. PICK i \in of : \A n \in of : i <= n
  <2> HIDE DEF of
  <2> QED
    BY <1>2, LeastOf
<1>4. IsBestAt(ranked, skill, i)
  <2> SUFFICES ASSUME NEW j \in 1 .. i - 1, ranked[j].skill = skill.id PROVE FALSE
    BY <1>3 DEF IsBestAt
  <2>1. j \in DOMAIN ranked
    BY <1>1
  <2> QED
    BY <1>1, <1>3, <2>1
<1>5. \E n \in DOMAIN ranked :
        ranked[n].skill = skill.id /\ \A j \in 1 .. n - 1 : ranked[j].skill # skill.id
  BY <1>4 DEF IsBestAt
<1> QED
  BY <1>5, Zenon DEF IsBestAt, Grounding!BestAt

\* Each skill that has a card has its best one on the list, or the list is full with
\* cards of skills before it.
OnePerSkill(ranked, skills, limit, first) ==
    /\ \A k \in DOMAIN first : \E s \in DOMAIN skills, i \in DOMAIN ranked :
          IsBestAt(ranked, skills[s], i) /\ first[k] = ranked[i]
    /\ \A j, k \in DOMAIN first : first[j].skill = first[k].skill => j = k
    /\ \A s \in DOMAIN skills :
          (\E i \in DOMAIN ranked : ranked[i].skill = skills[s].id) =>
             \/ \E k \in DOMAIN first, i \in DOMAIN ranked :
                   IsBestAt(ranked, skills[s], i) /\ first[k] = ranked[i]
             \/ /\ Len(first) >= limit
                /\ \A k \in DOMAIN first :
                      \E e \in 1 .. s - 1 : skills[e].id = first[k].skill

\* The first phase puts one card of each skill on the list, as far as there is room.
LEMMA BestOfEachSkillIs ==
  ASSUME NEW K, NEW ranked \in Seq(K), NEW S, NEW skills \in Seq(S),
         Grounding!Distinct(skills), NEW limit \in Nat,
         NEW first, first = Grounding!BestOfEachSkill(ranked, skills, limit)
  PROVE  /\ first \in Seq(K) /\ DOMAIN first = 1 .. Len(first)
         /\ OnePerSkill(ranked, skills, limit, first)
<1> DEFINE having == {s \in DOMAIN skills :
                         \E i \in DOMAIN ranked : ranked[i].skill = skills[s].id}
           most == IF limit < 1 THEN 1 ELSE limit
<1>1. DOMAIN skills = 1 .. Len(skills) /\ Len(skills) \in Nat
  BY LenProperties
<1>2. IsFiniteSet(having) /\ (\A s \in having : s \in DOMAIN skills /\ s \in Int)
  <2>1. IsFiniteSet(1 .. Len(skills))
    BY <1>1, PlacesFinite
  <2>2. having \in SUBSET (1 .. Len(skills))
    BY <1>1
  <2> QED
    BY <1>1, <2>1, <2>2, FS_Subset
<1>3. \A s \in having : IsBestAt(ranked, skills[s], Grounding!BestAt(ranked, skills[s]))
  BY BestAtIs
<1>4. \A s \in DOMAIN skills :
        (\E i \in DOMAIN ranked : ranked[i].skill = skills[s].id) => s \in having
  OBVIOUS
<1> HIDE DEF having
<1>5. PICK order : order = Grounding!Ascending(having)
  OBVIOUS
<1>6. /\ order \in Seq(having) /\ DOMAIN order = 1 .. Len(order) /\ Len(order) \in Nat
      /\ \A s \in having : \E k \in DOMAIN order : order[k] = s
      /\ \A j, k \in DOMAIN order : j < k => order[j] < order[k]
      /\ \A k \in DOMAIN order : order[k] \in having
  BY <1>2, <1>5, AscendingIs, ElementOfSeq, LenProperties
<1>7. most \in Int /\ most >= limit /\ most >= 1
  OBVIOUS
<1>8. PICK taken : taken = Grounding!FirstOf(order, most)
  OBVIOUS
<1> HIDE DEF most
<1>9. /\ taken \in Seq(having) /\ DOMAIN taken = 1 .. Len(taken)
      /\ Len(taken) = IF most < Len(order) THEN most ELSE Len(order)
      /\ \A k \in DOMAIN taken : k \in DOMAIN order /\ taken[k] = order[k]
  BY <1>6, <1>7, <1>8, FirstOfIs
<1>11. first = [k \in DOMAIN taken |-> ranked[Grounding!BestAt(ranked, skills[taken[k]])]]
  BY <1>5, <1>8, Zenon DEF Grounding!BestOfEachSkill, having, most
<1>12. \A k \in DOMAIN taken :
         /\ taken[k] \in having /\ taken[k] \in DOMAIN skills
         /\ first[k] = ranked[Grounding!BestAt(ranked, skills[taken[k]])]
         /\ IsBestAt(ranked, skills[taken[k]], Grounding!BestAt(ranked, skills[taken[k]]))
         /\ first[k].skill = skills[taken[k]].id
  BY <1>2, <1>3, <1>6, <1>9, <1>11 DEF IsBestAt
<1>13. first \in Seq(K) /\ DOMAIN first = 1 .. Len(first) /\ Len(first) = Len(taken)
  <2>1. \A i \in DOMAIN ranked : ranked[i] \in K
    BY ElementOfSeq, LenProperties
  <2>2. \A k \in DOMAIN taken : first[k] \in K
    BY <1>12, <2>1 DEF IsBestAt
  <2>3. first \in [1 .. Len(taken) -> K] /\ Len(taken) \in Nat
    BY <1>9, <1>11, <2>2, LenProperties
  <2> QED
    BY <2>3, SeqDef, LenProperties
<1>14. \A j, k \in DOMAIN first : first[j].skill = first[k].skill => j = k
  <2> SUFFICES ASSUME NEW j \in DOMAIN first, NEW k \in DOMAIN first,
                      first[j].skill = first[k].skill
               PROVE  j = k
    OBVIOUS
  <2>1. j \in DOMAIN taken /\ k \in DOMAIN taken
    BY <1>9, <1>13
  <2>2. taken[j] = taken[k]
    BY <2>1, <1>12 DEF Grounding!Distinct
  <2>3. /\ j \in DOMAIN order /\ k \in DOMAIN order /\ order[j] = order[k]
        /\ j \in Int /\ k \in Int /\ order[j] \in Int
    BY <2>1, <2>2, <1>2, <1>6, <1>9
  <2> QED
    BY <2>3, <1>6
<1>15. \A k \in DOMAIN first : \E s \in DOMAIN skills, i \in DOMAIN ranked :
         IsBestAt(ranked, skills[s], i) /\ first[k] = ranked[i]
  BY <1>9, <1>12, <1>13 DEF IsBestAt
<1>16. ASSUME NEW s \in having
       PROVE  \/ \E k \in DOMAIN first, i \in DOMAIN ranked :
                    IsBestAt(ranked, skills[s], i) /\ first[k] = ranked[i]
              \/ /\ Len(first) >= limit
                 /\ \A k \in DOMAIN first :
                       \E e \in 1 .. s - 1 : skills[e].id = first[k].skill
  <2>1. PICK p \in DOMAIN order : order[p] = s
    BY <1>6
  <2>2. CASE p \in DOMAIN taken
    <3>1. p \in DOMAIN first /\ first[p] = ranked[Grounding!BestAt(ranked, skills[s])]
          /\ IsBestAt(ranked, skills[s], Grounding!BestAt(ranked, skills[s]))
      BY <2>1, <2>2, <1>9, <1>12, <1>13
    <3> QED
      BY <3>1 DEF IsBestAt
  <2>3. CASE p \notin DOMAIN taken
    <3>1. Len(first) >= limit /\ \A k \in DOMAIN first : k \in DOMAIN order /\ k < p
      BY <2>1, <2>3, <1>6, <1>7, <1>9, <1>13
    <3>2. ASSUME NEW k \in DOMAIN first
          PROVE  \E e \in 1 .. s - 1 : skills[e].id = first[k].skill
      <4>1. k \in DOMAIN taken /\ taken[k] = order[k] /\ order[k] < s
        BY <2>1, <3>1, <1>6, <1>9, <1>13
      <4>2. taken[k] \in 1 .. s - 1
        BY <4>1, <1>1, <1>2, <1>12
      <4> QED
        BY <4>1, <4>2, <1>12
    <3> QED
      BY <3>1, <3>2
  <2> QED
    BY <2>2, <2>3
<1> QED
  BY <1>4, <1>13, <1>14, <1>15, <1>16 DEF OnePerSkill

\* The rest of the list: cards that are not on it yet, none twice.
LEMMA FilledIs ==
  ASSUME NEW K, NEW ranked \in Seq(K), NEW first \in Seq(K), NEW limit \in Nat,
         \A j, k \in DOMAIN ranked : ranked[j] = ranked[k] => j = k,
         \A j, k \in DOMAIN first : first[j] = first[k] => j = k,
         NEW list, list = Grounding!Filled(ranked, first, limit)
  PROVE  /\ list \in Seq(K) /\ DOMAIN list = 1 .. Len(list) /\ Len(list) >= Len(first)
         /\ \A k \in DOMAIN first : k \in DOMAIN list /\ list[k] = first[k]
         /\ Len(first) >= limit => list = first
         /\ \A j, k \in DOMAIN list : list[j] = list[k] => j = k
<1> DEFINE others == {i \in DOMAIN ranked : ranked[i] \notin Elements(first)}
<1>1. /\ DOMAIN ranked = 1 .. Len(ranked) /\ Len(ranked) \in Nat
      /\ DOMAIN first = 1 .. Len(first) /\ Len(first) \in Nat
      /\ \A i \in DOMAIN ranked : ranked[i] \in K
      /\ \A k \in DOMAIN first : first[k] \in K /\ first[k] \in Elements(first)
  BY LenProperties, ElementOfSeq DEF Elements
<1>2. IsFiniteSet(others)
  <2>1. IsFiniteSet(1 .. Len(ranked))
    BY <1>1, PlacesFinite
  <2>2. others \in SUBSET (1 .. Len(ranked))
    BY <1>1
  <2> QED
    BY <2>1, <2>2, FS_Subset
<1>3. \A i \in others : i \in DOMAIN ranked /\ i \in Int /\ ranked[i] \notin Elements(first)
  BY <1>1
<1> HIDE DEF others
<1>4. PICK rest : rest = Grounding!Ascending(others)
  OBVIOUS
<1>5. /\ rest \in Seq(others) /\ DOMAIN rest = 1 .. Len(rest) /\ Len(rest) \in Nat
      /\ \A j, k \in DOMAIN rest : j < k => rest[j] < rest[k]
      /\ \A k \in DOMAIN rest : rest[k] \in others
  BY <1>2, <1>3, <1>4, AscendingIs, ElementOfSeq, LenProperties
<1>6. PICK taken : taken = Grounding!FirstOf(rest, limit - Len(first))
  OBVIOUS
<1>7. /\ taken \in Seq(others) /\ DOMAIN taken = 1 .. Len(taken) /\ Len(taken) \in Nat
      /\ limit - Len(first) < 1 => Len(taken) = 0
      /\ \A k \in DOMAIN taken : k \in DOMAIN rest /\ taken[k] = rest[k]
  BY <1>1, <1>5, <1>6, FirstOfIs, LenProperties
<1>8. PICK added : added = [k \in DOMAIN taken |-> ranked[taken[k]]]
  OBVIOUS
<1>9. \A k \in DOMAIN taken :
        /\ taken[k] \in others /\ taken[k] \in DOMAIN ranked /\ taken[k] \in Int /\ k \in Int
        /\ added[k] = ranked[taken[k]] /\ added[k] \in K /\ added[k] \notin Elements(first)
  BY <1>1, <1>3, <1>5, <1>7, <1>8
<1>10. added \in Seq(K) /\ DOMAIN added = 1 .. Len(added) /\ Len(added) = Len(taken)
  <2>1. added \in [1 .. Len(taken) -> K]
    BY <1>7, <1>8, <1>9
  <2>2. added \in Seq(K) /\ DOMAIN added = 1 .. Len(taken)
    <3>1. Len(taken) \in Nat
      BY <1>7
    <3> QED
      BY <2>1, <3>1, SeqDef
  <2>3. DOMAIN added = 1 .. Len(added) /\ Len(added) \in Nat
    BY <2>2, LenProperties
  <2> QED
    BY <2>2, <2>3, <1>7
<1>11. \A j, k \in DOMAIN added : added[j] = added[k] => j = k
  <2> SUFFICES ASSUME NEW j \in DOMAIN added, NEW k \in DOMAIN added, added[j] = added[k]
               PROVE  j = k
    OBVIOUS
  <2>1. j \in DOMAIN taken /\ k \in DOMAIN taken
    BY <1>7, <1>10
  <2>2. taken[j] = taken[k]
    BY <2>1, <1>9
  <2>3. /\ j \in DOMAIN rest /\ k \in DOMAIN rest /\ rest[j] = rest[k]
        /\ j \in Int /\ k \in Int /\ rest[j] \in Int
    BY <2>1, <2>2, <1>7, <1>9
  <2> QED
    BY <2>3, <1>5
<1>13. list = first \o added
  BY <1>4, <1>6, <1>8, SameElements, Zenon DEF Grounding!Filled, others
<1>14. /\ list \in Seq(K) /\ Len(list) = Len(first) + Len(added)
       /\ \A k \in 1 .. Len(list) :
             list[k] = IF k <= Len(first) THEN first[k] ELSE added[k - Len(first)]
  <2>1. /\ first \o added \in Seq(K) /\ Len(first \o added) = Len(first) + Len(added)
        /\ \A k \in 1 .. Len(first) + Len(added) :
              (first \o added)[k] = IF k <= Len(first) THEN first[k]
                                    ELSE added[k - Len(first)]
    <3>1. added \in Seq(K)
      BY <1>10
    <3> QED
      BY <3>1, ConcatProperties
  <2> QED
    BY <2>1, <1>13
<1>15. DOMAIN list = 1 .. Len(list) /\ Len(added) \in Nat
  BY <1>10, <1>14, LenProperties
<1>16. Len(first) >= limit => list = first
  <2>1. ASSUME Len(first) >= limit PROVE list = first
    <3>1. Len(added) = 0
      BY <2>1, <1>1, <1>7, <1>10
    <3>2. added = <<>>
      BY <3>1, <1>10, EmptySeq
    <3> QED
      BY <3>2, <1>13, ConcatEmptySeq
  <2> QED
    BY <2>1
<1>17. \A j, k \in DOMAIN list : list[j] = list[k] => j = k
  <2> SUFFICES ASSUME NEW j \in DOMAIN list, NEW k \in DOMAIN list, list[j] = list[k],
                      j <= k
               PROVE  j = k
    BY <1>15
  <2>1. j \in 1 .. Len(first) + Len(added) /\ k \in 1 .. Len(first) + Len(added)
    BY <1>14, <1>15
  <2>2. CASE k <= Len(first)
    BY <2>1, <2>2, <1>1, <1>14, <1>15
  <2>3. CASE j <= Len(first) /\ k > Len(first)
    <3>1. j \in DOMAIN first /\ k - Len(first) \in DOMAIN added
      BY <2>1, <2>3, <1>1, <1>10, <1>15
    <3>2. list[j] = first[j] /\ list[k] = added[k - Len(first)]
      BY <2>1, <2>3, <1>1, <1>14, <1>15
    <3>3. first[j] \in Elements(first) /\ added[k - Len(first)] \notin Elements(first)
      BY <3>1, <1>1, <1>7, <1>9, <1>10
    <3> QED
      BY <3>2, <3>3
  <2>4. CASE j > Len(first)
    <3>1. j - Len(first) \in DOMAIN added /\ k - Len(first) \in DOMAIN added
      BY <2>1, <2>4, <1>1, <1>10, <1>15
    <3>2. added[j - Len(first)] = added[k - Len(first)]
      BY <2>1, <2>4, <1>1, <1>14, <1>15
    <3>3. j - Len(first) = k - Len(first)
      BY <3>1, <3>2, <1>11
    <3> QED
      BY <2>1, <3>3, <1>1, <1>15
  <2> QED
    BY <2>1, <2>2, <2>3, <2>4, <1>1, <1>15
<1> QED
  BY <1>1, <1>10, <1>14, <1>15, <1>16, <1>17

\* SkillsRepresented for one selection from the cards K.
Represented(K, skills, cards, signals, files, limit) ==
    \A s \in DOMAIN skills : \A card \in K : card.skill = skills[s].id =>
       \/ \E c \in Elements(cards) :
             /\ c \in K /\ c.skill = skills[s].id
             /\ \A other \in K : other.skill = skills[s].id =>
                   Grounding!CardScore(c, files, signals)
                     >= Grounding!CardScore(other, files, signals)
       \/ /\ Len(cards) >= limit
          /\ \A c \in Elements(cards) :
                /\ \E e \in 1 .. s - 1 : skills[e].id = c.skill
                /\ \A other \in Elements(cards) \ {c} : other.skill # c.skill

\* Skills and cards of the manifest, none twice.
FromManifest(m, h) ==
    /\ h.skills \in Seq(Elements(m.skills)) /\ Grounding!Distinct(h.skills)
    /\ h.cards \in Seq(Elements(m.cards)) /\ Grounding!Distinct(h.cards)

\* The whole selection: every skill that has a card is represented.
LEMMA SelectIs ==
  ASSUME NEW m \in Manifests, Grounding!Acceptable(m), NEW r \in RouteNames, NEW files,
         NEW checks, NEW measured
  PROVE  LET h == Grounding!Select(m, files, checks, measured, r)
             K == Grounding!Candidates(m, h.skills, files, h.signals, r)
         IN  /\ FromManifest(m, h)
             /\ Elements(h.cards) \subseteq K
             /\ Represented(K, h.skills, h.cards, h.signals, files, m.max_cards[r])
<1>1. PICK signals : signals = Grounding!SignalsOf(files, checks, measured)
  OBVIOUS
<1>2. PICK skills :
        skills = Grounding!FirstOf(Grounding!RankedSkills(m, signals, r), m.max_skills[r])
  OBVIOUS
<1>3a. PICK K : K = Grounding!Candidates(m, skills, files, signals, r)
  OBVIOUS
<1>3b. PICK score : score = [card \in K |-> Grounding!CardScore(card, files, signals)]
  OBVIOUS
<1>3c. PICK limit : limit = m.max_cards[r]
  OBVIOUS
<1>3. PICK ranked : ranked = Grounding!Ranked(score)
  OBVIOUS
<1>4. PICK first : first = Grounding!BestOfEachSkill(ranked, skills, limit)
  OBVIOUS
<1>5. PICK cards : cards = Grounding!Filled(ranked, first, limit)
  OBVIOUS
<1>6. PICK h : h = Grounding!Select(m, files, checks, measured, r)
  OBVIOUS
<1>7. h.signals = signals /\ h.skills = skills /\ h.cards = cards
  BY <1>1, <1>2, <1>3, <1>3a, <1>3b, <1>3c, <1>4, <1>5, <1>6, Zenon DEF Grounding!Select
<1>8. /\ skills \in Seq(Elements(m.skills)) /\ DOMAIN skills = 1 .. Len(skills)
      /\ Grounding!Distinct(skills)
  BY <1>2, SkillsAre
<1>9. /\ K \subseteq Elements(m.cards)
      /\ ranked \in Seq(K) /\ DOMAIN ranked = 1 .. Len(ranked)
      /\ \A a \in K : \E k \in DOMAIN ranked : ranked[k] = a
      /\ \A j, k \in DOMAIN ranked : j < k => score[ranked[j]] >= score[ranked[k]]
      /\ \A j, k \in DOMAIN ranked : ranked[j] = ranked[k] => j = k
      /\ \A a \in K : score[a] \in Int
  <2>1. DOMAIN score = K
    BY <1>3b
  <2>2. \A card \in K : score[card] = Grounding!CardScore(card, files, signals)
    BY <1>3b
  <2> QED
    BY <2>1, <2>2, <1>3, <1>3a, CardsRanked
<1>10. limit \in Nat
  BY <1>3c, ManifestIs
<1>11. /\ first \in Seq(K) /\ DOMAIN first = 1 .. Len(first)
       /\ OnePerSkill(ranked, skills, limit, first)
  <2>1. ranked \in Seq(K)
    BY <1>9
  <2>2. skills \in Seq(Elements(m.skills)) /\ Grounding!Distinct(skills)
    BY <1>8
  <2> QED
    BY <2>1, <2>2, <1>4, <1>10, BestOfEachSkillIs
<1>12. /\ cards \in Seq(K) /\ DOMAIN cards = 1 .. Len(cards)
       /\ \A k \in DOMAIN first : k \in DOMAIN cards /\ cards[k] = first[k]
       /\ Len(first) >= limit => cards = first
       /\ \A j, k \in DOMAIN cards : cards[j] = cards[k] => j = k
  <2>1. ranked \in Seq(K) /\ \A j, k \in DOMAIN ranked : ranked[j] = ranked[k] => j = k
    BY <1>9
  <2>2. first \in Seq(K) /\ \A j, k \in DOMAIN first : first[j] = first[k] => j = k
    BY <1>11 DEF OnePerSkill
  <2> QED
    BY <2>1, <2>2, <1>5, <1>10, FilledIs
<1>13. \A card \in Elements(cards) : card \in K
  BY <1>12, ElementOfSeq DEF Elements
<1>14. FromManifest(m, h)
  <2>1. cards \in Seq(Elements(m.cards))
    BY <1>9, <1>12, SeqMonotonic
  <2>2. Grounding!Distinct(cards)
    BY <2>1, <1>12, DistinctIds, ItemsDistinct
  <2> QED
    BY <2>1, <2>2, <1>7, <1>8 DEF FromManifest
<1>15. ASSUME NEW s \in DOMAIN skills, NEW card \in K, card.skill = skills[s].id
       PROVE  \/ \E c \in Elements(cards) :
                    /\ c \in K /\ c.skill = skills[s].id
                    /\ \A other \in K :
                          other.skill = skills[s].id =>
                             Grounding!CardScore(c, files, signals)
                               >= Grounding!CardScore(other, files, signals)
              \/ /\ Len(cards) >= limit
                 /\ \A c \in Elements(cards) :
                       /\ \E e \in 1 .. s - 1 : skills[e].id = c.skill
                       /\ \A other \in Elements(cards) \ {c} : other.skill # c.skill
  <2>1. \E i \in DOMAIN ranked : ranked[i].skill = skills[s].id
    BY <1>9, <1>15
  <2>2. CASE \E k \in DOMAIN first, i \in DOMAIN ranked :
               IsBestAt(ranked, skills[s], i) /\ first[k] = ranked[i]
    <3>1. PICK k \in DOMAIN first, i \in DOMAIN ranked :
             IsBestAt(ranked, skills[s], i) /\ first[k] = ranked[i]
      BY <2>2
    <3>2. ranked[i] \in Elements(cards) /\ ranked[i] \in K
      BY <3>1, <1>9, <1>12, ElementOfSeq DEF Elements
    <3>3. ASSUME NEW other \in K, other.skill = skills[s].id
          PROVE  Grounding!CardScore(ranked[i], files, signals)
                   >= Grounding!CardScore(other, files, signals)
      <4>1. PICK j \in DOMAIN ranked : ranked[j] = other
        BY <1>9
      <4>2. ~ (j < i)
        BY <3>1, <3>3, <4>1, <1>9 DEF IsBestAt
      <4>3. j = i \/ i < j
        BY <4>2, <1>9
      <4>4. score[ranked[i]] \in Int
        BY <3>2, <1>9
      <4>5. score[ranked[i]] >= score[other]
        BY <4>1, <4>3, <4>4, <1>9
      <4> QED
        BY <4>5, <3>2, <1>3b
    <3>4. ranked[i].skill = skills[s].id
      BY <3>1 DEF IsBestAt
    <3> QED
      BY <3>2, <3>3, <3>4
  <2>3. CASE Len(first) >= limit /\ \A k \in DOMAIN first :
                \E e \in 1 .. s - 1 : skills[e].id = first[k].skill
    <3>1. cards = first
      BY <2>3, <1>12
    <3>2. Len(cards) >= limit
      BY <2>3, <3>1
    <3>3. \A c \in Elements(cards) : \E e \in 1 .. s - 1 : skills[e].id = c.skill
      BY <2>3, <3>1 DEF Elements
    <3>4. \A c \in Elements(cards) : \A other \in Elements(cards) \ {c} :
             other.skill # c.skill
      BY <3>1, <1>11 DEF Elements, OnePerSkill
    <3> QED
      BY <3>2, <3>3, <3>4
  <2> QED
    BY <2>1, <2>2, <2>3, <1>11 DEF OnePerSkill
<1>16. Represented(K, skills, cards, signals, files, limit)
  BY <1>15 DEF Represented
<1> QED
  BY <1>3a, <1>3c, <1>6, <1>7, <1>13, <1>14, <1>16

-----------------------------------------------------------------------------
(* The dicts of build_prompt *)

Earlier(p, q) == p[1] < q[1] \/ (p[1] = q[1] /\ p[2] < q[2])
IsPlace(p) == p[1] \in Int /\ p[2] \in Int /\ p = <<p[1], p[2]>>

\* Places in lists are in a linear order.
LEMMA PlacesInOrder ==
  ASSUME NEW Q, IsFiniteSet(Q), \A p \in Q : IsPlace(p),
         NEW before, DOMAIN before = Q, \A p \in Q : before[p] = {q \in Q : Earlier(q, p)}
  PROVE  Linear(before)
<1>1. \A p, q \in Q : q \in before[p] <=> Earlier(q, p)
  OBVIOUS
<1>2. \A p \in Q : before[p] \subseteq Q /\ p \notin before[p]
  BY DEF Earlier, IsPlace
<1>3. \A p, q, r \in Q : Earlier(q, p) /\ Earlier(r, q) => Earlier(r, p)
  BY DEF Earlier, IsPlace
<1>4. \A p, q \in Q : p # q => Earlier(p, q) \/ Earlier(q, p)
  BY DEF Earlier, IsPlace
<1>5. \A p, q \in Q : q \in before[p] => before[q] \subseteq before[p]
  BY <1>1, <1>2, <1>3
<1> QED
  BY <1>1, <1>2, <1>4, <1>5 DEF Linear

\* There is a first and a last one of finitely many places.
LEMMA Extremes ==
  ASSUME NEW Q, IsFiniteSet(Q), \A p \in Q : IsPlace(p), Q # {}
  PROVE  /\ \E p \in Q : \A q \in Q : ~ Earlier(q, p)
         /\ \E p \in Q : \A q \in Q : ~ Earlier(p, q)
<1>1. PICK before : before = [p \in Q |-> {q \in Q : Earlier(q, p)}]
  OBVIOUS
<1>2. DOMAIN before = Q /\ \A p \in Q : before[p] = {q \in Q : Earlier(q, p)}
  BY <1>1
<1>3. PICK list : list = Grounding!InOrder(before)
  OBVIOUS
<1>4. InOrderOf(before, list)
  BY <1>2, <1>3, PlacesInOrder, InOrderIs
<1>5. /\ list \in Seq(Q) /\ DOMAIN list = 1 .. Len(list) /\ Len(list) \in Nat
      /\ \A a \in Q : \E k \in DOMAIN list : list[k] = a
      /\ \A j, k \in DOMAIN list : j < k => Earlier(list[j], list[k])
  BY <1>2, <1>4, ElementOfSeq, LenProperties DEF InOrderOf
<1>6. \A p, q \in Q : ~ (Earlier(p, q) /\ Earlier(q, p)) /\ ~ Earlier(p, p)
  BY DEF Earlier, IsPlace
<1>7. 1 \in DOMAIN list /\ Len(list) \in DOMAIN list
  BY <1>5
<1>8. list[1] \in Q /\ list[Len(list)] \in Q
  BY <1>5, <1>7, ElementOfSeq
<1>9. \A q \in Q : ~ Earlier(q, list[1]) /\ ~ Earlier(list[Len(list)], q)
  <2> TAKE q \in Q
  <2>1. PICK k \in DOMAIN list : list[k] = q
    BY <1>5
  <2>2. (k = 1 \/ 1 < k) /\ (k = Len(list) \/ k < Len(list))
    BY <1>5
  <2> QED
    BY <2>1, <2>2, <1>5, <1>6, <1>7, <1>8
<1> QED
  BY <1>8, <1>9

\* Two items that have the same key.
SameKey(fields, x, y) == \A f \in fields : x[f] = y[f]

\* The items of all lists, one for each key.
AreValues(list, lists, n, fields) ==
    /\ \A k \in DOMAIN list : \E l \in 1 .. n : \E i \in DOMAIN lists[l] :
          list[k] = lists[l][i]
    /\ \A l \in 1 .. n : \A i \in DOMAIN lists[l] : \E k \in DOMAIN list :
          SameKey(fields, list[k], lists[l][i])
    /\ \A j, k \in DOMAIN list : SameKey(fields, list[j], list[k]) => j = k

\* Values gives one item for each key.
LEMMA ValuesAre ==
  ASSUME NEW S, NEW n \in Nat, NEW lists, DOMAIN lists = 1 .. n,
         \A l \in 1 .. n : lists[l] \in Seq(S), NEW fields,
         NEW list, list = Grounding!Values(lists, fields)
  PROVE  list \in Seq(S) /\ AreValues(list, lists, n, fields)
<1> DEFINE places == UNION {{l} \X DOMAIN lists[l] : l \in DOMAIN lists}
           item(p) == lists[p[1]][p[2]]
           same(p) == {q \in places : \A f \in fields : item(q)[f] = item(p)[f]}
           last(p) == CHOOSE q \in same(p) : \A r \in same(p) : ~ Earlier(q, r)
           firsts == {p \in places : \A q \in same(p) : ~ Earlier(q, p)}
           before == [p \in firsts |-> {q \in firsts : Earlier(q, p)}]
           order == Grounding!InOrder(before)
<1>5. list = [k \in DOMAIN order |-> item(last(order[k]))]
  BY DEF Grounding!Values, Earlier
<1>1. places = UNION {{l} \X DOMAIN lists[l] : l \in DOMAIN lists}
  OBVIOUS
<1>2. firsts = {p \in places : \A q \in same(p) : ~ Earlier(q, p)}
  OBVIOUS
<1>3. DOMAIN before = firsts /\ \A p \in firsts : before[p] = {q \in firsts : Earlier(q, p)}
  OBVIOUS
<1>4. order = Grounding!InOrder(before)
  OBVIOUS
<1> HIDE DEF order, before, firsts, places
<1>6. \A l \in 1 .. n : /\ DOMAIN lists[l] = 1 .. Len(lists[l]) /\ Len(lists[l]) \in Nat
                        /\ \A i \in DOMAIN lists[l] : lists[l][i] \in S
  BY LenProperties, ElementOfSeq
<1>7. \A p \in places : /\ IsPlace(p) /\ p[1] \in 1 .. n /\ p[2] \in DOMAIN lists[p[1]]
                        /\ item(p) \in S
  BY <1>1, <1>6 DEF IsPlace
<1>8. \A l \in 1 .. n : \A i \in DOMAIN lists[l] : <<l, i>> \in places
  BY <1>1
<1>9. IsFiniteSet(places)
  <2>1. PICK part : part = [l \in 1 .. n |-> {l} \X DOMAIN lists[l]]
    OBVIOUS
  <2>2. PICK parts : parts = {part[l] : l \in 1 .. n}
    OBVIOUS
  <2>3. IsFiniteSet(1 .. n)
    BY PlacesFinite
  <2>4. part \in Surjection(1 .. n, parts)
    BY <2>1, <2>2 DEF Surjection
  <2>5. IsFiniteSet(parts)
    BY <2>3, <2>4, FS_Surjection
  <2>6. \A l \in 1 .. n : IsFiniteSet({l}) /\ IsFiniteSet(DOMAIN lists[l])
    BY <1>6, PlacesFinite, FS_Singleton
  <2>7. ASSUME NEW p \in parts PROVE IsFiniteSet(p)
    <3>1. PICK l \in 1 .. n : p = {l} \X DOMAIN lists[l]
      BY <2>1, <2>2
    <3>2. IsFiniteSet({l}) /\ IsFiniteSet(DOMAIN lists[l])
      BY <2>6
    <3> QED
      BY <3>1, <3>2, FS_Product
  <2>8. places = UNION parts
    BY <1>1, <2>1, <2>2
  <2> QED
    BY <2>5, <2>7, <2>8, FS_UNION
<1>10. \A p \in places :
         p \in same(p) /\ IsFiniteSet(same(p)) /\ \A q \in same(p) : IsPlace(q)
  <2> TAKE p \in places
  <2>1. same(p) \in SUBSET places /\ p \in same(p)
    OBVIOUS
  <2> HIDE DEF same
  <2> QED
    BY <2>1, <1>7, <1>9, FS_Subset
<1>11. \A p, q \in places : q \in same(p) <=> SameKey(fields, item(q), item(p))
  BY DEF SameKey
<1>12. \A p \in places : last(p) \in same(p)
  <2> TAKE p \in places
  <2> HIDE DEF same
  <2>1. \E q \in same(p) : \A r \in same(p) : ~ Earlier(q, r)
    BY <1>10, Extremes
  <2> QED
    BY <2>1
<1>13. \A p \in places : \E q \in firsts : q \in same(p)
  <2> TAKE p \in places
  <2>1. PICK q \in same(p) : \A r \in same(p) : ~ Earlier(r, q)
    <3> HIDE DEF same
    <3> QED
      BY <1>10, Extremes
  <2>2. same(q) = same(p)
    BY <2>1
  <2> QED
    BY <1>2, <2>1, <2>2
<1>14. \A p, q \in firsts : q \in same(p) => p = q
  <2> SUFFICES ASSUME NEW p \in firsts, NEW q \in firsts, q \in same(p) PROVE p = q
    OBVIOUS
  <2>1. ~ Earlier(q, p) /\ ~ Earlier(p, q) /\ p \in places /\ q \in places
    BY <1>2
  <2> QED
    BY <2>1, <1>7 DEF Earlier, IsPlace
<1>15. firsts \subseteq places /\ IsFiniteSet(firsts) /\ \A p \in firsts : IsPlace(p)
  BY <1>2, <1>7, <1>9, FS_Subset
<1>16. \A p, q \in places : item(last(p)) \in S /\ SameKey(fields, item(last(p)), item(p))
  BY <1>7, <1>11, <1>12
<1>17. \A p \in places : last(p) \in places
  BY <1>12
<1> HIDE DEF same, last, item
<1>18. InOrderOf(before, order)
  BY <1>3, <1>4, <1>15, PlacesInOrder, InOrderIs
<1>19. /\ order \in Seq(firsts) /\ DOMAIN order = 1 .. Len(order) /\ Len(order) \in Nat
       /\ \A p \in firsts : \E k \in DOMAIN order : order[k] = p
       /\ \A k \in DOMAIN order : order[k] \in firsts
       /\ \A j, k \in DOMAIN order : order[j] = order[k] => j = k
  BY <1>3, <1>18, ElementOfSeq, LenProperties DEF InOrderOf
<1>20. DOMAIN list = DOMAIN order /\ \A k \in DOMAIN order :
         /\ list[k] = item(last(order[k])) /\ list[k] \in S
         /\ last(order[k]) \in places /\ order[k] \in places
         /\ SameKey(fields, list[k], item(order[k]))
  BY <1>5, <1>15, <1>16, <1>17, <1>19
<1>21. list \in Seq(S)
  <2>1. list \in [1 .. Len(order) -> S]
    BY <1>5, <1>19, <1>20
  <2>2. Len(order) \in Nat
    BY <1>19
  <2> QED
    BY <2>1, <2>2, SeqDef
<1>22. \A k \in DOMAIN list : \E l \in 1 .. n : \E i \in DOMAIN lists[l] :
          list[k] = lists[l][i]
  BY <1>7, <1>20 DEF item
<1>23. \A l \in 1 .. n : \A i \in DOMAIN lists[l] : \E k \in DOMAIN list :
          SameKey(fields, list[k], lists[l][i])
  <2> TAKE l \in 1 .. n
  <2> TAKE i \in DOMAIN lists[l]
  <2>1. <<l, i>> \in places /\ item(<<l, i>>) = lists[l][i]
    BY <1>8 DEF item
  <2>2. PICK q \in firsts : q \in same(<<l, i>>)
    BY <2>1, <1>13
  <2>3. PICK k \in DOMAIN order : order[k] = q
    BY <1>19
  <2>4. SameKey(fields, list[k], item(q)) /\ SameKey(fields, item(q), item(<<l, i>>))
    BY <2>1, <2>2, <2>3, <1>11, <1>15, <1>20
  <2>5. SameKey(fields, list[k], lists[l][i])
    BY <2>1, <2>4 DEF SameKey
  <2>6. k \in DOMAIN list
    BY <1>20
  <2> QED
    BY <2>5, <2>6
<1>24. \A j, k \in DOMAIN list : SameKey(fields, list[j], list[k]) => j = k
  <2> SUFFICES ASSUME NEW j \in DOMAIN order, NEW k \in DOMAIN order,
                      SameKey(fields, list[j], list[k])
               PROVE  j = k
    BY <1>20
  <2>1. SameKey(fields, item(order[k]), item(order[j]))
    BY <1>20 DEF SameKey
  <2>2. order[k] \in same(order[j])
    BY <2>1, <1>11, <1>20
  <2> QED
    BY <2>2, <1>14, <1>19
<1>25. AreValues(list, lists, n, fields)
  BY <1>22, <1>23, <1>24, Zenon DEF AreValues
<1> QED
  BY <1>21, <1>25

-----------------------------------------------------------------------------
(* What a review rests on *)

Chunks(r) == Elements(r.policies) \cup Elements(r.indexed)

\* The file in a place of a request, and the files of a batch, as the prompt shows them.
FileAs(r, place, cut) ==
    LET left(words) == {w \in words : <<place, w>> \notin cut}
    IN  [r.files[place] EXCEPT !.patch = left(@), !.removed = left(@)]
ShownAs(r, batch) == [i \in DOMAIN batch.files |-> FileAs(r, batch.files[i], batch.cut)]

\* What was selected for a batch.
SelectedFor(r, m, name, batch) ==
    LET files == Elements(ShownAs(r, batch))
        h == batch.harness
        K == Grounding!Candidates(m, h.skills, files, h.signals, name)
    IN  /\ Elements(h.cards) \subseteq K
        /\ Represented(K, h.skills, h.cards, h.signals, files, m.max_cards[name])

\* A batch of files of the request, with its skills, cards and policies.
GoodBatch(r, m, name, batch) ==
    /\ Elements(batch.files) \subseteq DOMAIN r.files
    /\ FromManifest(m, batch.harness)
    /\ SelectedFor(r, m, name, batch)
    /\ batch.policies \in Seq(Chunks(r))

\* The repository's own sections that are missing in a list score no more than those in it.
OwnKept(list, chunks, query) ==
    \A chunk \in chunks : Grounding!IsOwn(chunk) /\ Grounding!Shared(chunk, query) > 0 =>
        \/ chunk \in Elements(list)
        \/ \A other \in Elements(list) :
              Grounding!Score(other, query) >= Grounding!Score(chunk, query)

HarnessFields == {"signals", "skills", "cards", "policy_types", "candidate_policy_types"}

\* What is assumed of a request.
LEMMA RequestIs ==
  ASSUME NEW r \in Requests
  PROVE  /\ \A chunk \in Chunks(r) : IsChunk(chunk)
         /\ r.policies \in Seq(Chunks(r)) /\ r.indexed \in Seq(Chunks(r))
         /\ \A place \in DOMAIN r.files :
               {"path", "patch", "removed"} \subseteq DOMAIN r.files[place]
<1>1. /\ r.policies \in Seq(Elements(r.policies)) /\ r.indexed \in Seq(Elements(r.indexed))
      /\ \A file \in Elements(r.files) : {"path", "patch", "removed"} \subseteq DOMAIN file
      /\ \A chunk \in Chunks(r) : IsChunk(chunk)
  BY GroundingAssumption, SameElements, SameFinite, SameCardinality
  DEF Grounding!GroundingAssumption, Chunks, IsChunk
<1>2. Elements(r.policies) \subseteq Chunks(r) /\ Elements(r.indexed) \subseteq Chunks(r)
  BY DEF Chunks
<1>3. r.policies \in Seq(Chunks(r)) /\ r.indexed \in Seq(Chunks(r))
  BY <1>1, <1>2, SeqMonotonic
<1> QED
  BY <1>1, <1>3 DEF Elements

\* One ranking.
LEMMA RankingKeepsOwn ==
  ASSUME NEW C, \A c \in C : IsChunk(c), NEW chunks \in Seq(C),
         NEW query, NEW top \in Nat, NEW types,
         NEW list, list = Grounding!RankPolicyChunks(chunks, query, top, types)
  PROVE  list \in Seq(C) /\ OwnKept(list, Elements(chunks), query)
<1>1. list \in Seq(C) /\ IsRanking(list, chunks, query, top, types)
  BY RankingIs
<1>2. \A i \in DOMAIN chunks :
        Grounding!IsOwn(chunks[i]) /\ Grounding!Shared(chunks[i], query) > 0 =>
           i \in RelevantAt(chunks, query, types)
  BY DEF RelevantAt, Grounding!Relevant
<1> QED
  BY <1>1, <1>2 DEF IsRanking, OwnKept, Elements, AllScore

\* The list of the elements of one list and of another.
Joined(s, t, joined) ==
    /\ \A i \in DOMAIN s : i \in DOMAIN joined /\ joined[i] = s[i]
    /\ \A k \in DOMAIN t : \E j \in DOMAIN joined : joined[j] = t[k]
    /\ \E I \in SUBSET DOMAIN joined :
          /\ Cardinality(I) = Len(t)
          /\ \A j \in I : \E k \in DOMAIN t : joined[j] = t[k]

\* It has the elements of both.
LEMMA JoinedLists ==
  ASSUME NEW S, NEW s \in Seq(S), NEW t \in Seq(S), NEW joined, joined = s \o t
  PROVE  joined \in Seq(S) /\ Joined(s, t, joined)
<1>1. PICK m \in Nat : m = Len(s) /\ DOMAIN s = 1 .. m
  BY LenProperties
<1>2. PICK n \in Nat : n = Len(t) /\ DOMAIN t = 1 .. n
  BY LenProperties
<1>3. /\ joined \in Seq(S) /\ Len(joined) = m + n
      /\ \A i \in 1 .. m + n : joined[i] = IF i <= m THEN s[i] ELSE t[i - m]
  <2>1. /\ s \o t \in Seq(S) /\ Len(s \o t) = Len(s) + Len(t)
        /\ \A i \in 1 .. Len(s) + Len(t) :
              (s \o t)[i] = IF i <= Len(s) THEN s[i] ELSE t[i - Len(s)]
    BY ConcatProperties
  <2> QED
    BY <2>1, <1>1, <1>2
<1>4. DOMAIN joined = 1 .. m + n
  BY <1>3, LenProperties
<1>5. \A i \in 1 .. m : i \in DOMAIN joined /\ joined[i] = s[i]
  BY <1>3, <1>4
<1>6. \A k \in 1 .. n : m + k \in DOMAIN joined /\ joined[m + k] = t[k]
  BY <1>3, <1>4
<1>7. PICK I : I = m + 1 .. m + n
  OBVIOUS
<1>8. Cardinality(I) = n
  <2>1. Cardinality(I) = IF m + 1 > m + n THEN 0 ELSE (m + n) - (m + 1) + 1
    <3>1. m + 1 \in Int /\ m + n \in Int
      OBVIOUS
    <3>2. \A a, b \in Int : Cardinality(a .. b) = IF a > b THEN 0 ELSE b - a + 1
      BY FS_Interval
    <3> QED
      BY <3>1, <3>2, <1>7
  <2> QED
    BY <2>1
<1>9. \A j \in I : j \in DOMAIN joined /\ \E k \in 1 .. n : joined[j] = t[k]
  <2> TAKE j \in I
  <2>1. j \in Int /\ j - m \in 1 .. n /\ ~ (j <= m) /\ j \in 1 .. m + n
    BY <1>7
  <2> QED
    BY <2>1, <1>3, <1>4
<1>10. I \in SUBSET DOMAIN joined /\ Cardinality(I) = Len(t)
         /\ \A j \in I : \E k \in DOMAIN t : joined[j] = t[k]
  BY <1>2, <1>8, <1>9
<1>11. \A k \in DOMAIN t : \E j \in DOMAIN joined : joined[j] = t[k]
  BY <1>2, <1>6
<1> QED
  BY <1>1, <1>3, <1>5, <1>10, <1>11 DEF Joined

\* The two rankings of the retrieval, of the index and of what it returned.
LEMMA RetrievalKeepsOwn ==
  ASSUME NEW r \in Requests, NEW query, NEW types,
         NEW found, found = Grounding!RankPolicyChunks(r.indexed, query, CandidateTop, types),
         NEW list, list = Grounding!RankPolicyChunks(r.policies \o found, query,
                                                     CandidateTop, types)
  PROVE  list \in Seq(Chunks(r)) /\ OwnKept(list, Chunks(r), query)
<1>0. CandidateTop \in Nat
  BY GroundingAssumption DEF Grounding!GroundingAssumption
<1>1. PICK C : C = Chunks(r)
  OBVIOUS
<1>2. (\A c \in C : IsChunk(c)) /\ r.policies \in Seq(C) /\ r.indexed \in Seq(C)
  BY <1>1, RequestIs
<1>3. found \in Seq(C) /\ IsRanking(found, r.indexed, query, CandidateTop, types)
  BY <1>0, <1>2, RankingIs
<1>4. PICK joined : joined = r.policies \o found
  OBVIOUS
<1>5. joined \in Seq(C)
  BY <1>2, <1>3, <1>4, ConcatProperties
<1>6. list \in Seq(C) /\ IsRanking(list, joined, query, CandidateTop, types)
  BY <1>0, <1>2, <1>4, <1>5, RankingIs
<1>7. OwnKept(list, Elements(joined), query)
  BY <1>0, <1>2, <1>4, <1>5, RankingKeepsOwn
<1>8. PICK ours : ours = r.policies
  OBVIOUS
<1>9. Joined(ours, found, joined)
  <2>1. ours \in Seq(C) /\ joined = ours \o found
    BY <1>2, <1>4, <1>8
  <2>2. found \in Seq(C)
    BY <1>3
  <2> QED
    BY <2>1, <2>2, JoinedLists
<1>10. Elements(r.policies) \subseteq Elements(joined)
       /\ Elements(found) \subseteq Elements(joined)
  BY <1>8, <1>9 DEF Elements, Joined
<1>11. ASSUME NEW n \in Nat, Len(found) = CandidateTop, AllScore(found, query, n)
       PROVE  AllScore(list, query, n)
  <2>1. PICK I \in SUBSET DOMAIN joined :
            /\ Cardinality(I) = Len(found)
            /\ \A j \in I : \E k \in DOMAIN found : joined[j] = found[k]
    BY <1>9 DEF Joined
  <2>2. \A k \in DOMAIN found : /\ Grounding!Relevant(found[k], query, types)
                                /\ Grounding!Score(found[k], query) >= n
    BY <1>3, <1>11 DEF IsRanking, RelevantAt, AllScore
  <2>3. \A j \in I : /\ j \in RelevantAt(joined, query, types)
                     /\ Grounding!Score(joined[j], query) >= n
    BY <2>1, <2>2 DEF RelevantAt
  <2>4. I \in SUBSET RelevantAt(joined, query, types) /\ Cardinality(I) >= CandidateTop
    BY <2>1, <2>3, <1>0, <1>11
  <2> QED
    BY <2>3, <2>4, <1>6 DEF IsRanking
<1>12. ASSUME NEW chunk \in Elements(r.indexed), Grounding!IsOwn(chunk),
              Grounding!Shared(chunk, query) > 0
       PROVE  \/ chunk \in Elements(found)
              \/ /\ Len(found) = CandidateTop
                 /\ AllScore(found, query, Grounding!Score(chunk, query))
  <2>1. PICK i \in DOMAIN r.indexed : chunk = r.indexed[i]
    BY DEF Elements
  <2>2. i \in RelevantAt(r.indexed, query, types)
    BY <2>1, <1>12 DEF RelevantAt, Grounding!Relevant
  <2> QED
    BY <2>1, <2>2, <1>3, <1>12 DEF IsRanking, Elements
<1>13. \A n : AllScore(list, query, n) <=>
            \A other \in Elements(list) : Grounding!Score(other, query) >= n
  BY DEF AllScore, Elements
<1>14. \A chunk \in Elements(r.indexed) : Grounding!Score(chunk, query) \in Nat
  BY <1>1, <1>2, ScoreIs DEF Chunks
<1>15. OwnKept(list, Chunks(r), query)
  BY <1>7, <1>10, <1>11, <1>12, <1>13, <1>14 DEF OwnKept, Chunks
<1> QED
  BY <1>1, <1>6, <1>15

IsList(list) == list \in Seq(Elements(list))

\* What Append makes of a list.
LEMMA ListProperties ==
  ASSUME NEW list, IsList(list)
  PROVE  /\ Len(list) \in Nat /\ DOMAIN list = 1 .. Len(list)
         /\ \A x : /\ IsList(Append(list, x))
                   /\ Len(Append(list, x)) = Len(list) + 1
                   /\ \A i \in 1 .. Len(list) : Append(list, x)[i] = list[i]
                   /\ Append(list, x)[Len(list) + 1] = x
<1>1. Len(list) \in Nat /\ DOMAIN list = 1 .. Len(list)
  BY LenProperties DEF IsList
<1>2. ASSUME NEW x
      PROVE  /\ IsList(Append(list, x))
             /\ Len(Append(list, x)) = Len(list) + 1
             /\ \A i \in 1 .. Len(list) : Append(list, x)[i] = list[i]
             /\ Append(list, x)[Len(list) + 1] = x
  <2> DEFINE S == Elements(list) \cup {x}
             longer == Append(list, x)
  <2>1. list \in Seq(S) /\ x \in S
    <3>1. Elements(list) \subseteq S
      OBVIOUS
    <3> HIDE DEF S
    <3>2. list \in Seq(S)
      BY <3>1, SeqMonotonic DEF IsList
    <3> QED
      BY <3>2 DEF S
  <2>2. /\ longer \in Seq(S) /\ Len(longer) = Len(list) + 1
        /\ \A i \in 1 .. Len(list) : longer[i] = list[i]
        /\ longer[Len(list) + 1] = x
    BY <2>1, AppendProperties
  <2>3. longer \in [1 .. Len(longer) -> Elements(longer)]
    BY <2>2, LenProperties DEF Elements
  <2>4. Len(longer) \in Nat
    BY <1>1, <2>2
  <2> HIDE DEF longer
  <2>5. longer \in Seq(Elements(longer))
    BY <2>3, <2>4, SeqDef
  <2> QED
    BY <2>2, <2>5 DEF IsList, longer
<1> QED
  BY <1>1, <1>2

-----------------------------------------------------------------------------
(* The invariant of the choices *)

ChosenInv ==
    /\ request \in Requests /\ manifest \in Manifests
    /\ node \in {"start", "refused", "select_route", "analyze_complexity", "select_harness",
                 "retrieve", "skip", "build_prompt", "call_llm"}
    /\ route \in [name : RouteNames, use_rag : BOOLEAN]
    /\ node \notin {"start", "refused"} => Grounding!Acceptable(manifest)
    /\ node = "skip" => ~route.use_rag
    /\ DOMAIN harness = HarnessFields /\ FromManifest(manifest, harness)
    /\ policies \in Seq(Chunks(request))

BatchesInv ==
    /\ IsList(batches)
    /\ node \notin {"build_prompt", "call_llm"} => batches = <<>>
    /\ \A batch \in Elements(batches) : GoodBatch(request, manifest, route.name, batch)

OwnInv ==
    node = "build_prompt" =>
        /\ route.use_rag =>
              OwnKept(policies, Chunks(request),
                      Grounding!QueryWords(request.words, request.files))
        /\ \A batch \in Elements(batches) :
              OwnKept(batch.policies, Elements(policies),
                      Grounding!QueryWords(request.words, ShownAs(request, batch)))

GroundingInv == ChosenInv /\ BatchesInv /\ OwnInv /\ Grounding!OfferedIsKnown

\* The routes of the two modules.
LEMMA SameRoutes == Grounding!RouteNames = RouteNames
BY DEF Grounding!RouteNames, RouteNames, Grounding!Failure, Failure, Grounding!Standard,
   Standard, Grounding!Deep, Deep

\* What is selected, with the manifest of a service that runs.
LEMMA SelectForIs ==
  ASSUME ChosenInv, node \notin {"start", "refused"}, NEW files, NEW measured,
         NEW h, h = Grounding!SelectFor(files, measured)
  PROVE  /\ DOMAIN h = HarnessFields /\ FromManifest(manifest, h)
         /\ LET K == Grounding!Candidates(manifest, h.skills, files, h.signals, route.name) IN
            /\ Elements(h.cards) \subseteq K
            /\ Represented(K, h.skills, h.cards, h.signals, files,
                           manifest.max_cards[route.name])
<1>1. manifest \in Manifests /\ Grounding!Acceptable(manifest) /\ route.name \in RouteNames
  BY DEF ChosenInv
<1>2. h = Grounding!Select(manifest, files, request.checks, measured, route.name)
  BY DEF Grounding!SelectFor
<1>3. DOMAIN h = HarnessFields
  BY <1>2 DEF Grounding!Select, HarnessFields
<1> QED
  BY <1>1, <1>2, <1>3, SelectIs

\* What one turn of the loop of build_review_prompt_batches gives.
LEMMA BatchIs ==
  ASSUME ChosenInv, node = "build_prompt", NEW files, NEW cut,
         Elements(files) \subseteq DOMAIN request.files,
         NEW batch, batch = Grounding!Batch(files, cut)
  PROVE  /\ GoodBatch(request, manifest, route.name, batch)
         /\ OwnKept(batch.policies, Elements(policies),
                    Grounding!QueryWords(request.words, ShownAs(request, batch)))
<1>1. PICK kept : kept = [i \in DOMAIN files |-> Grounding!Kept(files[i], cut)]
  OBVIOUS
<1>2. PICK own : own = Grounding!SelectFor(Elements(kept),
                            {m \in metrics : m.file \in Elements(files)})
  OBVIOUS
<1>3. PICK query : query = Grounding!QueryWords(request.words, kept)
  OBVIOUS
<1>4. PICK list : list = IF route.use_rag
                           THEN Grounding!RankPolicyChunks(policies, query,
                                   manifest.max_policies_per_batch, own.policy_types)
                           ELSE policies
  OBVIOUS
<1>5. batch = [files |-> files, cut |-> cut, harness |-> own, policies |-> list]
  BY <1>1, <1>2, <1>3, <1>4, SameElements, Zenon DEF Grounding!Batch
<1>6. batch.files = files /\ batch.cut = cut /\ batch.harness = own /\ batch.policies = list
  BY <1>5
<1>7. ShownAs(request, batch) = kept
  BY <1>1, <1>6 DEF ShownAs, FileAs, Grounding!Kept
<1>8. /\ FromManifest(manifest, own)
      /\ SelectedFor(request, manifest, route.name, batch)
  BY <1>2, <1>6, <1>7, SelectForIs DEF SelectedFor
<1>9. list \in Seq(Chunks(request)) /\ OwnKept(list, Elements(policies), query)
  <2>1. /\ policies \in Seq(Chunks(request)) /\ request \in Requests
        /\ manifest.max_policies_per_batch \in Nat
    BY ManifestIs DEF ChosenInv
  <2>2. \A chunk \in Chunks(request) : IsChunk(chunk)
    BY <2>1, RequestIs
  <2>3. CASE route.use_rag
    <3>1. list = Grounding!RankPolicyChunks(policies, query,
                     manifest.max_policies_per_batch, own.policy_types)
      BY <1>4, <2>3
    <3> QED
      BY <2>1, <2>2, <3>1, RankingKeepsOwn
  <2>4. CASE ~ route.use_rag
    <3>1. list = policies
      BY <1>4, <2>4
    <3> QED
      BY <2>1, <3>1 DEF OwnKept
  <2> QED
    BY <2>3, <2>4
<1> QED
  BY <1>3, <1>6, <1>7, <1>8, <1>9 DEF GoodBatch

\* Nothing is said about batches before there are any.
LEMMA NoBatches ==
  ASSUME batches = <<>>, node # "build_prompt" \/ ~route.use_rag
  PROVE  BatchesInv /\ OwnInv /\ Grounding!OfferedIsKnown
<1>1. IsList(batches) /\ Elements(batches) = {} /\ DOMAIN batches = {}
  BY EmptySeq DEF IsList, Elements
<1> QED
  BY <1>1 DEF BatchesInv, OwnInv, Grounding!OfferedIsKnown

\* The invariant holds at the start of the service.
LEMMA GroundingStarts == Grounding!Init => GroundingInv
<1> SUFFICES ASSUME Grounding!Init PROVE GroundingInv
  OBVIOUS
<1> USE DEF Grounding!Init
<1>1. BatchesInv /\ OwnInv /\ Grounding!OfferedIsKnown
  BY NoBatches
<1>2. \A S : <<>> \in Seq(S)
  BY EmptySeq
<1>3. FromManifest(manifest, harness) /\ DOMAIN harness = HarnessFields
  BY <1>2 DEF FromManifest, Grounding!NoHarness, Grounding!Distinct, HarnessFields
<1>4. route \in [name : RouteNames, use_rag : BOOLEAN]
  BY SameRoutes DEF Grounding!RouteNames
<1> QED
  BY <1>1, <1>2, <1>3, <1>4 DEF GroundingInv, ChosenInv

\* The steps up to the prompt.
LEMMA EarlySteps ==
  ASSUME GroundingInv,
         \/ Grounding!Start \/ Grounding!ChooseRoute \/ Grounding!AnalyzeComplexityNode
         \/ Grounding!SelectHarness \/ Grounding!RetrievePolicies
         \/ Grounding!SkipPolicyRetrieval
  PROVE  GroundingInv'
<1>1. /\ batches = <<>> /\ batches' = <<>> /\ node' # "call_llm"
      /\ request' = request /\ manifest' = manifest
  BY DEF Grounding!Start, Grounding!ChooseRoute, Grounding!AnalyzeComplexityNode,
     Grounding!SelectHarness, Grounding!RetrievePolicies, Grounding!SkipPolicyRetrieval,
     GroundingInv, BatchesInv
<1>2. BatchesInv' /\ Grounding!OfferedIsKnown'
  <2>1. batches' \in Seq(Elements(batches')) /\ Elements(batches') = {}
    BY <1>1, EmptySeq DEF Elements
  <2> QED
    BY <1>1, <2>1 DEF BatchesInv, IsList, Grounding!OfferedIsKnown
<1>3. ChosenInv
  BY DEF GroundingInv
<1>4. CASE Grounding!Start
  <2>1. ChosenInv'
    BY <1>3, <1>4 DEF Grounding!Start, ChosenInv
  <2>2. OwnInv'
    BY <1>4 DEF Grounding!Start, OwnInv
  <2> QED
    BY <1>2, <2>1, <2>2 DEF GroundingInv
<1>5. CASE Grounding!ChooseRoute
  <2>1. route' \in [name : RouteNames, use_rag : BOOLEAN]
    BY <1>5 DEF Grounding!ChooseRoute, Grounding!SelectRoute, Grounding!ExtractFeatures,
       RouteNames, Grounding!Failure, Grounding!Deep, Grounding!Standard, Failure, Deep,
       Standard
  <2>2. ChosenInv'
    BY <1>3, <1>5, <2>1 DEF Grounding!ChooseRoute, ChosenInv
  <2>3. OwnInv'
    BY <1>5 DEF Grounding!ChooseRoute, OwnInv
  <2> QED
    BY <1>2, <2>2, <2>3 DEF GroundingInv
<1>6. CASE Grounding!AnalyzeComplexityNode
  <2>1. ChosenInv'
    BY <1>3, <1>6 DEF Grounding!AnalyzeComplexityNode, ChosenInv
  <2>2. OwnInv'
    BY <1>6 DEF Grounding!AnalyzeComplexityNode, OwnInv
  <2> QED
    BY <1>2, <2>1, <2>2 DEF GroundingInv
<1>7. CASE Grounding!SelectHarness
  <2>1. harness' = Grounding!SelectFor(Elements(request.files), metrics)
    BY <1>7, SameElements DEF Grounding!SelectHarness
  <2>2. DOMAIN harness' = HarnessFields /\ FromManifest(manifest, harness')
    BY <1>3, <1>7, <2>1, SelectForIs DEF Grounding!SelectHarness
  <2>3. ChosenInv'
    BY <1>3, <1>7, <2>2 DEF Grounding!SelectHarness, ChosenInv
  <2>4. OwnInv'
    BY <1>7 DEF Grounding!SelectHarness, OwnInv
  <2> QED
    BY <1>2, <2>3, <2>4 DEF GroundingInv
<1>8. CASE Grounding!RetrievePolicies
  <2>1. PICK query : query = Grounding!QueryWords(request.words, request.files)
    OBVIOUS
  <2>2. PICK types : types = harness.candidate_policy_types
    OBVIOUS
  <2>3. PICK found :
           found = Grounding!RankPolicyChunks(request.indexed, query, CandidateTop, types)
    OBVIOUS
  <2>4. policies' = Grounding!RankPolicyChunks(request.policies \o found, query,
                                               CandidateTop, types)
    BY <1>8, <2>1, <2>2, <2>3 DEF Grounding!RetrievePolicies
  <2>5. policies' \in Seq(Chunks(request)) /\ OwnKept(policies', Chunks(request), query)
    BY <1>3, <2>3, <2>4, RetrievalKeepsOwn DEF ChosenInv
  <2>6. ChosenInv'
    BY <1>3, <1>8, <2>5 DEF Grounding!RetrievePolicies, ChosenInv
  <2>7. OwnInv'
    <3>1. Elements(batches') = {}
      BY <1>1 DEF Elements
    <3> QED
      BY <1>1, <2>1, <2>5, <3>1 DEF OwnInv
  <2> QED
    BY <1>2, <2>6, <2>7 DEF GroundingInv
<1>9. CASE Grounding!SkipPolicyRetrieval
  <2>1. ~ (route').use_rag
    BY <1>3, <1>9 DEF Grounding!SkipPolicyRetrieval, ChosenInv
  <2>2. policies' \in Seq(Chunks(request))
    BY <1>9, EmptySeq DEF Grounding!SkipPolicyRetrieval
  <2>3. ChosenInv'
    BY <1>3, <1>9, <2>2 DEF Grounding!SkipPolicyRetrieval, ChosenInv
  <2>4. OwnInv'
    <3>1. Elements(batches') = {}
      BY <1>1 DEF Elements
    <3> QED
      BY <2>1, <3>1 DEF OwnInv
  <2> QED
    BY <1>2, <2>3, <2>4 DEF GroundingInv
<1> QED
  BY <1>4, <1>5, <1>6, <1>7, <1>8, <1>9

\* A batch is put on the list.
LEMMA BuildBatchStep ==
  ASSUME GroundingInv, Grounding!BuildBatch
  PROVE  GroundingInv'
<1>1. /\ node = "build_prompt"
      /\ UNCHANGED <<request, manifest, node, route, metrics, harness, policies>>
      /\ ChosenInv /\ BatchesInv /\ OwnInv
  BY DEF Grounding!BuildBatch, GroundingInv
<1>2. PICK files, cut :
         /\ files \in Grounding!Arrangements(Grounding!Places \ Grounding!InBatches)
         /\ batches' = Append(batches, Grounding!Batch(files, cut))
  BY DEF Grounding!BuildBatch
<1>3. PICK batch : batch = Grounding!Batch(files, cut)
  OBVIOUS
<1>4. Elements(files) \subseteq DOMAIN request.files
  BY <1>2 DEF Grounding!Arrangements, Grounding!Places, Elements
<1>5. /\ GoodBatch(request, manifest, route.name, batch)
      /\ OwnKept(batch.policies, Elements(policies),
                 Grounding!QueryWords(request.words, ShownAs(request, batch)))
  BY <1>1, <1>3, <1>4, BatchIs
<1>6. /\ IsList(batches') /\ \A b \in Elements(batches') : b = batch \/ b \in Elements(batches)
  <2>1. IsList(batches) /\ batches' = Append(batches, batch)
    BY <1>1, <1>2, <1>3 DEF BatchesInv
  <2>2. /\ Len(batches) \in Nat /\ DOMAIN batches = 1 .. Len(batches)
        /\ IsList(batches') /\ Len(batches') = Len(batches) + 1
        /\ DOMAIN batches' = 1 .. Len(batches')
        /\ \A i \in 1 .. Len(batches) : batches'[i] = batches[i]
        /\ batches'[Len(batches) + 1] = batch
    BY <2>1, ListProperties
  <2> QED
    BY <2>2 DEF Elements
<1>7. ChosenInv'
  BY <1>1 DEF ChosenInv
<1>8. BatchesInv'
  BY <1>1, <1>5, <1>6 DEF BatchesInv
<1>9. OwnInv'
  BY <1>1, <1>5, <1>6 DEF OwnInv
<1>10. Grounding!OfferedIsKnown'
  BY <1>1 DEF Grounding!OfferedIsKnown
<1> QED
  BY <1>7, <1>8, <1>9, <1>10 DEF GroundingInv

\* The list of the items of all batches, or else of the whole request, has each id once,
\* and every id of a batch.
LEMMA AppliedItems ==
  ASSUME NEW S, NEW n \in Nat, NEW lists, DOMAIN lists = 1 .. n,
         \A l \in 1 .. n : lists[l] \in Seq(S),
         NEW default \in Seq(S), Grounding!Distinct(default),
         NEW list, list = Grounding!OrElse(Grounding!Values(lists, {"id"}), default)
  PROVE  /\ list \in Seq(S) /\ Grounding!Distinct(list)
         /\ \A l \in 1 .. n : Grounding!Ids(lists[l]) \subseteq Grounding!Ids(list)
<1>1. PICK values : values = Grounding!Values(lists, {"id"})
  OBVIOUS
<1>0. values \in Seq(S) /\ AreValues(values, lists, n, {"id"})
  BY <1>1, ValuesAre
<1>2. /\ values \in Seq(S)
      /\ \A l \in 1 .. n : \A i \in DOMAIN lists[l] : \E k \in DOMAIN values :
            SameKey({"id"}, values[k], lists[l][i])
      /\ \A j, k \in DOMAIN values : SameKey({"id"}, values[j], values[k]) => j = k
  BY <1>0 DEF AreValues
<1>3. \A x, y : SameKey({"id"}, x, y) <=> x.id = y.id
  BY DEF SameKey
<1>4. Grounding!Distinct(values)
  BY <1>2, <1>3 DEF Grounding!Distinct
<1>5. list \in Seq(S) /\ Grounding!Distinct(list)
  BY <1>1, <1>2, <1>4 DEF Grounding!OrElse
<1>6. \A l \in 1 .. n : Grounding!Ids(lists[l]) \subseteq Grounding!Ids(values)
  BY <1>2, <1>3 DEF Grounding!Ids, Grounding!Elements
<1>7. CASE values = <<>>
  <2>1. Grounding!Ids(values) = {}
    BY <1>7 DEF Grounding!Ids, Grounding!Elements
  <2> QED
    BY <1>5, <1>6, <2>1
<1>8. CASE values # <<>>
  BY <1>1, <1>5, <1>6, <1>8 DEF Grounding!OrElse
<1> QED
  BY <1>7, <1>8

\* What the batches were given is put together.
LEMMA BuildPromptStep ==
  ASSUME GroundingInv, Grounding!BuildPrompt
  PROVE  GroundingInv'
<1>1. /\ node' = "call_llm" /\ UNCHANGED <<request, manifest, route, metrics, batches>>
      /\ node = "build_prompt" /\ ChosenInv /\ BatchesInv
  BY DEF Grounding!BuildPrompt, GroundingInv
<1>2. PICK n \in Nat : DOMAIN batches = 1 .. n
  <2>1. IsList(batches)
    BY <1>1 DEF BatchesInv
  <2> QED
    BY <2>1, ListProperties
<1>3. \A b \in 1 .. n : GoodBatch(request, manifest, route.name, batches[b])
  BY <1>1, <1>2 DEF BatchesInv, Elements
<1>4. PICK skills : skills = Grounding!OrElse(Grounding!Values(Grounding!SkillsGiven, {"id"}),
                                             harness.skills)
  OBVIOUS
<1>5. PICK cards : cards = Grounding!OrElse(Grounding!Values(Grounding!CardsGiven, {"id"}),
                                           harness.cards)
  OBVIOUS
<1>6. PICK offered : offered = Grounding!Values(Grounding!PoliciesGiven, {"source", "section"})
  OBVIOUS
<1>7. harness' = [harness EXCEPT !.skills = skills, !.cards = cards,
                     !.policy_types = Grounding!PolicyTypes(Grounding!Elements(skills))]
  BY <1>4, <1>5 DEF Grounding!BuildPrompt, Grounding!Applied
<1>8. DOMAIN harness' = HarnessFields /\ harness'.skills = skills /\ harness'.cards = cards
  BY <1>1, <1>7 DEF ChosenInv, HarnessFields
<1>9. policies' = offered
  BY <1>6 DEF Grounding!BuildPrompt
<1>10. skills \in Seq(Elements(manifest.skills)) /\ Grounding!Distinct(skills)
  <2>1. PICK lists : lists = Grounding!SkillsGiven
    OBVIOUS
  <2>2. DOMAIN lists = 1 .. n /\ \A l \in 1 .. n : lists[l] = batches[l].harness.skills
    BY <1>2, <2>1 DEF Grounding!SkillsGiven
  <2>3. \A l \in 1 .. n : lists[l] \in Seq(Elements(manifest.skills))
    BY <1>3, <2>2 DEF GoodBatch, FromManifest
  <2>4. harness.skills \in Seq(Elements(manifest.skills)) /\ Grounding!Distinct(harness.skills)
    BY <1>1 DEF ChosenInv, FromManifest
  <2> QED
    BY <1>4, <2>1, <2>2, <2>3, <2>4, AppliedItems
<1>11. /\ cards \in Seq(Elements(manifest.cards)) /\ Grounding!Distinct(cards)
       /\ \A b \in 1 .. n : Grounding!Ids(batches[b].harness.cards) \subseteq Grounding!Ids(cards)
  <2>1. PICK lists : lists = Grounding!CardsGiven
    OBVIOUS
  <2>2. DOMAIN lists = 1 .. n /\ \A l \in 1 .. n : lists[l] = batches[l].harness.cards
    BY <1>2, <2>1 DEF Grounding!CardsGiven
  <2>3. \A l \in 1 .. n : lists[l] \in Seq(Elements(manifest.cards))
    BY <1>3, <2>2 DEF GoodBatch, FromManifest
  <2>4. harness.cards \in Seq(Elements(manifest.cards)) /\ Grounding!Distinct(harness.cards)
    BY <1>1 DEF ChosenInv, FromManifest
  <2>5. /\ cards \in Seq(Elements(manifest.cards)) /\ Grounding!Distinct(cards)
        /\ \A l \in 1 .. n : Grounding!Ids(lists[l]) \subseteq Grounding!Ids(cards)
    BY <1>5, <2>1, <2>2, <2>3, <2>4, AppliedItems
  <2> QED
    BY <2>2, <2>5
<1>12. /\ offered \in Seq(Chunks(request))
       /\ \A b \in 1 .. n : \A i \in DOMAIN batches[b].policies : \E k \in DOMAIN offered :
             SameKey({"source", "section"}, offered[k], batches[b].policies[i])
  <2>1. PICK lists : lists = Grounding!PoliciesGiven
    OBVIOUS
  <2>2. DOMAIN lists = 1 .. n /\ \A l \in 1 .. n : lists[l] = batches[l].policies
    BY <1>2, <2>1 DEF Grounding!PoliciesGiven
  <2>3. \A l \in 1 .. n : lists[l] \in Seq(Chunks(request))
    BY <1>3, <2>2 DEF GoodBatch
  <2>4. offered \in Seq(Chunks(request)) /\ AreValues(offered, lists, n, {"source", "section"})
    BY <1>6, <2>1, <2>2, <2>3, ValuesAre
  <2> QED
    BY <2>2, <2>4 DEF AreValues
<1>13. Grounding!OfferedIsKnown'
  <2>1. ASSUME NEW b \in 1 .. n, NEW c \in Grounding!Elements(batches[b].policies)
        PROVE  \E known \in Grounding!Elements(offered) :
                  Grounding!Section(known) = Grounding!Section(c)
    <3>1. PICK i \in DOMAIN batches[b].policies : c = batches[b].policies[i]
      BY DEF Grounding!Elements
    <3>2. PICK k \in DOMAIN offered : SameKey({"source", "section"}, offered[k], c)
      BY <1>12, <3>1
    <3> QED
      BY <3>2 DEF SameKey, Grounding!Section, Grounding!Elements
  <2>2. \A b \in 1 .. n : {Grounding!Section(c) : c \in Grounding!Elements(batches[b].policies)}
                             \subseteq {Grounding!Section(c) : c \in Grounding!Elements(offered)}
    BY <2>1
  <2> QED
    BY <1>1, <1>2, <1>8, <1>9, <1>11, <2>2 DEF Grounding!OfferedIsKnown
<1>14. ChosenInv'
  BY <1>1, <1>8, <1>9, <1>10, <1>11, <1>12 DEF ChosenInv, FromManifest
<1>15. BatchesInv'
  BY <1>1 DEF BatchesInv
<1>16. OwnInv'
  BY <1>1 DEF OwnInv
<1> QED
  BY <1>13, <1>14, <1>15, <1>16 DEF GroundingInv

\* No step breaks the invariant.
LEMMA GroundingStep == GroundingInv /\ [GroundedNext]_all => GroundingInv'
<1> SUFFICES ASSUME GroundingInv, [GroundedNext]_all PROVE GroundingInv'
  OBVIOUS
<1>1. CASE Grounding!Next
  BY <1>1, EarlySteps, BuildBatchStep, BuildPromptStep DEF Grounding!Next
<1>2. CASE UNCHANGED grounding
  BY <1>2 DEF grounding, GroundingInv, ChosenInv, BatchesInv, OwnInv, IsList,
     Grounding!OfferedIsKnown
<1> QED
  BY <1>1, <1>2 DEF GroundedNext, Ground, ValidateFindings, all

\* The invariant of the choices holds always.
LEMMA GroundingInvariance == GroundedSpec => []GroundingInv
<1>1. GroundedInit => GroundingInv
  BY GroundingStarts DEF GroundedInit
<1> QED
  BY <1>1, GroundingStep, PTL DEF GroundedSpec

-----------------------------------------------------------------------------
(* One finding *)

\* What is corrected, and what stays.
LEMMA NormalizedFields ==
  ASSUME NEW f \in Answers
  PROVE  LET n == Normalized(f) IN
         /\ n.file = f.file /\ n.card = f.card /\ n.symbol = f.symbol
         /\ n.message = f.message
         /\ n.severity = Severity(f) /\ n.start = LineStart(f) /\ n.end = LineEnd(f)
BY AnswersAssumption DEF Normalized

\* The lines a finding names are counted lines of its file.
LinesCounted(f) ==
    f.start # 0 => {f.start, f.end} \subseteq RightSideDiffLines(f.file)

\* A finding about complexity agrees with a measurement.
ComplexityMeasured(f) ==
    KnownCard(f) /\ Cards[f.card].complexity => Measured(f)

\* A finding can be ranked, and is not above the cap of its card.
Capped(f) ==
    /\ {f.severity, f.confidence, f.file, f.start} \subseteq Int
    /\ KnownCard(f) => f.severity >= Cards[f.card].cap

\* A finding of the review, which cites a policy that was given or none.
Formed(f) ==
    /\ DOMAIN f = Fields
    /\ f.severity \in Severities /\ f.confidence \in 0 .. 1
    /\ f.source = NoSource \/ \E p \in Elements(given.policies) : f.source = Citation(p)

Right(f) ==
    /\ f.file \in given.files
    /\ LinesCounted(f) /\ ComplexityMeasured(f) /\ Capped(f) /\ Formed(f)

\* The source of a finding is the first of the policies that match.
LEMMA SourceIs ==
  ASSUME NEW f, given.policies \in Seq(Elements(given.policies))
  PROVE  Source(f) = NoSource \/ \E p \in Elements(given.policies) : Source(f) = Citation(p)
<1> SUFFICES ASSUME Matching(f) # {}
             PROVE  \E p \in Elements(given.policies) : Source(f) = Citation(p)
  BY DEF Source
<1>1. DOMAIN given.policies = 1 .. Len(given.policies) /\ Len(given.policies) \in Nat
  BY LenProperties
<1>2. IsFiniteSet(Matching(f)) /\ \A i \in Matching(f) : i \in Int
  <2>1. Matching(f) \in SUBSET (1 .. Len(given.policies))
    BY <1>1 DEF Matching
  <2>2. IsFiniteSet(1 .. Len(given.policies))
    BY <1>1, PlacesFinite
  <2>3. IsFiniteSet(Matching(f))
    BY <2>1, <2>2, FS_Subset
  <2> QED
    BY <2>1, <2>3
<1>3. PICK first : first = CHOOSE i \in Matching(f) : \A j \in Matching(f) : i <= j
  OBVIOUS
<1>4. first \in Matching(f)
  <2>1. \E least \in Matching(f) : \A n \in Matching(f) : least <= n
    BY <1>2, LeastOf
  <2> QED
    BY <1>3, <2>1
<1>5. Source(f) = Citation(given.policies[first])
  BY <1>3 DEF Source
<1> QED
  BY <1>4, <1>5 DEF Matching, Elements

\* A finding that passes the checks is right once it is normalized.
LEMMA NormalizedRight ==
  ASSUME given.cards \subseteq DOMAIN Cards, given.policies \in Seq(Elements(given.policies)),
         NEW f \in Answers, Passes(f)
  PROVE  Right(Normalized(f))
<1> DEFINE n == Normalized(f)
<1>1. /\ n.file = f.file /\ n.card = f.card /\ n.symbol = f.symbol
      /\ n.severity = Severity(f) /\ n.start = LineStart(f) /\ n.end = LineEnd(f)
  BY NormalizedFields
<1> HIDE DEF n
<1>2. LinesCounted(n)
  BY <1>1 DEF LinesCounted, LineStart, LineEnd, OffDiff
<1>3. ComplexityMeasured(n)
  <2>1. ~ Fails(f, "invalid_complexity_evidence_dropped")
    <3>1. 7 \in DOMAIN Checks /\ Checks[7] = "invalid_complexity_evidence_dropped"
      BY DEF Checks
    <3> QED
      BY <3>1 DEF Passes
  <2>2. KnownCard(f) /\ Cards[f.card].complexity => Measured(f)
    BY <2>1 DEF Fails
  <2> QED
    BY <1>1, <2>2 DEF ComplexityMeasured, KnownCard, Measured
<1>4. Capped(n)
  <2>1. KnownCard(n) = KnownCard(f)
    BY <1>1 DEF KnownCard
  <2>2. f.severity \in 0 .. 2 /\ {f.confidence, f.file, f.start} \subseteq Nat
    BY AnswersAssumption DEF Severities
  <2>3. KnownCard(f) => Cards[f.card].cap \in 0 .. 2
    BY QualityAssumption DEF KnownCard, Severities
  <2>4. n.severity = IF KnownCard(f) THEN Lower(f.severity, Cards[f.card].cap) ELSE f.severity
    BY <1>1 DEF Severity
  <2>5. n.severity \in Int /\ (KnownCard(n) => n.severity >= Cards[n.card].cap)
    BY <1>1, <2>1, <2>2, <2>3, <2>4 DEF Lower
  <2>6. n.start \in Int /\ n.file \in Int
    BY <1>1, <2>2 DEF LineStart
  <2>7. n.confidence \in Int
    <3>1. n.confidence = IF f.confidence > 1 THEN 1 ELSE f.confidence
      BY AnswersAssumption DEF Normalized, n
    <3> QED
      BY <2>2, <3>1
  <2> QED
    BY <2>5, <2>6, <2>7 DEF Capped
<1>5. f.file \in given.files
  <2>1. 1 \in DOMAIN Checks /\ Checks[1] = "unknown_file_dropped"
    BY DEF Checks
  <2> QED
    BY <2>1 DEF Passes, Fails
<1>6. Formed(n)
  <2>1. DOMAIN n = Fields
    BY AnswersAssumption DEF n, Normalized, Fields
  <2>2. n.severity \in Severities
    BY <1>1, AnswersAssumption, QualityAssumption DEF Severity, Lower, KnownCard
  <2>3. n.confidence \in 0 .. 1
    <3>1. n.confidence = IF f.confidence > 1 THEN 1 ELSE f.confidence
      BY AnswersAssumption DEF Normalized, n
    <3>2. f.confidence \in Nat
      BY AnswersAssumption
    <3> QED
      BY <3>1, <3>2
  <2>4. n.source = Source(f)
    BY AnswersAssumption DEF Normalized, n
  <2>5. Source(f) = NoSource \/ \E p \in Elements(given.policies) : Source(f) = Citation(p)
    BY SourceIs
  <2> QED
    BY <2>1, <2>2, <2>3, <2>4, <2>5 DEF Formed
<1> QED
  BY <1>1, <1>2, <1>3, <1>4, <1>5, <1>6 DEF Right, n

-----------------------------------------------------------------------------
(* The counters *)

Drops ==
    {"unknown_file_dropped", "empty_finding_dropped", "non_korean_finding_dropped",
     "missing_knowledge_card_dropped", "invalid_knowledge_card_dropped",
     "knowledge_card_guard_dropped", "invalid_complexity_evidence_dropped",
     "duplicate_dropped"}

\* A dropped finding is counted once, a kept one not at all.
LEMMA ReportedOnce ==
  ASSUME report \in [Counters -> Nat], NEW f, NEW i, NEW outcome,
         report' = Reported(f, i, outcome)
  PROVE  /\ report' \in [Counters -> Nat]
         /\ outcome \in Drops => Dropped' = Dropped + 1
         /\ outcome \notin Drops => Dropped' = Dropped
<1>1. /\ report' \in [Counters -> Nat]
      /\ \A c \in Drops : report'[c] = IF c = outcome THEN report[c] + 1 ELSE report[c]
  BY DEF Reported, Noted, Counters, Drops
<1>2. \A c \in Drops : report[c] \in Nat
  BY DEF Drops, Counters
<1> QED
  BY <1>1, <1>2 DEF Dropped, Drops

\* The counters of dropped findings add up to a number.
LEMMA DroppedIsNatural ==
  ASSUME report \in [Counters -> Nat]
  PROVE  Dropped \in Nat
<1>1. \A c \in Drops : report[c] \in Nat
  BY DEF Drops, Counters
<1> QED
  BY <1>1 DEF Dropped, Drops

\* Every check has a counter of dropped findings.
LEMMA ChecksDrop == \A i \in DOMAIN Checks : Checks[i] \in Drops
BY DEF Checks, Drops

-----------------------------------------------------------------------------
(* The invariant *)

\* What has been kept so far.
ValidInv ==
    /\ IsList(valid)
    /\ \A f \in Elements(valid) : Right(f)
    /\ \A i, j \in DOMAIN valid : FindingKey(valid[i]) = FindingKey(valid[j]) => i = j

\* What is returned: the first of those kept, in the order of the ranking.
Returned ==
    \E kept \in 0 .. Len(valid), order \in Orders(valid) :
        accepted = [i \in 1 .. kept |-> valid[order[i]]]

ReportInv ==
    /\ phase \in {"validate", "done"}
    /\ received \in 0 .. MaxAnswers
    /\ report \in [Counters -> Nat]
    /\ Accounted
    /\ phase = "validate" => accepted = <<>>
    /\ phase = "done" => Returned

\* All that could be measured in the files of the request.
Measurements ==
    UNION {AnalyzePythonFile(request.files, place) : place \in DOMAIN request.files}

\* What the findings are judged by.
GroundInv ==
    /\ given = Given
    /\ route.name \in RouteNames
    /\ metrics \subseteq Measurements
    /\ node # "call_llm" => phase = "validate" /\ valid = <<>> /\ accepted = <<>>

IInv == ValidInv /\ ReportInv /\ GroundInv

\* Nothing is wrong with an empty list.
LEMMA EmptyInv ==
  ASSUME valid = <<>>
  PROVE  ValidInv
BY EmptySeq DEF ValidInv, IsList, Elements

\* The invariant of the findings holds at the start.
LEMMA InitInv == GroundedInit => IInv
<1> SUFFICES ASSUME GroundedInit PROVE IInv
  OBVIOUS
<1>1. ValidInv
  BY EmptyInv DEF GroundedInit, Init
<1>2. ReportInv
  BY QualityAssumption DEF GroundedInit, Init, ReportInv, Accounted, Dropped, Counters
<1>3. GroundInv
  BY DEF GroundedInit, Init, GroundInv, Grounding!Init, RouteNames, Standard,
         Grounding!Standard
<1> QED
  BY <1>1, <1>2, <1>3 DEF IInv

-----------------------------------------------------------------------------
(* Steps *)

\* It is not touched before the findings are looked at.
LEMMA GroundStep ==
  ASSUME IInv, Ground
  PROVE  IInv'
<1>1. /\ UNCHANGED <<phase, received, valid, accepted, report>> /\ given' = Given'
      /\ Grounding!Next
  BY DEF Ground
<1>2. node # "call_llm" /\ request' = request
  BY <1>1 DEF Grounding!Next, Grounding!Start, Grounding!ChooseRoute,
     Grounding!AnalyzeComplexityNode, Grounding!SelectHarness, Grounding!RetrievePolicies,
     Grounding!SkipPolicyRetrieval, Grounding!BuildBatch, Grounding!BuildPrompt
<1>3. route'.name \in RouteNames
  <2>1. CASE Grounding!ChooseRoute
    BY <2>1 DEF Grounding!ChooseRoute, Grounding!SelectRoute, RouteNames, Grounding!Failure,
       Grounding!Deep, Grounding!Standard, Failure, Deep, Standard
  <2>2. CASE ~ Grounding!ChooseRoute
    <3>1. route' = route
      BY <1>1, <2>2 DEF Grounding!Next, Grounding!Start,
         Grounding!AnalyzeComplexityNode, Grounding!SelectHarness, Grounding!RetrievePolicies,
         Grounding!SkipPolicyRetrieval, Grounding!BuildBatch, Grounding!BuildPrompt
    <3> QED
      BY <3>1 DEF IInv, GroundInv
  <2> QED
    BY <2>1, <2>2
<1>4. metrics' \subseteq Measurements
  <2>1. CASE Grounding!AnalyzeComplexityNode
    <3>1. metrics' \in {Grounding!AnalyzeComplexity(request.files), {}}
      BY <2>1 DEF Grounding!AnalyzeComplexityNode
    <3>2. Grounding!Attached(request.files) \subseteq DOMAIN request.files
      BY DEF Grounding!Attached
    <3>3. ASSUME NEW place
          PROVE  Grounding!AnalyzePythonFile(request.files, place)
                     = AnalyzePythonFile(request.files, place)
      BY DEF Grounding!AnalyzePythonFile, AnalyzePythonFile, Grounding!PythonFunctions,
         PythonFunctions, Grounding!ComplexityOf, ComplexityOf
    <3> QED
      BY <3>1, <3>2, <3>3 DEF Grounding!AnalyzeComplexity, Measurements
  <2>2. CASE ~ Grounding!AnalyzeComplexityNode
    <3>1. metrics' = metrics
      BY <1>1, <2>2 DEF Grounding!Next, Grounding!Start, Grounding!ChooseRoute,
         Grounding!SelectHarness, Grounding!RetrievePolicies,
         Grounding!SkipPolicyRetrieval, Grounding!BuildBatch, Grounding!BuildPrompt
    <3> QED
      BY <3>1 DEF IInv, GroundInv
  <2> QED
    BY <2>1, <2>2
<1>5. GroundInv'
  BY <1>1, <1>2, <1>3, <1>4 DEF IInv, GroundInv, Measurements
<1>6. ValidInv'
  BY <1>1, <1>2, EmptyInv DEF IInv, GroundInv, ValidInv, IsList, Elements
<1>7. ReportInv'
  BY <1>1, <1>2 DEF IInv, GroundInv, ReportInv, Accounted, Dropped
<1> QED
  BY <1>5, <1>6, <1>7 DEF IInv

\* The loop leaves what the findings are judged by alone.
LEMMA SameGrounds ==
  ASSUME GroundInv, UNCHANGED <<grounding, given>>, node = "call_llm"
  PROVE  /\ GroundInv'
         /\ \A f : Right(f) = Right(f)'
<1>1. GroundInv'
  BY DEF GroundInv, grounding, Given, Elements, Measurements
<1>2. ASSUME NEW f PROVE Right(f) = Right(f)'
  BY DEF Right, LinesCounted, ComplexityMeasured, Capped, Formed, Elements, KnownCard, Measured
<1> QED
  BY <1>1, <1>2

\* A list is a list of its elements.
LEMMA ListOfElements ==
  ASSUME NEW S, NEW list \in Seq(S)
  PROVE  list \in Seq(Elements(list))
<1>1. DOMAIN list = 1 .. Len(list) /\ Len(list) \in Nat /\ list \in [1 .. Len(list) -> S]
  BY LenProperties
<1>2. list \in [1 .. Len(list) -> Elements(list)]
  BY <1>1 DEF Elements
<1> QED
  BY <1>1, <1>2, SeqDef

\* The arguments of validate_and_rank_findings are such as the code can pass.
LEMMA GivenIsOK ==
  ASSUME GroundingInv, given = Given
  PROVE  GivenOK
<1>1. /\ request \in Requests /\ manifest \in Manifests /\ route.name \in RouteNames
      /\ harness.cards \in Seq(Elements(manifest.cards))
      /\ policies \in Seq(Chunks(request))
  BY DEF GroundingInv, ChosenInv, FromManifest
<1>2. given = [files |-> DOMAIN request.files, route |-> route.name,
               cards |-> {card.id : card \in Elements(harness.cards)}, metrics |-> metrics,
               policies |-> given.policies]
  BY DEF Given
<1>3. given.files \subseteq DOMAIN Patches
  BY <1>1, <1>2, GivenAssumption
<1>4. given.cards \subseteq DOMAIN Cards
  <2>1. Elements(harness.cards) \subseteq Elements(manifest.cards)
    BY <1>1, ElementOfSeq DEF Elements
  <2>2. {card.id : card \in Elements(manifest.cards)} \subseteq DOMAIN Cards
    BY <1>1, GivenAssumption, SameElements
  <2> QED
    BY <1>2, <2>1, <2>2
<1>5. given.policies \in Seq([source : {p.source : p \in Elements(given.policies)},
                              section : {p.section : p \in Elements(given.policies)}])
  <2>1. PICK list : list = given.policies
    OBVIOUS
  <2>2. /\ DOMAIN list = DOMAIN policies
        /\ \A i \in DOMAIN list :
              list[i] = [source |-> policies[i].source, section |-> policies[i].section]
    BY <2>1 DEF Given
  <2>3. DOMAIN list = 1 .. Len(policies) /\ Len(policies) \in Nat
    BY <1>1, <2>2, LenProperties
  <2> DEFINE S == [source : {p.source : p \in Elements(list)},
                   section : {p.section : p \in Elements(list)}]
  <2>4. \A i \in DOMAIN list : list[i] \in S
    BY <2>2 DEF Elements
  <2>5. list = [i \in 1 .. Len(policies) |-> list[i]]
    BY <2>1, <2>2, <2>3 DEF Given
  <2> HIDE DEF S
  <2>6. list \in [1 .. Len(policies) -> S]
    BY <2>3, <2>4, <2>5
  <2>7. list \in Seq(S)
    BY <2>3, <2>6, SeqDef
  <2> QED
    BY <2>1, <2>7 DEF S
<1> QED
  BY <1>1, <1>2, <1>3, <1>4, <1>5 DEF GivenOK

\* A finding is dropped and counted.
LEMMA DropStep ==
  ASSUME IInv, NEW f \in Answers, Drop(f) \/ DropDuplicate(f), UNCHANGED grounding,
         node = "call_llm"
  PROVE  IInv'
<1>1. /\ UNCHANGED <<given, phase, accepted, valid>> /\ phase = "validate"
      /\ received' = received + 1 /\ received < MaxAnswers /\ MaxAnswers \in Nat
  BY QualityAssumption DEF Drop, DropDuplicate, Take
<1>2. \E i, outcome : outcome \in Drops /\ report' = Reported(f, i, outcome)
  BY ChecksDrop DEF Drop, DropDuplicate, Drops
<1>3. report' \in [Counters -> Nat] /\ Dropped' = Dropped + 1
  BY <1>2, ReportedOnce DEF IInv, ReportInv
<1>4. Dropped \in Nat /\ Len(valid) \in Nat
  BY ListProperties, DroppedIsNatural DEF IInv, ReportInv, ValidInv
<1>5. ReportInv'
  <2>1. received \in 0 .. MaxAnswers /\ Dropped + Len(valid) = received /\ accepted = <<>>
    BY <1>1 DEF IInv, ReportInv, Accounted
  <2>2. Dropped' + Len(valid') = received' /\ received' \in 0 .. MaxAnswers
    BY <1>1, <1>3, <1>4, <2>1
  <2>3. phase' = "validate" /\ accepted' = <<>>
    BY <1>1, <2>1
  <2>4. Accounted'
    BY <2>2, <2>3 DEF Accounted
  <2> QED
    BY <1>3, <2>2, <2>3, <2>4 DEF ReportInv
<1>6. GroundInv' /\ ValidInv'
  BY <1>1, SameGrounds DEF IInv, ValidInv, Elements, IsList
<1> QED
  BY <1>5, <1>6 DEF IInv

\* A finding is kept.
LEMMA AcceptStep ==
  ASSUME IInv, GivenOK, NEW f \in Answers, Accept(f), UNCHANGED grounding,
         node = "call_llm"
  PROVE  IInv'
<1> DEFINE n == Normalized(f)
<1>1. /\ UNCHANGED <<given, phase, accepted>> /\ phase = "validate"
      /\ received' = received + 1 /\ received < MaxAnswers /\ MaxAnswers \in Nat
      /\ valid' = Append(valid, n)
      /\ ~ Seen(n)
      /\ report' = Reported(f, Len(Checks) + 1, "none")
  BY QualityAssumption DEF Accept, Take
<1>2. report' \in [Counters -> Nat] /\ Dropped' = Dropped
  BY <1>1, ReportedOnce DEF IInv, ReportInv, Drops
<1>3. Dropped \in Nat
  BY DroppedIsNatural DEF IInv, ReportInv
<1>4. Right(n)
  <2>1. given.policies \in Seq(Elements(given.policies))
    BY ListOfElements DEF GivenOK
  <2> QED
    BY <2>1, NormalizedRight DEF Accept, GivenOK
<1> HIDE DEF n
<1>5. /\ Len(valid) \in Nat /\ DOMAIN valid = 1 .. Len(valid)
      /\ IsList(valid') /\ Len(valid') = Len(valid) + 1
      /\ DOMAIN valid' = 1 .. Len(valid) + 1
      /\ \A i \in 1 .. Len(valid) : valid'[i] = valid[i]
      /\ valid'[Len(valid) + 1] = n
  BY <1>1, ListProperties DEF IInv, ValidInv
<1>6. ReportInv'
  <2>1. received \in 0 .. MaxAnswers /\ Dropped + Len(valid) = received /\ accepted = <<>>
    BY <1>1 DEF IInv, ReportInv, Accounted
  <2>2. Dropped' + Len(valid') = received' /\ received' \in 0 .. MaxAnswers
    BY <1>1, <1>2, <1>3, <1>5, <2>1
  <2>3. phase' = "validate" /\ accepted' = <<>>
    BY <1>1, <2>1
  <2>4. Accounted'
    BY <2>2, <2>3 DEF Accounted
  <2> QED
    BY <1>2, <2>2, <2>3, <2>4 DEF ReportInv
<1>7. GroundInv' /\ \A g : Right(g) = Right(g)'
  BY <1>1, SameGrounds DEF IInv
<1>8. \A g \in Elements(valid') : g = n \/ g \in Elements(valid)
  BY <1>5 DEF Elements
<1>9. \A i \in 1 .. Len(valid) : FindingKey(valid[i]) # FindingKey(n)
  BY <1>1, <1>5 DEF Seen, Elements
<1>10. ValidInv'
  <2>1. \A g \in Elements(valid') : Right(g)'
    BY <1>4, <1>7, <1>8 DEF IInv, ValidInv
  <2>2. \A i, j \in DOMAIN valid' : FindingKey(valid'[i]) = FindingKey(valid'[j]) => i = j
    BY <1>5, <1>9 DEF IInv, ValidInv
  <2> QED
    BY <1>5, <2>1, <2>2 DEF ValidInv
<1> QED
  BY <1>6, <1>7, <1>10 DEF IInv

\* The findings are ranked and cut.
LEMMA RankStep ==
  ASSUME IInv, Rank, UNCHANGED grounding, node = "call_llm"
  PROVE  IInv'
<1> DEFINE limit == Limits[given.route]
           kept == IF Len(valid) > limit THEN limit ELSE Len(valid)
<1>1. /\ UNCHANGED <<given, received, valid>> /\ phase = "validate" /\ phase' = "done"
      /\ \E order \in Orders(valid) : accepted' = [i \in 1 .. kept |-> valid[order[i]]]
      /\ report' = [report EXCEPT !["over_limit_dropped"] = Len(valid) - kept,
                                  !["accepted"] = kept]
  BY DEF Rank
<1>2. limit \in Nat
  BY QualityAssumption DEF IInv, GroundInv, Given
<1>3. Len(valid) \in Nat /\ kept \in 0 .. Len(valid)
  BY <1>2, ListProperties DEF IInv, ValidInv
<1> HIDE DEF kept
<1>4. /\ report' \in [Counters -> Nat]
      /\ \A c \in Drops : report'[c] = report[c]
      /\ report'["over_limit_dropped"] = Len(valid) - kept
      /\ report'["accepted"] = kept
  <2>1. /\ {"accepted", "over_limit_dropped"} \subseteq Counters /\ Drops \subseteq Counters
        /\ {"accepted", "over_limit_dropped"} \cap Drops = {}
    BY DEF Counters, Drops
  <2>2. Len(valid) - kept \in Nat /\ kept \in Nat
    BY <1>3
  <2> QED
    BY <1>1, <2>1, <2>2 DEF IInv, ReportInv
<1>5. Dropped \in Nat /\ Dropped' = Dropped
  BY <1>4, DroppedIsNatural DEF IInv, ReportInv, Dropped, Drops
<1>6. Accounted'
  BY <1>1, <1>3, <1>4, <1>5 DEF IInv, ReportInv, Accounted
<1>7. Returned'
  BY <1>1, <1>3 DEF Returned
<1>8. ReportInv'
  BY <1>1, <1>4, <1>6, <1>7 DEF IInv, ReportInv
<1>9. GroundInv' /\ ValidInv'
  BY <1>1, SameGrounds DEF IInv, ValidInv, Elements, IsList
<1> QED
  BY <1>8, <1>9 DEF IInv

\* No step breaks the invariant of the findings.
LEMMA NextInv == IInv /\ GroundingInv /\ [GroundedNext]_all => IInv'
<1> SUFFICES ASSUME IInv, GroundingInv, [GroundedNext]_all PROVE IInv'
  OBVIOUS
<1>0. GivenOK
  BY GivenIsOK DEF IInv, GroundInv
<1>1. CASE Ground
  BY <1>1, GroundStep
<1>2. CASE ValidateFindings
  BY <1>0, <1>2, DropStep, AcceptStep, RankStep DEF ValidateFindings, Next
<1>3. CASE UNCHANGED all
  <2> USE <1>3 DEF all, vars, grounding
  <2>1. ValidInv'
    BY DEF IInv, ValidInv, IsList, Elements, Right, LinesCounted, ComplexityMeasured, Capped,
           Formed, KnownCard, Measured
  <2>2. ReportInv'
    <3>1. /\ phase' = phase /\ received' = received /\ report' = report
          /\ valid' = valid /\ accepted' = accepted
      OBVIOUS
    <3>2. (Accounted <=> Accounted') /\ (Returned <=> Returned')
      BY <3>1 DEF Accounted, Dropped, Returned
    <3> QED
      BY <3>1, <3>2 DEF IInv, ReportInv
  <2>3. GroundInv'
    BY DEF IInv, GroundInv, Given, Elements, Measurements
  <2> QED
    BY <2>1, <2>2, <2>3 DEF IInv
<1> QED
  BY <1>1, <1>2, <1>3 DEF GroundedNext

\* Both invariants hold always.
LEMMA Invariance == GroundedSpec => [](IInv /\ GroundingInv)
  BY InitInv, NextInv, GroundingInvariance, PTL DEF GroundedSpec

-----------------------------------------------------------------------------
(* What is returned *)

\* Nobody is ahead of a finding that is ahead of him, or of himself.
LEMMA BetterIsStrict ==
  ASSUME NEW f, NEW g, Capped(f), Capped(g), Better(f, g)
  PROVE  ~ Better(g, f)
BY DEF Better, Capped

\* No finding has two places in the ranking.
LEMMA RankingKeepsApart ==
  ASSUME ValidInv, NEW order \in Orders(valid), NEW i \in DOMAIN valid, NEW j \in DOMAIN valid,
         order[i] = order[j]
  PROVE  i = j
<1>1. DOMAIN valid = 1 .. Len(valid) /\ Len(valid) \in Nat
  BY ListProperties DEF ValidInv
<1>2. /\ order \in [DOMAIN valid -> DOMAIN valid]
      /\ \A a, b \in DOMAIN valid : a < b =>
            \/ Better(valid[order[a]], valid[order[b]])
            \/ order[a] < order[b]
  BY DEF Orders
<1>4. ASSUME NEW a \in DOMAIN valid, NEW b \in DOMAIN valid, a < b PROVE order[a] # order[b]
  <2>1. order[a] \in Nat /\ order[b] \in Nat
    BY <1>1, <1>2
  <2>2. CASE order[a] < order[b]
    BY <2>1, <2>2
  <2>3. CASE Better(valid[order[a]], valid[order[b]])
    <3>1. SUFFICES ASSUME order[a] = order[b] PROVE FALSE
      OBVIOUS
    <3>2. Capped(valid[order[a]])
      BY <1>2 DEF ValidInv, Elements, Right
    <3> QED
      BY <2>3, <3>1, <3>2, BetterIsStrict
  <2> QED
    BY <1>2, <1>4, <2>2, <2>3
<1>5. i < j \/ j < i \/ i = j
  BY <1>1
<1> QED
  BY <1>4, <1>5

\* Every finding that was kept has its place in the ranking.
LEMMA RankingIsComplete ==
  ASSUME ValidInv, NEW order \in Orders(valid),
         NEW a \in DOMAIN valid
  PROVE  \E i \in DOMAIN valid : order[i] = a
<1> DEFINE D == DOMAIN valid
<1>1. order \in [D -> D]
  BY DEF Orders
<1>2. \A i, j \in D : order[i] = order[j] => i = j
  BY RankingKeepsApart
<1>3. IsFiniteSet(D)
  <2>1. D = 1 .. Len(valid) /\ Len(valid) \in Nat
    BY ListProperties DEF ValidInv
  <2> QED
    BY <2>1, FS_Interval
<1> HIDE DEF D
<1>4. order \in Injection(D, D)
  BY <1>1, <1>2 DEF Injection, IsInjective
<1>5. order \in Surjection(D, D)
  BY <1>3, <1>4, FS_Injection
<1> QED
  BY <1>5 DEF Surjection, D

\* What is returned was kept, each key once, and what was left out is not better.
LEMMA ReturnedIsBest ==
  ASSUME ValidInv, Returned
  PROVE  /\ \A i \in DOMAIN accepted : accepted[i] \in Elements(valid)
         /\ \A i, j \in DOMAIN accepted :
               FindingKey(accepted[i]) = FindingKey(accepted[j]) => i = j
         /\ \A f \in Elements(valid) \ Elements(accepted), g \in Elements(accepted) :
               ~Better(f, g)
<1>1. PICK kept \in 0 .. Len(valid), order \in Orders(valid) :
          accepted = [i \in 1 .. kept |-> valid[order[i]]]
  BY DEF Returned
<1>2. DOMAIN valid = 1 .. Len(valid) /\ Len(valid) \in Nat
  BY ListProperties DEF ValidInv
<1>3. /\ order \in [DOMAIN valid -> DOMAIN valid]
      /\ \A a, b \in DOMAIN valid : a < b =>
            \/ Better(valid[order[a]], valid[order[b]])
            \/ ~Better(valid[order[b]], valid[order[a]])
  BY DEF Orders
<1>4. DOMAIN accepted = 1 .. kept /\ 1 .. kept \subseteq DOMAIN valid
  BY <1>1, <1>2
<1>5. \A i \in DOMAIN accepted : accepted[i] = valid[order[i]] /\ order[i] \in DOMAIN valid
  BY <1>1, <1>3, <1>4
<1>6. ASSUME NEW i \in DOMAIN accepted, NEW j \in DOMAIN accepted,
             FindingKey(accepted[i]) = FindingKey(accepted[j])
      PROVE  i = j
  <2>1. order[i] = order[j]
    BY <1>5, <1>6 DEF ValidInv
  <2> QED
    BY <1>4, <2>1, RankingKeepsApart
<1>7. ASSUME NEW f \in Elements(valid) \ Elements(accepted), NEW g \in Elements(accepted)
      PROVE  ~Better(f, g)
  <2>1. PICK j \in DOMAIN accepted : g = accepted[j]
    BY DEF Elements
  <2>2. PICK a \in DOMAIN valid : f = valid[a]
    BY DEF Elements
  <2>3. PICK i \in DOMAIN valid : order[i] = a
    BY RankingIsComplete
  <2>4. i \notin DOMAIN accepted
    BY <1>5, <2>2, <2>3 DEF Elements
  <2>5. i \in Nat /\ j \in DOMAIN valid /\ j < i
    BY <1>2, <1>4, <2>1, <2>4
  <2>6. \/ Better(g, f)
        \/ ~Better(f, g)
    BY <1>3, <1>5, <2>1, <2>2, <2>3, <2>5
  <2>7. Capped(f) /\ Capped(g)
    BY <1>3, <1>5, <2>1, <2>2 DEF ValidInv, Elements, Right
  <2> QED
    BY <2>6, <2>7, BetterIsStrict
<1> QED
  BY <1>5, <1>6, <1>7 DEF Elements

-----------------------------------------------------------------------------
(* Theorems *)

\* The report accounts for every finding of the model, once (the counters of
\* validate_and_rank_findings): whatever the model answers and whatever it was given.
THEOREM EveryFindingCounted == GroundedSpec => []Accounted
<1>1. IInv => Accounted
  BY DEF IInv, ReportInv
<1> QED
  BY Invariance, <1>1, PTL

\* Findings are returned at the end only.
LEMMA ReturnedOrNothing ==
  ASSUME IInv
  PROVE  (accepted = <<>> /\ phase = "validate") \/ Returned
BY DEF IInv, ReportInv

\* No finding is returned with a severity above the cap of its card, none better than
\* one that is returned is left out for the limit, and a finding about complexity names
\* a function that is above the threshold in the file of the finding and has grown: for
\* any findings of the model and whatever was measured (validate_and_rank_findings,
\* complexity_metrics.py).
THEOREM FindingsJustified == GroundedSpec => []BestJustified
<1>1. IInv /\ GroundingInv => BestJustified
  <2> SUFFICES ASSUME IInv, GroundingInv PROVE BestJustified
    OBVIOUS
  <2>1. \A f \in Elements(accepted) : f \in Elements(valid)
    BY ReturnedOrNothing, ReturnedIsBest DEF IInv, Elements
  <2>2. \A f \in Elements(accepted) : Right(f)
    BY <2>1 DEF IInv, ValidInv
  <2>3. BestWithinCaps
    BY <2>2, ReturnedOrNothing, ReturnedIsBest
    DEF BestWithinCaps, IInv, Right, Capped, Elements
  <2>4. ComplexityTrue
    <3> SUFFICES ASSUME NEW f \in Elements(accepted), KnownCard(f), Cards[f.card].complexity
                 PROVE  LET file == request.files[f.file] IN
                        /\ file.head.functions[f.symbol] > Threshold
                        /\ file.base.readable =>
                              \/ f.symbol \notin DOMAIN file.base.functions
                              \/ file.base.functions[f.symbol] < file.head.functions[f.symbol]
      BY DEF ComplexityTrue
    <3>1. PICK m \in given.metrics : m.symbol = f.symbol /\ m.file = f.file /\ Regressed(m)
      BY <2>2 DEF Right, ComplexityMeasured, Measured
    <3>2. PICK place \in DOMAIN request.files : m \in AnalyzePythonFile(request.files, place)
      BY DEF IInv, GroundInv, Given, Measurements
    <3> DEFINE file == request.files[place]
    <3>3. /\ m.file = place /\ m.symbol \in DOMAIN PythonFunctions(file.head)
          /\ m.after = PythonFunctions(file.head)[m.symbol]
          /\ m.before = ComplexityOf(PythonFunctions(file.base), m.symbol)
      BY <3>2 DEF AnalyzePythonFile
    <3>4. PythonFunctions(file.head) = file.head.functions
      BY <3>3 DEF PythonFunctions
    <3> QED
      BY <3>1, <3>3, <3>4 DEF Regressed, Exceeded, PythonFunctions, ComplexityOf
  <2> QED
    BY <2>3, <2>4 DEF BestJustified
<1> QED
  BY Invariance, <1>1, PTL

\* No patch has a removed line whose text begins with two dashes.
NoRemovedDashes ==
    \A file \in DOMAIN Patches : \A i \in DOMAIN Patches[file] :
        Patches[file][i].kind = "removed" => ~Patches[file][i].dashed

\* The lines the code counts are then those of the right side.
LEMMA CountedIsRight ==
  ASSUME NoRemovedDashes, NEW file \in DOMAIN Patches
  PROVE  RightSideDiffLines(file) = LinesOf(Patches[file], OnRightSide)
<1>1. \A i \in DOMAIN Patches[file] : Counted(Patches[file][i]) = OnRightSide(Patches[file][i])
  BY DEF NoRemovedDashes, Counted, OnRightSide
<1> QED
  BY <1>1 DEF RightSideDiffLines, LinesOf

\* Without removed lines that begin with two dashes every line a finding names is on the
\* right side of the diff of its file, and no two findings say the same of one place: for
\* any patches and answers (_right_side_diff_lines, _finding_key).
THEOREM SaidOnceAndInDiff ==
  ASSUME NoRemovedDashes
  PROVE  GroundedSpec => []SaidOnceInDiff
<1>1. IInv /\ GroundingInv => SaidOnceInDiff
  <2> SUFFICES ASSUME IInv, GroundingInv PROVE SaidOnceInDiff
    OBVIOUS
  <2>1. NoTwins
    BY ReturnedOrNothing, ReturnedIsBest DEF IInv, NoTwins
  <2>2. \A f \in Elements(accepted) : Right(f)
    BY ReturnedOrNothing, ReturnedIsBest DEF IInv, Elements, ValidInv
  <2>3. given.files \subseteq DOMAIN Patches
    BY GivenIsOK DEF IInv, GroundInv, GivenOK
  <2>4. LinesInDiff
    BY <2>2, <2>3, CountedIsRight DEF LinesInDiff, Right, LinesCounted
  <2> QED
    BY <2>1, <2>4 DEF SaidOnceInDiff
<1> QED
  BY Invariance, <1>1, PTL

-----------------------------------------------------------------------------
(* What the review rests on *)

\* The state of both parts is of its types, for any manifest the service starts with and
\* whatever was retrieved: what the findings are judged by are files, cards and policies
\* that exist (build_prompt, validate_findings).
THEOREM GroundsWellFormed == GroundedSpec => []TypesOK
<1>1. IInv /\ GroundingInv => TypesOK
  <2> SUFFICES ASSUME IInv, GroundingInv PROVE TypesOK
    OBVIOUS
  <2>1. TypeOK
    <3>1. GivenOK
      BY GivenIsOK DEF IInv, GroundInv
    <3>2. \A f \in Elements(valid) \cup Elements(accepted) : Right(f)
      BY ReturnedOrNothing, ReturnedIsBest DEF IInv, ValidInv, Elements
    <3>3. \A f \in Elements(valid) \cup Elements(accepted) :
            /\ DOMAIN f = Fields
            /\ f.severity \in Severities /\ f.confidence \in 0 .. 1
            /\ f.file \in given.files
            /\ f.source = NoSource \/ \E p \in Elements(given.policies) : f.source = Citation(p)
      BY <3>2 DEF Right, Formed
    <3>4. /\ phase \in {"validate", "done"} /\ received \in 0 .. MaxAnswers
          /\ report \in [Counters -> Nat]
      BY DEF IInv, ReportInv
    <3> QED
      BY <3>1, <3>3, <3>4 DEF TypeOK
  <2>2. Grounding!TypeOK
    <3>1. ASSUME NEW h, FromManifest(manifest, h)
          PROVE  /\ h.skills \in Seq(Grounding!Elements(manifest.skills))
                 /\ h.cards \in Seq(Grounding!Elements(manifest.cards))
                 /\ Grounding!Distinct(h.skills) /\ Grounding!Distinct(h.cards)
      BY <3>1, SameElements DEF FromManifest
    <3>2. \A b \in DOMAIN batches : GoodBatch(request, manifest, route.name, batches[b])
      BY DEF GroundingInv, BatchesInv, Elements
    <3>3. \A h \in {harness} \cup {batches[b].harness : b \in DOMAIN batches} :
             FromManifest(manifest, h)
      BY <3>2 DEF GroundingInv, ChosenInv, GoodBatch
    <3>4. \A b \in DOMAIN batches :
             Grounding!Elements(batches[b].files) \subseteq Grounding!Places
      BY <3>2, SameElements DEF GoodBatch, Grounding!Places
    <3>5. Grounding!Elements(policies) \subseteq
             Grounding!Elements(request.policies) \cup Grounding!Elements(request.indexed)
      <4>1. policies \in Seq(Chunks(request))
        BY DEF GroundingInv, ChosenInv
      <4>2. Elements(policies) \subseteq Chunks(request)
        BY <4>1, ElementOfSeq DEF Elements
      <4> QED
        BY <4>2, SameElements DEF Chunks
    <3>6. /\ request \in Requests /\ manifest \in Manifests
          /\ node \in {"start", "refused", "select_route", "analyze_complexity",
                       "select_harness", "retrieve", "skip", "build_prompt", "call_llm"}
          /\ route \in [name : Grounding!RouteNames, use_rag : BOOLEAN]
      BY SameRoutes DEF GroundingInv, ChosenInv
    <3> QED
      BY <3>1, <3>3, <3>4, <3>5, <3>6 DEF Grounding!TypeOK
  <2> QED
    BY <2>1, <2>2 DEF TypesOK
<1> QED
  BY Invariance, <1>1, PTL

\* A marker is found in what a cut has left of a patch.
LEMMA EvidenceIsShown ==
  ASSUME GroundingInv, NEW b \in DOMAIN batches,
         NEW card \in Elements(batches[b].harness.cards), card.require_path_and_patch
  PROVE  Grounding!EvidenceTogether(card, batches[b])
<1>1. PICK batch : batch = batches[b]
  OBVIOUS
<1>2. GoodBatch(request, manifest, route.name, batch) /\ request \in Requests
  BY <1>1 DEF GroundingInv, ChosenInv, BatchesInv, Elements
<1>3. PICK files : files = Elements(ShownAs(request, batch))
  OBVIOUS
<1>4. Grounding!Marked(card, files)
  BY <1>1, <1>2, <1>3 DEF GoodBatch, SelectedFor, Grounding!Candidates
<1>5. Grounding!InOneFile(card, files)
  BY <1>4 DEF Grounding!Marked
<1>6. PICK file \in files : Grounding!InPath(card, {file}) /\ Grounding!InPatch(card, {file})
  BY <1>5 DEF Grounding!InOneFile
<1>7. PICK i \in DOMAIN batch.files : file = FileAs(request, batch.files[i], batch.cut)
  BY <1>3, <1>6 DEF Elements, ShownAs
<1>8. PICK place : place = batch.files[i]
  OBVIOUS
<1>9. /\ place \in Elements(batch.files) /\ place \in DOMAIN request.files
      /\ file = FileAs(request, place, batch.cut)
  BY <1>2, <1>7, <1>8 DEF Elements, GoodBatch
<1>10. \E m \in card.patch_markers : Grounding!Finds(m, file.patch)
  BY <1>6 DEF Grounding!InPatch, Grounding!Reviewable
<1>11. \E m \in card.path_markers : Grounding!Finds(m, file.path)
  BY <1>6 DEF Grounding!InPath
<1>12. file.patch = Grounding!Kept(place, batch.cut).patch /\ file.path = request.files[place].path
  <2>1. {"path", "patch", "removed"} \subseteq DOMAIN request.files[place]
    BY <1>2, <1>9, RequestIs
  <2> QED
    BY <2>1, <1>9 DEF FileAs, Grounding!Kept
<1> QED
  BY <1>1, <1>9, <1>10, <1>11, <1>12, SameElements DEF Grounding!EvidenceTogether

\* A card goes with a batch only if the batch shows what the card asks for, and its
\* sources are registered with an https link: for any manifest the service starts with,
\* any request and any division into batches (policy_harness.py, select and __init__).
THEOREM CardsRestOnEvidence == GroundedSpec => []CardsHaveEvidence
<1>1. GroundingInv => CardsHaveEvidence
  <2> SUFFICES ASSUME GroundingInv, NEW b \in DOMAIN batches,
                      NEW card \in Elements(batches[b].harness.cards)
               PROVE  /\ card.require_path_and_patch =>
                            Grounding!EvidenceTogether(card, batches[b])
                      /\ \A id \in card.sources : \E source \in Elements(manifest.sources) :
                            source.id = id /\ source.https
    BY SameElements DEF CardsHaveEvidence, Grounding!CardsHaveEvidence
  <2>1. batches # <<>>
    OBVIOUS
  <2>2. Grounding!Acceptable(manifest)
    BY <2>1 DEF GroundingInv, ChosenInv, BatchesInv
  <2>3. card \in Elements(manifest.cards)
    <3>1. GoodBatch(request, manifest, route.name, batches[b])
      BY DEF GroundingInv, BatchesInv, Elements
    <3>2. card \in Grounding!Elements(manifest.cards)
      BY <3>1 DEF GoodBatch, SelectedFor, Grounding!Candidates
    <3> QED
      BY <3>2, SameElements
  <2>4. \A id \in card.sources : \E source \in Elements(manifest.sources) :
            source.id = id /\ source.https
    BY <2>2, <2>3, SameElements DEF Grounding!Acceptable
  <2> QED
    BY <2>4, EvidenceIsShown
<1> QED
  BY Invariance, <1>1, PTL

\* Every skill that has a card for a batch keeps its best one, or the list is full with
\* one card each of skills ranked before it: for any manifest and limits, whatever the
\* scores (policy_harness.py, the two phases behind ranked_cards).
THEOREM EverySkillRepresented == GroundedSpec => []SkillsRepresented
<1>1. GroundingInv => SkillsRepresented
  <2> SUFFICES ASSUME GroundingInv PROVE Grounding!SkillsRepresented
    BY DEF SkillsRepresented
  <2>1. ASSUME NEW b \in DOMAIN batches
        PROVE  LET batch == batches[b]
                   files == {Grounding!Kept(place, batch.cut) : place \in Elements(batch.files)}
               IN  /\ files = Elements(ShownAs(request, batch))
                   /\ GoodBatch(request, manifest, route.name, batch)
    <3>1. PICK batch : batch = batches[b]
      OBVIOUS
    <3>2. \A place : Grounding!Kept(place, batch.cut) = FileAs(request, place, batch.cut)
      BY DEF Grounding!Kept, FileAs
    <3>3. {Grounding!Kept(place, batch.cut) : place \in Elements(batch.files)}
             = Elements(ShownAs(request, batch))
      BY <3>2 DEF Elements, ShownAs
    <3>4. GoodBatch(request, manifest, route.name, batch)
      BY <3>1 DEF GroundingInv, BatchesInv, Elements
    <3> QED
      BY <3>1, <3>3, <3>4
  <2>2. ASSUME NEW b \in DOMAIN batches, NEW files, NEW K,
               files = {Grounding!Kept(place, batches[b].cut) :
                           place \in Elements(batches[b].files)},
               K = Grounding!Candidates(manifest, batches[b].harness.skills, files,
                                        batches[b].harness.signals, route.name)
        PROVE  Represented(K, batches[b].harness.skills, batches[b].harness.cards,
                           batches[b].harness.signals, files, manifest.max_cards[route.name])
    BY <2>1, <2>2 DEF GoodBatch, SelectedFor
  <2>3. ASSUME NEW b \in DOMAIN batches
        PROVE
        LET h == batches[b].harness
            files == {Grounding!Kept(place, batches[b].cut) :
                         place \in Grounding!Elements(batches[b].files)}
            candidates == Grounding!Candidates(manifest, h.skills, files, h.signals, route.name)
            of(skill) == {card \in candidates : card.skill = skill.id}
            shown(skill) == of(skill) \cap Grounding!Elements(h.cards)
        IN  \A s \in DOMAIN h.skills :
              of(h.skills[s]) # {} =>
                 \/ \E card \in shown(h.skills[s]) : \A other \in of(h.skills[s]) :
                       Grounding!CardScore(card, files, h.signals)
                         >= Grounding!CardScore(other, files, h.signals)
                 \/ /\ Len(h.cards) >= manifest.max_cards[route.name]
                    /\ \A card \in Grounding!Elements(h.cards) :
                          /\ \E e \in 1 .. s - 1 : h.skills[e].id = card.skill
                          /\ \A other \in Grounding!Elements(h.cards) \ {card} :
                                other.skill # card.skill
    <3> DEFINE h == batches[b].harness
               files == {Grounding!Kept(place, batches[b].cut) :
                            place \in Grounding!Elements(batches[b].files)}
               K == Grounding!Candidates(manifest, h.skills, files, h.signals, route.name)
    <3>4. Represented(K, h.skills, h.cards, h.signals, files, manifest.max_cards[route.name])
      BY <2>2, SameElements
    <3> HIDE DEF h, files, K
    <3>5. \A s \in DOMAIN h.skills :
            {card \in K : card.skill = h.skills[s].id} # {} =>
              \/ \E card \in {card \in K : card.skill = h.skills[s].id}
                               \cap Grounding!Elements(h.cards) :
                    \A other \in {c \in K : c.skill = h.skills[s].id} :
                       Grounding!CardScore(card, files, h.signals)
                         >= Grounding!CardScore(other, files, h.signals)
              \/ /\ Len(h.cards) >= manifest.max_cards[route.name]
                 /\ \A card \in Grounding!Elements(h.cards) :
                       /\ \E e \in 1 .. s - 1 : h.skills[e].id = card.skill
                       /\ \A other \in Grounding!Elements(h.cards) \ {card} :
                             other.skill # card.skill
      BY <3>4, SameElements DEF Represented
    <3> QED
      BY <3>5 DEF h, files, K
  <2> QED
    BY <2>3 DEF Grounding!SkillsRepresented
<1> QED
  BY Invariance, <1>1, PTL

\* A section of the repository's own policy that shares a word with the request, or with
\* the files of a batch, is left out only for sections of the service that score the whole
\* bonus more by their words: for any index, sizes of sections, limits and types, through
\* the ranking of the index, of the request and of the batch (rag.py, rank_policy_chunks).
THEOREM OwnPolicyNotCrowdedOut == GroundedSpec => []OwnPolicyFirst
<1>1. ASSUME ChosenInv, NEW list, NEW chunks, NEW query, OwnKept(list, chunks, query),
             \A chunk \in chunks \cup Elements(list) : IsChunk(chunk),
             NEW chunk \in chunks
      PROVE  Grounding!OutscoredOnly(chunk, list, query)
  <2> SUFFICES ASSUME Grounding!IsOwn(chunk), Grounding!Shared(chunk, query) > 0,
                      chunk \notin Elements(list),
                      NEW other \in Elements(list), ~ Grounding!IsOwn(other)
               PROVE  Grounding!WordScore(other, query)
                        >= Grounding!WordScore(chunk, query) + Bonus * Precision
    BY SameElements DEF Grounding!OutscoredOnly
  <2>1. Grounding!Score(other, query) >= Grounding!Score(chunk, query)
    BY <1>1 DEF OwnKept
  <2>2. /\ Grounding!Score(other, query) = Grounding!WordScore(other, query) + 0
        /\ Grounding!WordScore(other, query) \in Nat
        /\ Grounding!Score(chunk, query)
              = Grounding!WordScore(chunk, query) + Bonus * Precision
    BY <1>1, ScoreIs
  <2> QED
    BY <2>1, <2>2
<1>2. GroundingInv => OwnPolicyFirst
  <2> SUFFICES ASSUME GroundingInv, node = "build_prompt" PROVE Grounding!OwnPolicyFirst
    BY DEF OwnPolicyFirst, Grounding!OwnPolicyFirst
  <2>1. /\ ChosenInv /\ \A chunk \in Chunks(request) : IsChunk(chunk)
        /\ \A list : list \in Seq(Chunks(request)) => Elements(list) \subseteq Chunks(request)
        /\ policies \in Seq(Chunks(request))
    BY RequestIs, ElementOfSeq DEF GroundingInv, ChosenInv, Elements
  <2>2. ASSUME NEW b \in DOMAIN batches
        PROVE  /\ [i \in DOMAIN batches[b].files |->
                      Grounding!Kept(batches[b].files[i], batches[b].cut)]
                    = ShownAs(request, batches[b])
               /\ Elements(batches[b].policies) \subseteq Chunks(request)
               /\ OwnKept(batches[b].policies, Elements(policies),
                          Grounding!QueryWords(request.words, ShownAs(request, batches[b])))
    <3>1. batches[b] \in Elements(batches)
      BY DEF Elements
    <3>2. batches[b].policies \in Seq(Chunks(request))
      BY <3>1 DEF GroundingInv, BatchesInv, GoodBatch
    <3> QED
      BY <2>1, <3>1, <3>2 DEF GroundingInv, OwnInv, Grounding!Kept, ShownAs, FileAs
  <2>3. ASSUME NEW b \in DOMAIN batches, NEW chunk \in Elements(policies)
        PROVE  LET shown == [i \in DOMAIN batches[b].files |->
                                Grounding!Kept(batches[b].files[i], batches[b].cut)]
               IN  Grounding!OutscoredOnly(chunk, batches[b].policies,
                                           Grounding!QueryWords(request.words, shown))
    BY <1>1, <2>1, <2>2
  <2>4. ASSUME route.use_rag, NEW chunk \in Chunks(request)
        PROVE  Grounding!OutscoredOnly(chunk, policies,
                                       Grounding!QueryWords(request.words, request.files))
    <3>1. OwnKept(policies, Chunks(request),
                  Grounding!QueryWords(request.words, request.files))
      BY <2>4 DEF GroundingInv, OwnInv
    <3> QED
      BY <1>1, <2>1, <3>1
  <2> QED
    BY <2>3, <2>4, SameElements DEF Grounding!OwnPolicyFirst, Chunks
<1> QED
  BY Invariance, <1>2, PTL

\* The cards and sections of all batches are known to the validation of the findings, for
\* any number of batches and whichever of them offer the same (review_graph.py,
\* selected_policies and selected_knowledge_cards).
THEOREM WhatIsOfferedIsKnown == GroundedSpec => []OfferedIsKnown
<1>1. GroundingInv => OfferedIsKnown
  BY DEF GroundingInv, OfferedIsKnown
<1> QED
  BY Invariance, <1>1, PTL
=============================================================================
