------------------------- MODULE PolicyIndexProofs -------------------------
(***************************************************************************)
(* The policy index for any users, chunks and versions of the folder.      *)
(***************************************************************************)
EXTENDS PolicyIndex, SequenceTheorems, TLAPS

\* What a transaction has written and what it has yet to write is what it has read.
WritesAll ==
    \A u \in Users : Transacting(u) =>
        /\ chunks[u] \in Versions
        /\ written[u] \cup ToSet(left[u]) = ToSet(chunks[u])

\* Outside its transaction a user holds no row.
HoldsNothing ==
    \A u \in Users : ~Transacting(u) => found[u] = {} /\ gone[u] = {} /\ written[u] = {}

\* No row is deleted by two transactions.
DeletedOnce == \A u, v \in Users : u # v => gone[u] \cap gone[v] = {}

\* A transaction that has finished its DELETE has deleted all it found.
DeletedAll == \A u \in Users : pc[u] = "insert" => gone[u] = found[u]

\* A transaction nobody overlapped found all rows there are, and is the only one.
AloneFoundAll ==
    \A u \in Users : Transacting(u) /\ alone[u] =>
        found[u] = rows /\ \A v \in Users \ {u} : ~Transacting(v)

\* A search that reads again reads what its own sync or a later one has left.
ReloadsWhole ==
    \A u \in Users : pc[u] = "reload" => \E v \in Versions : ToSet(v) \subseteq rows

IInv ==
    /\ TypeOK
    /\ WritesAll
    /\ HoldsNothing
    /\ DeletedOnce
    /\ DeletedAll
    /\ AloneFoundAll
    /\ ReloadsWhole
    /\ HoldsWholeVersion
    /\ AnswersWhole

\* The chunks of a sequence are its first one and those of its tail.
LEMMA HeadAndTail ==
    ASSUME NEW S, NEW s \in Seq(S), s # <<>>
    PROVE  /\ Head(s) \in S
           /\ Tail(s) \in Seq(S)
           /\ ToSet(s) = {Head(s)} \cup ToSet(Tail(s))
<1>1. Head(s) \in S /\ Tail(s) \in Seq(S) /\ Len(Tail(s)) = Len(s) - 1 /\ Len(s) \in Nat \ {0}
  BY HeadTailProperties, EmptySeq, LenProperties
<1>2. \A i \in 1 .. Len(s) - 1 : Tail(s)[i] = s[i + 1]
  BY HeadTailProperties
<1>3. DOMAIN s = 1 .. Len(s) /\ DOMAIN Tail(s) = 1 .. Len(s) - 1 /\ Head(s) = s[1]
  BY <1>1, LenProperties
<1>4. \A i \in 1 .. Len(s) : i = 1 \/ (i - 1 \in 1 .. Len(s) - 1 /\ s[i] = Tail(s)[i - 1])
  BY <1>1, <1>2
<1>5. \A i \in 1 .. Len(s) - 1 : i + 1 \in 1 .. Len(s)
  BY <1>1
<1>6. 1 \in 1 .. Len(s)
  BY <1>1
<1>7. ToSet(s) = {Head(s)} \cup ToSet(Tail(s))
  <2>1. ASSUME NEW x \in ToSet(s) PROVE x \in {Head(s)} \cup ToSet(Tail(s))
    <3>1. PICK i \in 1 .. Len(s) : s[i] = x
      BY <1>3 DEF ToSet
    <3>2. QED
      BY <1>3, <1>4, <3>1 DEF ToSet
  <2>2. Head(s) \in ToSet(s)
    BY <1>3, <1>6 DEF ToSet
  <2>3. ASSUME NEW x \in ToSet(Tail(s)) PROVE x \in ToSet(s)
    <3>1. PICK i \in 1 .. Len(s) - 1 : Tail(s)[i] = x
      BY <1>3 DEF ToSet
    <3>2. QED
      BY <1>2, <1>3, <1>5, <3>1 DEF ToSet
  <2>4. QED
    BY <2>1, <2>2, <2>3
<1>8. QED
  BY <1>1, <1>7

LEMMA EmptyHasNone == ToSet(<<>>) = {}
  BY DEF ToSet

LEMMA InitInv == Init => IInv
<1> SUFFICES ASSUME Init PROVE IInv
  OBVIOUS
<1>1. (CHOOSE v \in Versions : TRUE) \in Versions
  BY VersionsAssumption
<1>2. TypeOK
  BY <1>1 DEF Init, TypeOK
<1>3. QED
  BY <1>2 DEF Init, IInv, WritesAll, HoldsNothing, DeletedOnce, DeletedAll,
              AloneFoundAll, ReloadsWhole, HoldsWholeVersion, AnswersWhole, Transacting

LEMMA NextInv == IInv /\ [Next]_vars => IInv'
<1> SUFFICES ASSUME IInv, [Next]_vars PROVE IInv'
  OBVIOUS
<1> USE DEF IInv, Transacting, Goto
<1>1. ASSUME NEW u \in Users, NEW operation \in {"sync", "search", "has_policy"},
             Call(u, operation)
      PROVE IInv'
  <2>1. TypeOK'
    BY <1>1 DEF Call, TypeOK
  <2>2. WritesAll'
    BY <1>1 DEF Call, TypeOK, WritesAll, HoldsNothing
  <2>3. HoldsNothing'
    BY <1>1 DEF Call, TypeOK, HoldsNothing
  <2>4. DeletedOnce'
    BY <1>1 DEF Call, TypeOK, HoldsNothing, DeletedOnce
  <2>5. DeletedAll'
    BY <1>1 DEF Call, TypeOK, HoldsNothing, DeletedAll
  <2>6. AloneFoundAll'
    BY <1>1 DEF Call, TypeOK, AloneFoundAll
  <2>7. ReloadsWhole'
    BY <1>1 DEF Call, TypeOK, ReloadsWhole
  <2>8. HoldsWholeVersion'
    BY <1>1 DEF Call, HoldsWholeVersion
  <2>9. AnswersWhole'
    BY <1>1 DEF Call, TypeOK, AnswersWhole
  <2>10. QED
    BY <2>1, <2>2, <2>3, <2>4, <2>5, <2>6, <2>7, <2>8, <2>9
<1>2. ASSUME NEW u \in Users, Look(u) PROVE IInv'
  <2>1. TypeOK'
    BY <1>2 DEF Look, TypeOK
  <2>2. WritesAll'
    BY <1>2 DEF Look, TypeOK, WritesAll, HoldsNothing
  <2>3. HoldsNothing'
    BY <1>2 DEF Look, TypeOK, HoldsNothing
  <2>4. DeletedOnce'
    BY <1>2 DEF Look, TypeOK, HoldsNothing, DeletedOnce
  <2>5. DeletedAll'
    BY <1>2 DEF Look, TypeOK, HoldsNothing, DeletedAll
  <2>6. AloneFoundAll'
    BY <1>2 DEF Look, TypeOK, AloneFoundAll
  <2>7. ReloadsWhole'
    BY <1>2 DEF Look, TypeOK, ReloadsWhole
  <2>8. HoldsWholeVersion'
    BY <1>2 DEF Look, HoldsWholeVersion
  <2>9. AnswersWhole'
    BY <1>2 DEF Look, TypeOK, AnswersWhole, HoldsWholeVersion
  <2>10. QED
    BY <2>1, <2>2, <2>3, <2>4, <2>5, <2>6, <2>7, <2>8, <2>9
<1>3. ASSUME NEW u \in Users, LoadChunks(u) PROVE IInv'
  <2>1. TypeOK'
    BY <1>3 DEF LoadChunks, TypeOK
  <2>2. WritesAll'
    BY <1>3 DEF LoadChunks, TypeOK, WritesAll, HoldsNothing
  <2>3. HoldsNothing'
    BY <1>3 DEF LoadChunks, TypeOK, HoldsNothing
  <2>4. DeletedOnce'
    BY <1>3 DEF LoadChunks, TypeOK, HoldsNothing, DeletedOnce
  <2>5. DeletedAll'
    BY <1>3 DEF LoadChunks, TypeOK, HoldsNothing, DeletedAll
  <2>6. AloneFoundAll'
    BY <1>3 DEF LoadChunks, TypeOK, AloneFoundAll
  <2>7. ReloadsWhole'
    BY <1>3 DEF LoadChunks, TypeOK, ReloadsWhole
  <2>8. HoldsWholeVersion'
    BY <1>3 DEF LoadChunks, HoldsWholeVersion
  <2>9. AnswersWhole'
    BY <1>3 DEF LoadChunks, TypeOK, AnswersWhole
  <2>10. QED
    BY <2>1, <2>2, <2>3, <2>4, <2>5, <2>6, <2>7, <2>8, <2>9
<1>4. ASSUME NEW u \in Users, StartDelete(u) PROVE IInv'
  <2>1. TypeOK'
    BY <1>4, VersionsAssumption DEF StartDelete, RowsToDelete, TypeOK
  <2>2. WritesAll'
    BY <1>4 DEF StartDelete, RowsToDelete, TypeOK, WritesAll, HoldsNothing
  <2>3. HoldsNothing'
    BY <1>4 DEF StartDelete, RowsToDelete, TypeOK, HoldsNothing
  <2>4. DeletedOnce'
    BY <1>4 DEF StartDelete, RowsToDelete, TypeOK, HoldsNothing, DeletedOnce
  <2>5. DeletedAll'
    BY <1>4 DEF StartDelete, RowsToDelete, TypeOK, HoldsNothing, DeletedAll
  <2>6. AloneFoundAll'
    BY <1>4 DEF StartDelete, RowsToDelete, TypeOK, AloneFoundAll
  <2>7. ReloadsWhole'
    BY <1>4 DEF StartDelete, RowsToDelete, TypeOK, ReloadsWhole
  <2>8. HoldsWholeVersion'
    BY <1>4 DEF StartDelete, RowsToDelete, HoldsWholeVersion
  <2>9. AnswersWhole'
    BY <1>4 DEF StartDelete, RowsToDelete, TypeOK, AnswersWhole
  <2>10. QED
    BY <2>1, <2>2, <2>3, <2>4, <2>5, <2>6, <2>7, <2>8, <2>9
<1>5. ASSUME NEW u \in Users, NEW c \in Chunks, DeleteRow(u, c) PROVE IInv'
  <2>1. TypeOK'
    BY <1>5 DEF DeleteRow, TypeOK
  <2>2. WritesAll'
    BY <1>5 DEF DeleteRow, TypeOK, WritesAll, HoldsNothing
  <2>3. HoldsNothing'
    BY <1>5 DEF DeleteRow, TypeOK, HoldsNothing
  <2>4. DeletedOnce'
    BY <1>5 DEF DeleteRow, Free, Touched, TypeOK, HoldsNothing, DeletedOnce
  <2>5. DeletedAll'
    BY <1>5 DEF DeleteRow, TypeOK, HoldsNothing, DeletedAll
  <2>6. AloneFoundAll'
    BY <1>5 DEF DeleteRow, TypeOK, AloneFoundAll
  <2>7. ReloadsWhole'
    BY <1>5 DEF DeleteRow, TypeOK, ReloadsWhole
  <2>8. HoldsWholeVersion'
    BY <1>5 DEF DeleteRow, HoldsWholeVersion
  <2>9. AnswersWhole'
    BY <1>5 DEF DeleteRow, TypeOK, AnswersWhole
  <2>10. QED
    BY <2>1, <2>2, <2>3, <2>4, <2>5, <2>6, <2>7, <2>8, <2>9
<1>6. ASSUME NEW u \in Users, EndDelete(u) PROVE IInv'
  <2>1. TypeOK'
    BY <1>6 DEF EndDelete, TypeOK
  <2>2. WritesAll'
    BY <1>6 DEF EndDelete, TypeOK, WritesAll, HoldsNothing
  <2>3. HoldsNothing'
    BY <1>6 DEF EndDelete, TypeOK, HoldsNothing
  <2>4. DeletedOnce'
    BY <1>6 DEF EndDelete, TypeOK, HoldsNothing, DeletedOnce
  <2>5. DeletedAll'
    BY <1>6 DEF EndDelete, TypeOK, HoldsNothing, DeletedAll
  <2>6. AloneFoundAll'
    BY <1>6 DEF EndDelete, TypeOK, AloneFoundAll
  <2>7. ReloadsWhole'
    BY <1>6 DEF EndDelete, TypeOK, ReloadsWhole
  <2>8. HoldsWholeVersion'
    BY <1>6 DEF EndDelete, HoldsWholeVersion
  <2>9. AnswersWhole'
    BY <1>6 DEF EndDelete, TypeOK, AnswersWhole
  <2>10. QED
    BY <2>1, <2>2, <2>3, <2>4, <2>5, <2>6, <2>7, <2>8, <2>9
<1>7. ASSUME NEW u \in Users, Insert(u) PROVE IInv'
  <2>1. TypeOK'
    BY <1>7, HeadAndTail DEF Insert, TypeOK
  <2>2. WritesAll'
    BY <1>7, HeadAndTail DEF Insert, TypeOK, WritesAll, HoldsNothing
  <2>3. HoldsNothing'
    BY <1>7 DEF Insert, TypeOK, HoldsNothing
  <2>4. DeletedOnce'
    BY <1>7 DEF Insert, TypeOK, HoldsNothing, DeletedOnce
  <2>5. DeletedAll'
    BY <1>7 DEF Insert, TypeOK, HoldsNothing, DeletedAll
  <2>6. AloneFoundAll'
    BY <1>7 DEF Insert, TypeOK, AloneFoundAll
  <2>7. ReloadsWhole'
    BY <1>7 DEF Insert, TypeOK, ReloadsWhole
  <2>8. HoldsWholeVersion'
    BY <1>7 DEF Insert, HoldsWholeVersion
  <2>9. AnswersWhole'
    BY <1>7 DEF Insert, TypeOK, AnswersWhole
  <2>10. QED
    BY <2>1, <2>2, <2>3, <2>4, <2>5, <2>6, <2>7, <2>8, <2>9
<1>8. ASSUME NEW u \in Users, Commit(u) PROVE IInv'
  <2>1. TypeOK'
    <3>1. rows' \subseteq Chunks
      BY <1>8 DEF Commit, TypeOK
    <3>2. found' \in [Users -> SUBSET rows']
      <4>1. \A v \in Users : found[v] \ gone[u] \subseteq rows'
        BY <1>8 DEF Commit, TypeOK
      <4>2. QED
        BY <1>8, <4>1 DEF Commit, StillFound
    <3>3. gone' \in [Users -> SUBSET rows']
      <4>1. \A v \in Users \ {u} : gone[v] \subseteq rows'
        BY <1>8 DEF Commit, TypeOK, DeletedOnce
      <4>2. QED
        BY <1>8, <4>1 DEF Commit, TypeOK
    <3>4. ToSet(chunks[u]) \subseteq Chunks
      BY <1>8, EmptyHasNone DEF Commit, TypeOK, WritesAll
    <3>5. pc' \in [Users -> {"idle", "look", "load", "begin", "delete", "insert", "reload", "done"}]
      BY <1>8 DEF Commit, TypeOK
    <3>6. QED
      BY <1>8, <3>1, <3>2, <3>3, <3>4, <3>5 DEF Commit, TypeOK
  <2>2. WritesAll'
    BY <1>8, EmptyHasNone DEF Commit, StillFound, TypeOK, WritesAll, HoldsNothing
  <2>3. HoldsNothing'
    BY <1>8 DEF Commit, StillFound, TypeOK, HoldsNothing
  <2>4. DeletedOnce'
    BY <1>8 DEF Commit, StillFound, TypeOK, HoldsNothing, DeletedOnce
  <2>5. DeletedAll'
    BY <1>8 DEF Commit, StillFound, TypeOK, HoldsNothing, DeletedAll, DeletedOnce
  <2>6. AloneFoundAll'
    BY <1>8 DEF Commit, StillFound, TypeOK, AloneFoundAll, DeletedAll
  <2>7. ReloadsWhole'
    BY <1>8, EmptyHasNone DEF Commit, StillFound, TypeOK, ReloadsWhole, WritesAll
  <2>8. HoldsWholeVersion'
    BY <1>8, EmptyHasNone DEF Commit, StillFound, HoldsWholeVersion, WritesAll, TypeOK
  <2>9. AnswersWhole'
    BY <1>8, EmptyHasNone DEF Commit, StillFound, TypeOK, AnswersWhole, WritesAll
  <2>10. QED
    BY <2>1, <2>2, <2>3, <2>4, <2>5, <2>6, <2>7, <2>8, <2>9
<1>9. ASSUME NEW u \in Users, Reload(u) PROVE IInv'
  <2>1. TypeOK'
    BY <1>9 DEF Reload, TypeOK
  <2>2. WritesAll'
    BY <1>9 DEF Reload, TypeOK, WritesAll, HoldsNothing
  <2>3. HoldsNothing'
    BY <1>9 DEF Reload, TypeOK, HoldsNothing
  <2>4. DeletedOnce'
    BY <1>9 DEF Reload, TypeOK, HoldsNothing, DeletedOnce
  <2>5. DeletedAll'
    BY <1>9 DEF Reload, TypeOK, HoldsNothing, DeletedAll
  <2>6. AloneFoundAll'
    BY <1>9 DEF Reload, TypeOK, AloneFoundAll
  <2>7. ReloadsWhole'
    BY <1>9 DEF Reload, TypeOK, ReloadsWhole
  <2>8. HoldsWholeVersion'
    BY <1>9 DEF Reload, HoldsWholeVersion
  <2>9. AnswersWhole'
    BY <1>9 DEF Reload, TypeOK, AnswersWhole, ReloadsWhole
  <2>10. QED
    BY <2>1, <2>2, <2>3, <2>4, <2>5, <2>6, <2>7, <2>8, <2>9
<1>10. ASSUME NEW u \in Users, Fail(u) PROVE IInv'
  <2>1. TypeOK'
    BY <1>10 DEF Fail, TypeOK
  <2>2. WritesAll'
    BY <1>10 DEF Fail, TypeOK, WritesAll, HoldsNothing
  <2>3. HoldsNothing'
    BY <1>10 DEF Fail, TypeOK, HoldsNothing
  <2>4. DeletedOnce'
    BY <1>10 DEF Fail, TypeOK, HoldsNothing, DeletedOnce
  <2>5. DeletedAll'
    BY <1>10 DEF Fail, TypeOK, HoldsNothing, DeletedAll
  <2>6. AloneFoundAll'
    BY <1>10 DEF Fail, TypeOK, AloneFoundAll
  <2>7. ReloadsWhole'
    BY <1>10 DEF Fail, TypeOK, ReloadsWhole
  <2>8. HoldsWholeVersion'
    BY <1>10 DEF Fail, HoldsWholeVersion
  <2>9. AnswersWhole'
    BY <1>10 DEF Fail, TypeOK, AnswersWhole
  <2>10. QED
    BY <2>1, <2>2, <2>3, <2>4, <2>5, <2>6, <2>7, <2>8, <2>9
<1>11. CASE UNCHANGED vars
  BY <1>11 DEF vars, TypeOK, WritesAll, HoldsNothing, DeletedOnce, DeletedAll,
               AloneFoundAll, ReloadsWhole, HoldsWholeVersion, AnswersWhole
<1>12. QED
  BY <1>1, <1>2, <1>3, <1>4, <1>5, <1>6, <1>7, <1>8, <1>9, <1>10, <1>11 DEF Next

LEMMA Invariance == Spec => []IInv
  BY InitInv, NextInv, PTL DEF Spec

\* The variables of the index keep their types; a DELETE never holds a row that is gone.
THEOREM TypeCorrect == Spec => []TypeOK
  BY Invariance, PTL DEF IInv

\* No number of overlapping and failing syncs ever leaves part of a policy in the table,
\* and every search and has_policy is answered from a whole one, the lazy sync included.
THEOREM NeverAPart == Spec => []WholePolicies
<1>1. IInv => WholePolicies
  BY DEF IInv, WholePolicies
<1>2. QED
  BY <1>1, Invariance, PTL

\* A sync that no other overlaps replaces the table by the chunks it has read.
THEOREM AloneItReplaces == Spec => SyncAloneReplaces
<1>1. IInv /\ [Next]_vars => [\A u \in Users : Commit(u) /\ alone[u] => rows' = ToSet(chunks[u])]_vars
  <2> SUFFICES ASSUME IInv, NEW u \in Users, Commit(u), alone[u] PROVE rows' = ToSet(chunks[u])
    OBVIOUS
  <2>1. gone[u] = rows
    BY DEF IInv, DeletedAll, AloneFoundAll, Transacting, Commit
  <2>2. written[u] = ToSet(chunks[u])
    BY EmptyHasNone DEF IInv, WritesAll, Transacting, Commit
  <2>3. QED
    BY <2>1, <2>2 DEF Commit
<1>2. QED
  BY <1>1, Invariance, PTL DEF Spec, SyncAloneReplaces
=============================================================================
