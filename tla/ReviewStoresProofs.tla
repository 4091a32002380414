------------------------- MODULE ReviewStoresProofs -------------------------
(***************************************************************************)
(* Whichever store the settings choose keeps its promises, for any set of  *)
(* reviews, any callers and any store objects: the table whatever fails,   *)
(* the file except where saves overlap or are cut short.                   *)
(***************************************************************************)
EXTENDS ReviewStores, SequenceTheorems, TLAPS

-----------------------------------------------------------------------------
(* The table *)

\* What StatementHasTable needs to be inductive: a flag, whoever has set it, means that
\* the table is there, and a thread that is about to set one has created it.
TableInv ==
    /\ Postgres!TypeOK
    /\ Postgres!StatementHasTable
    /\ \A o \in Objects : ready[o] => table
    /\ \A c \in Callers : pc[c] = "flag" => table

LEMMA TableInit == Postgres!Init => TableInv
<1>1. (CHOOSE o \in Objects : TRUE) \in Objects
  BY StoresAssumption
<1> QED
  BY <1>1 DEF Postgres!Init, TableInv, Postgres!TypeOK, Postgres!StatementHasTable,
              Postgres!Listing

LEMMA TableNext == TableInv /\ Postgres!Next => TableInv'
<1> SUFFICES ASSUME TableInv, Postgres!Next PROVE TableInv'
  OBVIOUS
<1> USE DEF TableInv, Postgres!TypeOK, Postgres!StatementHasTable, Postgres!Goto
<1>1. ASSUME NEW c \in Callers, Postgres!Call(c) PROVE TableInv'
  BY <1>1 DEF Postgres!Call
<1>2. ASSUME NEW c \in Callers, Postgres!EnsureSchema(c) PROVE TableInv'
  BY <1>2 DEF Postgres!EnsureSchema
<1>3. ASSUME NEW c \in Callers, Postgres!CreateSchema(c) PROVE TableInv'
  BY <1>3 DEF Postgres!CreateSchema
<1>4. ASSUME NEW c \in Callers, Postgres!SetReady(c) PROVE TableInv'
  BY <1>4 DEF Postgres!SetReady
<1>5. ASSUME NEW c \in Callers, Postgres!CommitSave(c) PROVE TableInv'
  BY <1>5 DEF Postgres!CommitSave, Postgres!Upserted
<1>6. ASSUME NEW c \in Callers, Postgres!SelectReviews(c) PROVE TableInv'
  BY <1>6 DEF Postgres!SelectReviews
<1>7. ASSUME NEW c \in Callers, Postgres!Fail(c) PROVE TableInv'
  BY <1>7 DEF Postgres!Fail, Postgres!Upserted
<1>8. ASSUME NEW o \in Objects, Postgres!Restart(o) PROVE TableInv'
  BY <1>8 DEF Postgres!Restart
<1> QED
  BY <1>1, <1>2, <1>3, <1>4, <1>5, <1>6, <1>7, <1>8 DEF Postgres!Next

-----------------------------------------------------------------------------
(* The file *)

Busy(c) == pc[c] # "idle"
Saving(c) == pc[c] \in {"read", "open", "write"}
Holding(c) == pc[c] \in {"open", "write"}
Unique(list) == \A i, j \in DOMAIN list : list[i] = list[j] => i = j
Whole == file # Local!Broken

\* A review is saved by one caller: nobody else has it in hand, and it is not in the
\* file before that caller has written it.
OneSaver ==
    /\ \A c \in Callers : Saving(c) => review[c] \in called
    /\ \A c, d \in Callers : Saving(c) /\ Saving(d) /\ c # d => review[c] # review[d]
    /\ \A c \in Callers : Saving(c) /\ Whole => review[c] \notin Local!Range(file)
    /\ \A c, d \in Callers :
          Saving(c) /\ Holding(d) /\ c # d => review[c] \notin Local!Range(records[d])
    /\ Whole => Local!Range(file) \subseteq called
    /\ \A c \in Callers : Holding(c) =>
          /\ Unique(records[c])
          /\ review[c] \in Local!Range(records[c])
          /\ Local!Range(records[c]) \subseteq called

\* A save that overlaps no other has the file to itself: what counts as saved is in the
\* file when it starts, is in its copy before it empties the file, and nothing counts
\* as saved once two saves overlap.
SaversOverlap == \A c, d \in Callers : Saving(c) /\ Saving(d) /\ c # d => c \in overlapped
NothingCounts == \A c \in Callers : Saving(c) /\ c \in overlapped => returned = {}
ListsAlone ==
    \A c, d \in Callers : Busy(c) /\ ~Saving(c) /\ c \notin overlapped => ~Saving(d)
CopiesAll ==
    \A c \in Callers : pc[c] = "open" /\ c \notin overlapped =>
        Local!Range(records[c]) = Local!Range(Local!ReadRecords) \cup {review[c]}
Emptied == \A c \in Callers : pc[c] = "write" /\ c \notin overlapped => ~Whole

Alone == SaversOverlap /\ NothingCounts /\ ListsAlone /\ CopiesAll /\ Emptied

FileInv == Local!TypeOK /\ OneSaver /\ Alone /\ Local!KeptUndisturbed

LEMMA Appended ==
  ASSUME NEW list \in Seq(Reviews), NEW r \in Reviews
  PROVE  /\ Append(list, r) \in Seq(Reviews)
         /\ Local!Range(Append(list, r)) = Local!Range(list) \cup {r}
         /\ Unique(list) /\ r \notin Local!Range(list) => Unique(Append(list, r))
<1>1. /\ Append(list, r) \in Seq(Reviews)
      /\ Len(Append(list, r)) = Len(list) + 1
      /\ \A i \in 1 .. Len(list) : Append(list, r)[i] = list[i]
      /\ Append(list, r)[Len(list) + 1] = r
  BY AppendProperties
<1>2. /\ DOMAIN list = 1 .. Len(list) /\ Len(list) \in Nat
      /\ DOMAIN Append(list, r) = 1 .. Len(list) + 1
  BY <1>1, LenProperties
<1> QED
  BY <1>1, <1>2 DEF Local!Range, Unique

LEMMA FileInit == Local!Init => FileInv
<1> SUFFICES ASSUME Local!Init PROVE FileInv
  OBVIOUS
<1>1. \A c \in Callers : review[c] \in Reviews
  BY StoresAssumption DEF Local!Init
<1>2. file # Local!Broken /\ Local!Range(file) = {}
  BY DEF Local!Init, Local!Broken, Local!Range
<1>3. Local!TypeOK
  <2>1. <<>> \in Seq(Reviews) /\ DOMAIN <<>> = {}
    BY EmptySeq
  <2> QED
    BY <1>1, <2>1 DEF Local!Init, Local!TypeOK
<1>4. OneSaver /\ Alone
  BY <1>2 DEF Local!Init, OneSaver, Alone, SaversOverlap, NothingCounts, ListsAlone,
              CopiesAll, Emptied, Whole, Saving, Holding, Busy
<1>5. Local!KeptUndisturbed
  BY DEF Local!Init, Local!KeptUndisturbed
<1> QED
  BY <1>3, <1>4, <1>5 DEF FileInv

LEMMA FileTypes ==
  ASSUME FileInv
  PROVE  /\ Local!ReadRecords \in Seq(Reviews)
         /\ Unique(Local!ReadRecords)
         /\ Whole => Local!ReadRecords = file
         /\ ~Whole => Local!Range(Local!ReadRecords) = {}
         /\ \A list \in Seq(Reviews) : list # Local!Broken
<1>1. <<>> \in Seq(Reviews) /\ DOMAIN <<>> = {}
  BY EmptySeq
<1>2. ASSUME NEW list \in Seq(Reviews) PROVE list # Local!Broken
  <2>1. Local!Broken[1] = "not JSON" /\ Len(Local!Broken) = 1
    BY DEF Local!Broken
  <2>2. Len(list) = 1 => list[1] \in Reviews
    BY ElementOfSeq
  <2> QED
    BY <2>1, <2>2, StoresAssumption
<1> QED
  BY <1>1, <1>2 DEF FileInv, Local!TypeOK, Local!ReadRecords, Whole, Unique, Local!Range

\* A save that overlaps no other is the only one, and a listing that overlaps no save
\* finds none.
LEMMA NoOther ==
  ASSUME FileInv, NEW c \in Callers, Busy(c), c \notin overlapped
  PROVE  /\ \A d \in Callers : Saving(d) => d = c
         /\ Local!Writer = IF pc[c] = "write" THEN {c} ELSE {}
BY DEF FileInv, Alone, SaversOverlap, ListsAlone, Saving, Busy, Local!Writer

\* The file keeps what it holds when neither it nor its writers change.
LEMMA SameKept ==
  ASSUME Local!Writer' = Local!Writer, UNCHANGED <<file, records>>,
         \A w \in Local!Writer : review'[w] = review[w]
  PROVE  Local!Kept' = Local!Kept
<1>1. CASE Local!Writer = {}
  BY <1>1 DEF Local!Kept, Local!ReadRecords, Local!Range, Local!Broken
<1>2. CASE Local!Writer # {}
  <2>1. \A w \in Local!Writer :
           Local!Range(records'[w]) \ {review'[w]} = Local!Range(records[w]) \ {review[w]}
    BY DEF Local!Range
  <2>2. Local!Kept = UNION {Local!Range(records[w]) \ {review[w]} : w \in Local!Writer}
    BY <1>2 DEF Local!Kept
  <2>3. Local!Kept' = UNION {Local!Range(records'[w]) \ {review'[w]} : w \in Local!Writer'}
    BY <1>2 DEF Local!Kept
  <2> QED
    BY <2>1, <2>2, <2>3
<1> QED
  BY <1>1, <1>2

LEMMA NothingMoves ==
  ASSUME FileInv, Local!Writer' = Local!Writer, UNCHANGED <<file, records, returned>>,
         \A w \in Local!Writer : review'[w] = review[w]
  PROVE  Local!KeptUndisturbed'
<1>1. Local!Kept' = Local!Kept
  BY SameKept
<1> QED
  BY <1>1 DEF FileInv, Local!KeptUndisturbed

\* A caller that is done leaves the others as they were.
LEMMA Leaving ==
  ASSUME FileInv, NEW c \in Callers, Local!Leave(c), UNCHANGED <<records, review>>,
         returned' \subseteq returned \/ (Saving(c) /\ c \notin overlapped),
         file' = file \/ Saving(c)
  PROVE  Alone'
<1> USE DEF FileInv, Alone
<1>1. /\ \A d \in Callers : pc'[d] = IF d = c THEN "idle" ELSE pc[d]
      /\ \A d \in Callers \ {c} : d \in overlapped' <=> d \in overlapped
  BY DEF Local!TypeOK, Local!Leave, Local!Goto
<1>2. /\ ~Saving(c)' /\ ~Busy(c)'
      /\ \A d \in Callers \ {c} : (Saving(d)' <=> Saving(d)) /\ (Busy(d)' <=> Busy(d))
  BY <1>1 DEF Saving, Busy
<1>3. SaversOverlap'
  BY <1>1, <1>2 DEF SaversOverlap
<1>4. NothingCounts'
  BY <1>1, <1>2 DEF NothingCounts, SaversOverlap
<1>5. ListsAlone'
  BY <1>1, <1>2 DEF ListsAlone
<1>6. CopiesAll'
  <2>1. CASE file' = file
    <3>1. Local!ReadRecords' = Local!ReadRecords
      BY <2>1 DEF Local!ReadRecords, Local!Broken
    <3> QED
      BY <3>1, <1>1 DEF CopiesAll, Local!Range
  <2>2. CASE Saving(c)
    BY <2>2, <1>1 DEF CopiesAll, SaversOverlap, Saving
  <2> QED
    BY <2>1, <2>2
<1>7. Emptied'
  BY <1>1 DEF Emptied, SaversOverlap, Saving, Whole, Local!Broken
<1> QED
  BY <1>3, <1>4, <1>5, <1>6, <1>7

LEMMA FileNext == FileInv /\ Local!Next => FileInv'
<1> SUFFICES ASSUME FileInv, Local!Next PROVE FileInv'
  OBVIOUS
<1> USE FileTypes DEF Local!Goto, Local!Leave
<1>1. ASSUME NEW c \in Callers, Local!CallSave(c) PROVE FileInv'
  <2> USE <1>1 DEF Local!CallSave, FileInv
  <2>1. Local!TypeOK'
    BY DEF Local!TypeOK, Local!BusyCallers, Local!Busy, Local!Savers
  <2>2. OneSaver'
    BY DEF OneSaver, Local!TypeOK, Saving, Holding, Whole, Local!Busy
  <2>3. \A d \in Callers : pc'[d] = IF d = c THEN "read" ELSE pc[d]
    BY DEF Local!TypeOK
  <2>4. Alone'
    <3>1. \A d \in Callers : Busy(d)' /\ d # c => d \in overlapped'
      BY <2>3 DEF Busy, Local!BusyCallers, Local!Busy
    <3>2. c \notin overlapped' => \A d \in Callers : ~Saving(d)
      BY DEF Local!Savers, Saving, Local!Busy, Local!BusyCallers
    <3>3. \A d \in Callers : Saving(d)' /\ d # c => Saving(d)
      BY <2>3 DEF Saving
    <3>4. ASSUME NEW d \in Callers, Saving(d)', d \in overlapped' PROVE returned' = {}
      <4>1. CASE Local!Savers = {}
        <5>1. d = c
          BY <4>1, <3>3, <3>4 DEF Local!Savers, Saving
        <5> QED
          BY <4>1, <5>1, <3>4 DEF Local!BusyCallers
      <4> QED
        BY <4>1
    <3>5. \A d \in Callers : pc'[d] = "write" => d \in overlapped'
      BY <2>3, <3>1 DEF Busy
    <3>6. \A d \in Callers : pc'[d] = "open" => d \in overlapped'
      BY <2>3, <3>1 DEF Busy
    <3>7. \A d, e \in Callers : Saving(d)' /\ Saving(e)' /\ d # e => d \in overlapped'
      BY <2>3, <3>1, <3>2, <3>3 DEF Saving, Busy
    <3>8. \A d \in Callers : Busy(d)' /\ ~Saving(d)' => d \in overlapped'
      BY <2>3, <3>1 DEF Saving
    <3> QED
      BY <3>4, <3>5, <3>6, <3>7, <3>8 DEF Alone, SaversOverlap, NothingCounts,
                                          ListsAlone, CopiesAll, Emptied
  <2>5. Local!KeptUndisturbed'
    <3>1. CASE Local!Savers = {}
      <4>1. Local!Writer = {} /\ Local!Writer' = {}
        BY <3>1, <2>3 DEF Local!Writer, Local!Savers
      <4> QED
        BY <3>1, <4>1, NothingMoves
    <3>2. CASE Local!Savers # {}
      BY <3>2 DEF Local!KeptUndisturbed
    <3> QED
      BY <3>1, <3>2
  <2> QED
    BY <2>1, <2>2, <2>4, <2>5
<1>2. ASSUME NEW c \in Callers, Local!Read(c) PROVE FileInv'
  <2> USE <1>2 DEF Local!Read, FileInv
  <2> DEFINE new == Append(Local!ReadRecords, review[c])
  <2>1. /\ new \in Seq(Reviews)
        /\ Local!Range(new) = Local!Range(Local!ReadRecords) \cup {review[c]}
        /\ Unique(Local!ReadRecords) /\ review[c] \notin Local!Range(Local!ReadRecords)
              => Unique(new)
    BY Appended DEF Local!TypeOK
  <2>2. /\ records'[c] = new
        /\ \A d \in Callers : pc'[d] = IF d = c THEN "open" ELSE pc[d]
    BY DEF Local!Extended, Local!TypeOK
  <2>3. Local!TypeOK'
    BY <2>1 DEF Local!TypeOK, Local!Extended, Local!BusyCallers, Local!Busy
  <2>4. review[c] \notin Local!Range(Local!ReadRecords)
    BY DEF OneSaver, Saving
  <2>5. OneSaver'
    <3>0. review[c] \in Local!Range(new)
      BY <2>1
    <3>1. /\ \A d \in Callers : Saving(d)' <=> Saving(d)
          /\ \A d \in Callers \ {c} : (Holding(d)' <=> Holding(d)) /\ records'[d] = records[d]
      BY DEF Saving, Holding, Local!TypeOK
    <3>2. \A d \in Callers : Saving(d) => review[d] \notin Local!Range(Local!ReadRecords)
      BY DEF OneSaver
    <3>3. Local!Range(new) \subseteq called
      BY <2>1 DEF OneSaver, Saving
    <3>4. \A d \in Callers \ {c} : Saving(d) => review[d] \notin Local!Range(new)
      BY <2>1, <3>2 DEF OneSaver, Saving
    <3>5. Unique(new)
      BY <2>1, <2>4
    <3>6. Holding(c)' /\ records'[c] = new
      BY <2>2 DEF Holding, Local!TypeOK
    <3> HIDE DEF new
    <3>7. \A d \in Callers : Holding(d)' =>
            /\ Unique(records'[d])
            /\ review[d] \in Local!Range(records'[d])
            /\ Local!Range(records'[d]) \subseteq called
      BY <3>0, <3>1, <3>3, <3>5, <3>6 DEF OneSaver
    <3>8. \A d, e \in Callers : Saving(d)' /\ Holding(e)' /\ d # e =>
            review[d] \notin Local!Range(records'[e])
      BY <3>1, <3>4, <3>6 DEF OneSaver
    <3> QED
      BY <3>1, <3>7, <3>8 DEF OneSaver, Whole, Local!Range
  <2>6. Alone'
    <3>1. /\ Local!Range(records'[c]) = Local!Range(Local!ReadRecords) \cup {review[c]}
          /\ \A d \in Callers \ {c} : Local!Range(records'[d]) = Local!Range(records[d])
          /\ Local!ReadRecords' = Local!ReadRecords
      BY <2>1, <2>2 DEF Local!TypeOK, Local!ReadRecords, Local!Broken
    <3>2. \A d \in Callers : (Saving(d)' <=> Saving(d)) /\ (Busy(d)' <=> Busy(d))
      BY <2>2 DEF Saving, Busy
    <3> HIDE DEF new
    <3>4. SaversOverlap' /\ NothingCounts' /\ ListsAlone'
      BY <3>2 DEF Alone, SaversOverlap, NothingCounts, ListsAlone
    <3>5. CopiesAll'
      BY <3>1, <3>2, <2>2 DEF Alone, CopiesAll
    <3>6. Emptied'
      BY <2>2 DEF Alone, Emptied, Whole
    <3> QED
      BY <3>4, <3>5, <3>6 DEF Alone
  <2>7. Local!KeptUndisturbed'
    <3>1. Local!Writer' = Local!Writer
      BY <2>2 DEF Local!Writer
    <3>2. CASE c \in overlapped
      BY <3>2 DEF Alone, NothingCounts, Saving, Local!KeptUndisturbed
    <3>3. CASE c \notin overlapped
      <4>1. Local!Writer = {}
        BY <3>3, NoOther DEF Busy
      <4>2. Local!Kept' = Local!Kept
        BY <3>1, <4>1 DEF Local!Kept, Local!ReadRecords, Local!Range, Local!Broken
      <4> QED
        BY <4>2 DEF Local!KeptUndisturbed
    <3> QED
      BY <3>2, <3>3
  <2> QED
    BY <2>3, <2>5, <2>6, <2>7
<1>3. ASSUME NEW c \in Callers, Local!Fails(c) PROVE FileInv'
  <2> USE <1>3 DEF Local!Fails, FileInv
  <2>1. Local!TypeOK'
    BY DEF Local!TypeOK, Local!BusyCallers, Local!Busy
  <2>2. OneSaver'
    BY DEF OneSaver, Local!TypeOK, Saving, Holding, Whole
  <2>3. Alone'
    BY Leaving
  <2>4. Local!KeptUndisturbed'
    <3>1. Local!Writer' = Local!Writer
      BY DEF Local!Writer, Local!TypeOK
    <3> QED
      BY <3>1, NothingMoves
  <2> QED
    BY <2>1, <2>2, <2>3, <2>4
<1>4. ASSUME NEW c \in Callers, Local!Open(c) PROVE FileInv'
  <2> USE <1>4 DEF Local!Open, FileInv
  <2>1. Local!TypeOK'
    BY DEF Local!TypeOK, Local!BusyCallers, Local!Busy
  <2>2. OneSaver'
    BY DEF OneSaver, Local!TypeOK, Saving, Holding, Whole
  <2>3. \A d \in Callers : pc'[d] = IF d = c THEN "write" ELSE pc[d]
    BY DEF Local!TypeOK
  <2>5. Alone'
    <3>1. \A d \in Callers : (Saving(d)' <=> Saving(d)) /\ (Busy(d)' <=> Busy(d))
      BY <2>3 DEF Saving, Busy
    <3>2. ~Whole'
      BY DEF Whole, Local!Broken
    <3>3. ASSUME NEW d \in Callers, pc'[d] = "open" PROVE d \in overlapped
      BY <2>3, <3>3 DEF Alone, SaversOverlap, Saving
    <3> QED
      BY <2>3, <3>1, <3>2, <3>3 DEF Alone, SaversOverlap, NothingCounts, ListsAlone,
                                    CopiesAll, Emptied, Local!Range
  <2>6. Local!KeptUndisturbed'
    <3>1. CASE c \in overlapped
      BY <3>1 DEF Alone, NothingCounts, Saving, Local!KeptUndisturbed
    <3>2. CASE c \notin overlapped
      <4>1. Local!Writer = {} /\ Local!Writer' = {c}
        BY <3>2, <2>3, NoOther DEF Busy, Local!Writer
      <4>2. review[c] \notin Local!Range(Local!ReadRecords)
        BY DEF OneSaver, Saving
      <4>3. Local!Range(records[c]) \ {review[c]} = Local!Range(Local!ReadRecords)
        BY <3>2, <4>2 DEF Alone, CopiesAll
      <4>4. Local!Kept = Local!Range(Local!ReadRecords)
        BY <4>1 DEF Local!Kept
      <4>5. Local!Kept' = Local!Range(records[c]) \ {review[c]}
        BY <4>1 DEF Local!Kept, Local!Range
      <4> QED
        BY <4>3, <4>4, <4>5 DEF Local!KeptUndisturbed
    <3> QED
      BY <3>1, <3>2
  <2> QED
    BY <2>1, <2>2, <2>5, <2>6
<1>5. ASSUME NEW c \in Callers, Local!Write(c) PROVE FileInv'
  <2> USE <1>5 DEF Local!Write, FileInv
  <2>1. file' \in {records[c], Local!Broken}
    OBVIOUS
  <2>2. Local!TypeOK'
    <3>1. review[c] \in called /\ Unique(records[c])
      BY DEF OneSaver, Saving, Holding
    <3> QED
      BY <2>1, <3>1 DEF Local!TypeOK, Unique, Local!BusyCallers, Local!Busy
  <2>3. OneSaver'
    BY <2>1 DEF OneSaver, Local!TypeOK, Saving, Holding, Whole
  <2>4. Alone'
    BY Leaving DEF Saving
  <2>5. Local!KeptUndisturbed'
    <3>1. CASE c \in overlapped
      BY <3>1 DEF Alone, NothingCounts, Saving, Local!KeptUndisturbed
    <3>2. CASE c \notin overlapped
      <4>0. Local!Writer = {c}
        BY <3>2, NoOther DEF Busy
      <4>1. Local!Writer = {c} /\ Local!Writer' = {}
        BY <4>0 DEF Local!Writer, Local!TypeOK
      <4>2. file' = records[c] /\ file' # Local!Broken
        BY <3>2, <4>1 DEF Alone, Emptied, Whole, Local!TypeOK
      <4>3. Local!Kept = Local!Range(records[c]) \ {review[c]}
        BY <4>1 DEF Local!Kept
      <4>4. Local!Kept' = Local!Range(records[c])
        BY <4>1, <4>2 DEF Local!Kept, Local!ReadRecords
      <4>5. review[c] \in Local!Range(records[c])
        BY DEF OneSaver, Holding
      <4> QED
        BY <3>2, <4>3, <4>4, <4>5 DEF Local!KeptUndisturbed
    <3> QED
      BY <3>1, <3>2
  <2> QED
    BY <2>2, <2>3, <2>4, <2>5
<1>6. ASSUME NEW c \in Callers, Local!WriteFails(c) PROVE FileInv'
  <2> USE <1>6 DEF Local!WriteFails, FileInv
  <2>1. Local!TypeOK'
    BY DEF Local!TypeOK, Local!BusyCallers, Local!Busy
  <2>2. OneSaver'
    BY DEF OneSaver, Local!TypeOK, Saving, Holding, Whole
  <2>3. Alone'
    BY Leaving DEF Saving
  <2>4. Local!KeptUndisturbed'
    BY DEF Local!KeptUndisturbed
  <2> QED
    BY <2>1, <2>2, <2>3, <2>4
<1>7. ASSUME NEW c \in Callers, Local!CallList(c) PROVE FileInv'
  <2> USE <1>7 DEF Local!CallList, FileInv
  <2>1. Local!TypeOK'
    BY DEF Local!TypeOK, Local!BusyCallers, Local!Busy, Local!Savers
  <2>2. OneSaver'
    BY DEF OneSaver, Local!TypeOK, Saving, Holding, Whole, Local!Busy
  <2>3. Alone'
    <3>1. \A d \in Callers : pc'[d] = IF d = c THEN "list" ELSE pc[d]
      BY DEF Local!TypeOK
    <3>2. /\ \A d \in Callers : Saving(d)' <=> Saving(d)
          /\ \A d \in Callers : Saving(d) => (d \in overlapped' <=> d \in overlapped)
          /\ \A d \in Callers : Busy(d)' /\ d # c => Busy(d) /\ (d \in overlapped' <=> d \in overlapped)
          /\ c \notin overlapped' => \A d \in Callers : ~Saving(d)
      BY <3>1 DEF Saving, Busy, Local!Busy, Local!Savers
    <3>3. Local!ReadRecords' = Local!ReadRecords /\ (Whole' <=> Whole)
      BY DEF Local!ReadRecords, Whole, Local!Broken
    <3>4. SaversOverlap' /\ NothingCounts'
      BY <3>2 DEF Alone, SaversOverlap, NothingCounts
    <3>5. ListsAlone'
      BY <3>2 DEF Alone, ListsAlone
    <3>6. CopiesAll'
      <4>1. \A d \in Callers : Local!Range(records'[d]) = Local!Range(records[d])
        BY DEF Local!Range
      <4> QED
        BY <3>1, <3>2, <3>3, <4>1 DEF Alone, CopiesAll, Saving
    <3>7. Emptied'
      BY <3>1, <3>2, <3>3 DEF Alone, Emptied, Saving
    <3> QED
      BY <3>4, <3>5, <3>6, <3>7 DEF Alone
  <2>4. Local!KeptUndisturbed'
    <3>1. Local!Writer' = Local!Writer
      BY DEF Local!Writer, Local!TypeOK, Local!Busy
    <3> QED
      BY <3>1, NothingMoves
  <2> QED
    BY <2>1, <2>2, <2>3, <2>4
<1>8. ASSUME NEW c \in Callers, Local!List(c) PROVE FileInv'
  <2> USE <1>8 DEF Local!List, FileInv
  <2>1. Local!Range(Local!ReadRecords) \subseteq Reviews
    BY ElementOfSeq, LenProperties DEF Local!Range
  <2>2. Local!TypeOK'
    BY <2>1 DEF Local!TypeOK, Local!BusyCallers, Local!Busy
  <2>3. OneSaver'
    BY DEF OneSaver, Local!TypeOK, Saving, Holding, Whole
  <2>4. Alone'
    BY Leaving
  <2>5. Local!KeptUndisturbed'
    <3>1. Local!Writer' = Local!Writer
      BY DEF Local!Writer, Local!TypeOK
    <3> QED
      BY <3>1, NothingMoves
  <2> QED
    BY <2>2, <2>3, <2>4, <2>5
<1>9. CASE Local!Crash
  <2> USE <1>9 DEF Local!Crash, FileInv
  <2>1. Local!TypeOK' /\ OneSaver' /\ Alone'
    BY DEF Local!TypeOK, OneSaver, Alone, SaversOverlap, NothingCounts, ListsAlone,
           CopiesAll, Emptied, Saving, Holding, Busy, Whole, Local!BusyCallers
  <2>2. Local!KeptUndisturbed'
    <3>1. CASE Local!Writer = {}
      <4>1. Local!Writer' = {}
        BY DEF Local!Writer
      <4> QED
        BY <3>1, <4>1, NothingMoves
    <3>2. CASE Local!Writer # {}
      BY <3>2 DEF Local!KeptUndisturbed
    <3> QED
      BY <3>1, <3>2
  <2> QED
    BY <2>1, <2>2
<1> QED
  BY <1>1, <1>2, <1>3, <1>4, <1>5, <1>6, <1>7, <1>8, <1>9 DEF Local!Next

-----------------------------------------------------------------------------
(* Both *)

IInv ==
    /\ backend \in Backends
    /\ backend = "local" => FileInv
    /\ backend = "postgres" => TableInv

LEMMA InitInv == Init => IInv
  BY FileInit, TableInit DEF Init, IInv

LEMMA NextInv == IInv /\ [Next]_vars => IInv'
<1> SUFFICES ASSUME IInv, [Next]_vars PROVE IInv'
  OBVIOUS
<1>1. CASE UseLocal
  BY <1>1, FileNext DEF IInv, UseLocal
<1>2. CASE UsePostgres
  BY <1>2, TableNext DEF IInv, UsePostgres
<1>3. CASE UNCHANGED vars
  <2>1. FileInv => FileInv'
    <3> USE DEF Whole, Saving, Holding, Busy
    <3>0. /\ file' = file /\ pc' = pc /\ review' = review /\ records' = records
          /\ answer' = answer /\ called' = called /\ returned' = returned
          /\ overlapped' = overlapped
      BY <1>3 DEF vars, Local!vars
    <3>1. Local!TypeOK => Local!TypeOK'
      BY <3>0 DEF Local!TypeOK, Local!BusyCallers, Local!Busy
    <3>2. OneSaver => OneSaver'
      BY <3>0 DEF OneSaver
    <3>3. Alone => Alone'
      BY <3>0 DEF Alone, SaversOverlap, NothingCounts, ListsAlone, CopiesAll, Emptied,
                  Local!ReadRecords, Local!Broken
    <3>4. Local!KeptUndisturbed => Local!KeptUndisturbed'
      BY <3>0 DEF Local!KeptUndisturbed, Local!Kept, Local!Writer, Local!ReadRecords
    <3> QED
      BY <3>1, <3>2, <3>3, <3>4 DEF FileInv
  <2>2. TableInv => TableInv'
    BY <1>3 DEF vars, Postgres!vars, TableInv, Postgres!TypeOK, Postgres!StatementHasTable
  <2> QED
    BY <1>3, <2>1, <2>2 DEF vars, IInv
<1> QED
  BY <1>1, <1>2, <1>3 DEF Next

LEMMA Invariance == Spec => []IInv
  BY InitInv, NextInv, PTL DEF Spec

\* The variables of the store that was chosen keep their types, and the file never
\* lists a review twice, however callers overlap and die (save_review).
THEOREM TypeCorrect == Spec => []TypeOK
<1>1. IInv => TypeOK
  BY DEF IInv, TypeOK, FileInv, TableInv
<1> QED
  BY Invariance, <1>1, PTL

\* A review whose save returned and overlapped no other save stays in the file until two
\* saves overlap or one fails or dies while it rewrites the file, and so it is again for
\* what is saved after that (local_store.py, save_review).
THEOREM FileKeeps == Spec => []KeptUndisturbed
<1>1. IInv => KeptUndisturbed
  BY DEF IInv, KeptUndisturbed, FileInv
<1> QED
  BY Invariance, <1>1, PTL

\* No statement ever runs before the schema exists, whichever thread has set the flag of
\* a shared store object (ensure_schema, _schema_ready).
THEOREM SchemaBeforeStatement == Spec => []StatementHasTable
<1>1. IInv => StatementHasTable
  BY DEF IInv, StatementHasTable, TableInv
<1> QED
  BY Invariance, <1>1, PTL

-----------------------------------------------------------------------------
(* The contract *)

\* The steps the contract says nothing about: a caller that overlaps a save moves, or a
\* save is cut short while it rewrites the file.
Excused == \E c \in Callers :
              pc'[c] # pc[c] /\ (c \in overlapped \/ Local!Interrupted(c))

\* A save takes effect when the file has been written, a listing when it is read.
LEMMA FileStep ==
  ASSUME FileInv, FileInv', Local!Next, backend = "local", backend' = "local"
  PROVE  Excused \/ Contract!Next \/ UNCHANGED <<Saved, answer>>
<1> USE FileTypes DEF Saved, FileInv, Local!Goto, Local!Leave
<1>1. ASSUME NEW c \in Callers, Local!CallSave(c) \/ Local!CallList(c)
      PROVE  UNCHANGED <<Local!Kept, answer>>
  <2>1. Local!Writer' = Local!Writer /\ \A w \in Local!Writer : review'[w] = review[w]
    BY <1>1 DEF Local!CallSave, Local!CallList, Local!Writer, Local!TypeOK, Local!Busy
  <2>2. UNCHANGED <<file, records, answer>>
    BY <1>1 DEF Local!CallSave, Local!CallList
  <2> QED
    BY <2>1, <2>2, SameKept
<1>2. ASSUME NEW c \in Callers, Local!Read(c)
      PROVE  Excused \/ UNCHANGED <<Local!Kept, answer>>
  <2>1. CASE c \in overlapped
    BY <1>2, <2>1 DEF Local!Read, Local!TypeOK, Excused
  <2>2. CASE c \notin overlapped
    <3>1. Local!Writer = {} /\ Local!Writer' = {}
      BY <1>2, <2>2, NoOther DEF Local!Read, Local!Writer, Local!TypeOK, Busy
    <3>2. UNCHANGED <<file, answer>>
      BY <1>2 DEF Local!Read
    <3> QED
      BY <3>1, <3>2 DEF Local!Kept, Local!ReadRecords, Local!Range, Local!Broken
  <2> QED
    BY <2>1, <2>2
<1>3. ASSUME NEW c \in Callers, Local!Fails(c) PROVE UNCHANGED <<Local!Kept, answer>>
  <2>1. Local!Writer' = Local!Writer /\ \A w \in Local!Writer : review'[w] = review[w]
    BY <1>3 DEF Local!Fails, Local!Writer, Local!TypeOK
  <2>2. UNCHANGED <<file, records, answer>>
    BY <1>3 DEF Local!Fails
  <2> QED
    BY <2>1, <2>2, SameKept
<1>4. ASSUME NEW c \in Callers, Local!Open(c)
      PROVE  Excused \/ UNCHANGED <<Local!Kept, answer>>
  <2>1. CASE c \in overlapped
    BY <1>4, <2>1 DEF Local!Open, Local!TypeOK, Excused
  <2>2. CASE c \notin overlapped
    <3>1. Local!Writer = {} /\ Local!Writer' = {c}
      BY <1>4, <2>2, NoOther DEF Local!Open, Local!Writer, Local!TypeOK, Busy
    <3>2. Local!Range(records[c]) = Local!Range(Local!ReadRecords) \cup {review[c]}
      BY <1>4, <2>2 DEF Alone, CopiesAll, Local!Open
    <3>3. review[c] \notin Local!Range(Local!ReadRecords)
      BY <1>4 DEF OneSaver, Saving, Local!Open
    <3>4. Local!Kept = Local!Range(Local!ReadRecords)
      BY <3>1 DEF Local!Kept
    <3>5. Local!Kept' = Local!Range(records[c]) \ {review[c]}
      BY <1>4, <3>1 DEF Local!Kept, Local!Open, Local!Range
    <3> QED
      BY <1>4, <3>2, <3>3, <3>4, <3>5 DEF Local!Open
  <2> QED
    BY <2>1, <2>2
<1>5. ASSUME NEW c \in Callers, Local!Write(c)
      PROVE  Excused \/ Contract!Save(review[c])
  <2>1. CASE c \in overlapped
    BY <1>5, <2>1 DEF Local!Write, Local!TypeOK, Excused
  <2>2. CASE c \notin overlapped
    <3>0. Local!Writer = {c}
      BY <1>5, <2>2, NoOther DEF Local!Write, Busy
    <3>1. Local!Writer = {c} /\ Local!Writer' = {}
      BY <1>5, <3>0 DEF Local!Write, Local!Writer, Local!TypeOK
    <3>2. file' = records[c] /\ file' # Local!Broken /\ review[c] \in Local!Range(records[c])
      BY <1>5, <2>2, <3>1 DEF Local!Write, Alone, Emptied, OneSaver, Holding, Whole,
                              Local!TypeOK
    <3>3. Local!Kept = Local!Range(records[c]) \ {review[c]}
      BY <3>1 DEF Local!Kept
    <3>4. Local!Kept' = Local!Range(records[c])
      BY <3>1, <3>2 DEF Local!Kept, Local!ReadRecords
    <3> QED
      BY <1>5, <3>2, <3>3, <3>4 DEF Local!Write, Contract!Save
  <2> QED
    BY <2>1, <2>2
<1>6. ASSUME NEW c \in Callers, Local!WriteFails(c) PROVE Excused
  <2>1. CASE c \in overlapped
    BY <1>6, <2>1 DEF Local!WriteFails, Local!TypeOK, Excused
  <2>2. CASE c \notin overlapped
    <3>1. file' = Local!Broken /\ records[c] # Local!Broken
      BY <1>6, <2>2 DEF Local!WriteFails, Alone, Emptied, Whole, Local!TypeOK
    <3> QED
      BY <1>6, <3>1 DEF Local!WriteFails, Local!TypeOK, Local!Interrupted, Excused
  <2> QED
    BY <2>1, <2>2
<1>7. ASSUME NEW c \in Callers, Local!List(c) PROVE Excused \/ Contract!List(c)
  <2>1. CASE c \in overlapped
    BY <1>7, <2>1 DEF Local!List, Local!TypeOK, Excused
  <2>2. CASE c \notin overlapped
    <3>1. Local!Writer = {} /\ Local!Writer' = {}
      BY <1>7, <2>2, NoOther DEF Local!List, Local!Writer, Local!TypeOK, Busy
    <3>2. Local!Kept = Local!Range(Local!ReadRecords)
      BY <3>1 DEF Local!Kept
    <3>3. Local!Kept' = Local!Kept
      BY <1>7, <3>1, <3>2
      DEF Local!Kept, Local!ReadRecords, Local!List, Local!Range, Local!Broken
    <3> QED
      BY <1>7, <3>2, <3>3 DEF Local!List, Contract!List
  <2> QED
    BY <2>1, <2>2
<1>8. ASSUME Local!Crash PROVE Excused \/ UNCHANGED <<Local!Kept, answer>>
  <2>1. CASE Local!Writer = {}
    <3>1. Local!Writer' = {}
      BY <1>8 DEF Local!Crash, Local!Writer
    <3> QED
      BY <1>8, <2>1, <3>1
      DEF Local!Crash, Local!Kept, Local!ReadRecords, Local!Range, Local!Broken
  <2>2. CASE Local!Writer # {}
    <3>1. PICK c \in Callers : pc[c] = "write"
      BY <2>2 DEF Local!Writer
    <3>2. pc'[c] = "idle" /\ file' = file
      BY <1>8 DEF Local!Crash
    <3>3. c \in overlapped \/ file # records[c]
      BY <3>1 DEF Alone, Emptied, Whole, Local!TypeOK
    <3> QED
      BY <3>1, <3>2, <3>3 DEF Local!Interrupted, Excused
  <2> QED
    BY <2>1, <2>2
<1> QED
  BY <1>1, <1>2, <1>3, <1>4, <1>5, <1>6, <1>7, <1>8 DEF Local!Next, Contract!Next,
                                                        Local!TypeOK

\* A save takes effect at its commit, a listing at its SELECT.
LEMMA TableStep ==
  ASSUME Postgres!Next, backend = "postgres", backend' = "postgres"
  PROVE  Contract!Next \/ UNCHANGED <<Saved, answer>>
<1>1. ASSUME NEW c \in Callers, Postgres!CommitSave(c) PROVE Contract!Next
  BY <1>1 DEF Postgres!CommitSave, Postgres!Upserted, Contract!Next, Contract!Save, Saved
<1>2. ASSUME NEW c \in Callers, Postgres!SelectReviews(c) PROVE Contract!Next
  BY <1>2 DEF Postgres!SelectReviews, Contract!Next, Contract!List, Saved
<1>3. ASSUME NEW c \in Callers, Postgres!Fail(c)
      PROVE  Contract!Next \/ UNCHANGED <<Saved, answer>>
  BY <1>3 DEF Postgres!Fail, Postgres!Upserted, Contract!Next, Contract!Save, Saved
<1>4. ASSUME NEW c \in Callers,
             \/ Postgres!Call(c) \/ Postgres!EnsureSchema(c)
             \/ Postgres!CreateSchema(c) \/ Postgres!SetReady(c)
      PROVE UNCHANGED <<Saved, answer>>
  BY <1>4 DEF Postgres!Call, Postgres!EnsureSchema, Postgres!CreateSchema,
              Postgres!SetReady, Saved
<1>5. ASSUME NEW o \in Objects, Postgres!Restart(o) PROVE UNCHANGED <<Saved, answer>>
  BY <1>5 DEF Postgres!Restart, Saved
<1> QED
  BY <1>1, <1>2, <1>3, <1>4, <1>5 DEF Postgres!Next

\* Whichever store was chosen implements ReviewStore: the table always, the file except
\* where a caller that overlaps a save moves or a save is cut short while it rewrites the
\* file, and again afterwards.
THEOREM KeepsContract == Spec => ImplementsStore
<1>1. Init => Contract!Init
  <2> SUFFICES ASSUME Init PROVE Contract!Init
    OBVIOUS
  <2>1. Local!Kept = {}
    BY DEF Init, Local!Init, Local!Kept, Local!Writer, Local!ReadRecords, Local!Range,
           Local!Broken
  <2> QED
    BY <2>1 DEF Init, Local!Init, Postgres!Init, Saved, Contract!Init
<1>2. IInv /\ IInv' /\ [Next]_vars =>
        [\/ /\ backend = "local"
            /\ \E c \in Callers :
                  pc'[c] # pc[c] /\ (c \in overlapped \/ Local!Interrupted(c))
         \/ Contract!Next
         \/ UNCHANGED <<Saved, answer>>]_vars
  <2> SUFFICES ASSUME IInv, IInv', Next
               PROVE  \/ backend = "local" /\ Excused
                      \/ Contract!Next
                      \/ UNCHANGED <<Saved, answer>>
    BY DEF Excused
  <2>1. CASE UseLocal
    BY <2>1, FileStep DEF IInv, UseLocal
  <2>2. CASE UsePostgres
    BY <2>2, TableStep DEF UsePostgres
  <2> QED
    BY <2>1, <2>2 DEF Next
<1> QED
  BY Invariance, <1>1, <1>2, PTL DEF Spec, ImplementsStore
=============================================================================
