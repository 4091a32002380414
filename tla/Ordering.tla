------------------------------ MODULE Ordering ------------------------------
(***************************************************************************)
(* What Python's sorted gives for a set whose elements come in one order    *)
(* only.                                                                   *)
(***************************************************************************)
EXTENDS Integers, Sequences, FiniteSets

\* The elements of a set, one after the other; before[a] is the set of those ahead of a.
InOrder(before) ==
    [k \in 1 .. Cardinality(DOMAIN before) |->
        CHOOSE a \in DOMAIN before : Cardinality(before[a]) = k - 1]

Ascending(numbers) == InOrder([n \in numbers |-> {m \in numbers : m < n}])

FirstOf(list, n) == SubSeq(list, 1, IF n < Len(list) THEN n ELSE Len(list))
=============================================================================
