------------------------------ MODULE EventLog ------------------------------
(***************************************************************************)
(* The list of events InMemoryReviewEventBus keeps for one review run      *)
(* (backend/app/services/events.py), as operators without state.  An event *)
(* is the part of ReviewEvent the bus itself looks at: the sequence number *)
(* (the SSE id) and the event type.                                        *)
(***************************************************************************)
EXTENDS Naturals, Sequences

Event(Types) == [seq : Nat \ {0}, type : Types]

\* A publish that numbers from zero.
NextEventFromZero(log, type) == [seq |-> Len(log), type |-> type]

\* sequence = len(events) + 1, computed under the bus lock.
NextEvent(log, type) == [seq |-> Len(log) + 1, type |-> type]

\* del events[: len(events) - max]: only the newest max events stay.
Trimmed(log, max) ==
    IF Len(log) > max THEN SubSeq(log, Len(log) - max + 1, Len(log)) ELSE log

\* The list after one publish.
Published(log, type, max) == Trimmed(Append(log, NextEvent(log, type)), max)

\* A snapshot taken after next_sequence instead of next_sequence - 1.
SnapshotSkipping(log, after) ==
    [i \in {j \in DOMAIN log : log[j].seq > after + 1} |-> log[i]]

\* The comprehension of snapshot(): the events numbered above after, under the
\* positions they have in the list; a for loop takes them by rising position.
Snapshot(log, after) ==
    [i \in {j \in DOMAIN log : log[j].seq > after} |-> log[i]]

IsFirst(i, batch) == i \in DOMAIN batch /\ \A j \in DOMAIN batch : i <= j
=============================================================================
