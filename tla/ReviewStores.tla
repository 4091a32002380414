---------------------------- MODULE ReviewStores ----------------------------
(***************************************************************************)
(* The store the settings choose (backend/app/storage/factory.py,          *)
(* create_review_store): a JSON file or a Postgres table.  The callers     *)
(* know neither; they rely on the contract of ReviewStore.                 *)
(*                                                                         *)
(* pc and answer belong to the callers and are the same for both stores;   *)
(* the variables of the store that was not chosen never change.            *)
(***************************************************************************)
EXTENDS Naturals, Sequences, FiniteSets

CONSTANTS
    Reviews,     \* results to save
    Callers,     \* threads that use the store
    Objects,     \* objects of the Postgres store
    Backends     \* values of STORAGE_BACKEND, a subset of {"local", "postgres"}

\* What is written to the file while a store is at work is no review.
ASSUME StoresAssumption ==
    /\ Backends \subseteq {"local", "postgres"}
    /\ Reviews # {} /\ Objects # {}
    /\ "not JSON" \notin Reviews

VARIABLES
    backend,     \* the store that was created
    pc,          \* the step each caller is at
    answer,      \* what the last listing of a caller returned
    file, review, records, called, returned, overlapped,   \* LocalJsonStore
    table, rows, ready, object, operation                  \* PostgresReviewStore

Local == INSTANCE LocalJsonStore
Postgres == INSTANCE PostgresReviewStore

vars == <<backend, Local!vars, Postgres!vars>>

TypeOK ==
    /\ backend \in Backends
    /\ backend = "local" => Local!TypeOK
    /\ backend = "postgres" => Postgres!TypeOK

Init ==
    /\ backend \in Backends
    /\ Local!Init
    /\ Postgres!Init

UseLocal ==
    /\ backend = "local"
    /\ Local!Next
    /\ UNCHANGED <<backend, table, rows, ready, object, operation>>

UsePostgres ==
    /\ backend = "postgres"
    /\ Postgres!Next
    /\ UNCHANGED <<backend, file, review, records, called, returned, overlapped>>

Next == UseLocal \/ UsePostgres

Spec == Init /\ [][Next]_vars

-----------------------------------------------------------------------------
(* Properties *)

Saved == IF backend = "local" THEN Local!Kept ELSE rows

Contract == INSTANCE ReviewStore WITH saved <- Saved

\* Whichever store was chosen is a review store: a save adds its review to all the
\* earlier ones and a listing returns them all.  The Postgres table is one with any
\* number of callers, failures and restarts.  The file is one except where a caller that
\* overlaps a save takes a step, or a save fails or dies while it rewrites the file; it
\* is one again for every call that follows.
ImplementsStore ==
    /\ Contract!Init
    /\ [][\/ /\ backend = "local"
             /\ \E c \in Callers :
                   pc'[c] # pc[c] /\ (c \in overlapped \/ Local!Interrupted(c))
          \/ Contract!Next
          \/ UNCHANGED <<Saved, answer>>]_vars

\* A review whose save returned and overlapped no other save stays in the file until two
\* saves overlap or one fails or dies while it rewrites the file (local_store.py).
KeptUndisturbed == backend = "local" => Local!KeptUndisturbed

\* No statement ever meets a missing table (ensure_schema and its shared flag).
StatementHasTable == backend = "postgres" => Postgres!StatementHasTable
=============================================================================
