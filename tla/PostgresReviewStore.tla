------------------------- MODULE PostgresReviewStore -------------------------
(***************************************************************************)
(* The store in a Postgres table (backend/app/storage/postgres_store.py).  *)
(*                                                                         *)
(* Every operation first makes sure of the schema, once per store object   *)
(* (_schema_ready), and then runs one statement in a transaction of its    *)
(* own connection.  A store object is shared: the service's one serves the *)
(* threads of all its runs, and every webhook task makes one more          *)
(* (main.py).  The database is external: a transaction commits as a whole  *)
(* or not at all, and a call may fail or lose its answer at any step.      *)
(***************************************************************************)
EXTENDS Naturals, FiniteSets

CONSTANTS
    Reviews,    \* results to save
    Callers,    \* threads that use a store
    Objects     \* store objects, in one or several processes

VARIABLES
    table,      \* the table exists
    rows,       \* committed rows of review_runs
    ready,      \* _schema_ready of each store object
    pc,         \* the step a caller is at
    object,     \* the store object a caller uses
    operation,  \* the operation under way: a review to save, or Listing
    answer      \* what the last listing of a caller returned

vars == <<table, rows, ready, pc, object, operation, answer>>

Listing == "list_reviews"

TypeOK ==
    /\ table \in BOOLEAN
    /\ rows \subseteq Reviews
    /\ ready \in [Objects -> BOOLEAN]
    /\ pc \in [Callers -> {"idle", "ensure", "create", "flag", "statement"}]
    /\ object \in [Callers -> Objects]
    /\ operation \in [Callers -> Reviews \cup {Listing}]
    /\ answer \in [Callers -> SUBSET Reviews]

Init ==
    /\ table = FALSE
    /\ rows = {}
    /\ ready = [o \in Objects |-> FALSE]
    /\ pc = [c \in Callers |-> "idle"]
    /\ object = [c \in Callers |-> CHOOSE o \in Objects : TRUE]
    /\ operation = [c \in Callers |-> Listing]
    /\ answer = [c \in Callers |-> {}]

Goto(c, step) == pc' = [pc EXCEPT ![c] = step]

Call(c) ==
    /\ pc[c] = "idle"
    /\ \E o \in Objects : object' = [object EXCEPT ![c] = o]
    /\ \E o \in Reviews \cup {Listing} : operation' = [operation EXCEPT ![c] = o]
    /\ Goto(c, "ensure")
    /\ UNCHANGED <<table, rows, ready, answer>>

\* Setting the flag before the schema has been created.
EnsureSchemaFlagFirst(c) ==
    /\ pc[c] = "ensure"
    /\ ready' = [ready EXCEPT ![object[c]] = TRUE]
    /\ Goto(c, IF ready[object[c]] THEN "statement" ELSE "create")
    /\ UNCHANGED <<table, rows, object, operation, answer>>

\* A thread may find the flag another thread has set on the same object.
EnsureSchema(c) ==
    /\ pc[c] = "ensure"
    /\ Goto(c, IF ready[object[c]] THEN "statement" ELSE "create")
    /\ UNCHANGED <<table, rows, ready, object, operation, answer>>

\* CREATE ... IF NOT EXISTS; leaving the connection's block commits it.
CreateSchema(c) ==
    /\ pc[c] = "create"
    /\ table' = TRUE
    /\ Goto(c, "flag")
    /\ UNCHANGED <<rows, ready, object, operation, answer>>

\* Only then is the flag set, for every thread that shares the object.
SetReady(c) ==
    /\ pc[c] = "flag"
    /\ ready' = [ready EXCEPT ![object[c]] = TRUE]
    /\ Goto(c, "statement")
    /\ UNCHANGED <<table, rows, object, operation, answer>>

\* INSERT ... ON CONFLICT DO UPDATE.
Upserted(r) == rows \cup {r}

CommitSave(c) ==
    /\ pc[c] = "statement"
    /\ operation[c] \in Reviews
    /\ rows' = Upserted(operation[c])
    /\ Goto(c, "idle")
    /\ UNCHANGED <<table, ready, object, operation, answer>>

SelectReviews(c) ==
    /\ pc[c] = "statement"
    /\ operation[c] = Listing
    /\ answer' = [answer EXCEPT ![c] = rows]
    /\ Goto(c, "idle")
    /\ UNCHANGED <<table, rows, ready, object, operation>>

\* The connection or the statement fails, or only the answer to a commit is lost.
Fail(c) ==
    /\ pc[c] \in {"create", "statement"}
    /\ table' \in {table, table \/ pc[c] = "create"}
    /\ \/ rows' = rows
       \/ /\ pc[c] = "statement"
          /\ operation[c] \in Reviews
          /\ rows' = Upserted(operation[c])
    /\ Goto(c, "idle")
    /\ UNCHANGED <<ready, object, operation, answer>>

\* The process that holds a store object dies, and comes back with a new object.
Restart(o) ==
    /\ pc' = [c \in Callers |-> IF object[c] = o THEN "idle" ELSE pc[c]]
    /\ ready' = [ready EXCEPT ![o] = FALSE]
    /\ UNCHANGED <<table, rows, object, operation, answer>>

Next ==
    \/ \E c \in Callers :
          \/ Call(c) \/ EnsureSchema(c) \/ CreateSchema(c) \/ SetReady(c)
          \/ CommitSave(c) \/ SelectReviews(c) \/ Fail(c)
    \/ \E o \in Objects : Restart(o)

Spec == Init /\ [][Next]_vars

-----------------------------------------------------------------------------
(* Properties *)

\* No statement ever meets a missing table, whoever created the schema and whoever set
\* the flag that a thread found (ensure_schema, _schema_ready).
StatementHasTable == \A c \in Callers : pc[c] = "statement" => table
=============================================================================
