---------------------------- MODULE PolicyIndex ----------------------------
(***************************************************************************)
(* The policy index in Postgres (PostgresPolicyIndex of                    *)
(* backend/app/services/rag.py): sync() replaces the table by what the     *)
(* policy folder holds, search() and has_policy() fill an empty table      *)
(* first.                                                                  *)
(*                                                                         *)
(* Users are review threads, the sync endpoint and the CLI, each with a    *)
(* connection per transaction.  The database is external and runs READ     *)
(* COMMITTED: a DELETE works on the rows committed when it started, waits  *)
(* for a row another transaction has touched and passes over a row that    *)
(* transaction deleted; an INSERT waits for another one of the same        *)
(* content_hash and then updates its row.  A chunk stands for its hash, so *)
(* the table is a set of chunks.  The folder always has a policy file.     *)
(* ensure_schema is that of PostgresReviewStore; the table exists here.    *)
(***************************************************************************)
EXTENDS SequencesExt

CONSTANTS
    Users,      \* concurrent users of the index
    Chunks,     \* policy chunks
    Versions    \* contents the policy folder may have: sequences of chunks

ASSUME VersionsAssumption == Versions \subseteq Seq(Chunks) /\ Versions # {}

VARIABLES
    rows,       \* committed rows of policy_chunks
    call,       \* the operation a user is running
    pc,         \* the step it is at
    chunks,     \* what its load_chunks() returned
    left,       \* the chunks its transaction has yet to insert
    found,      \* rows its DELETE started from and which nobody else deleted
    gone,       \* rows its transaction has deleted
    written,    \* rows its transaction has inserted or updated
    answer,     \* what its last search() or has_policy() was answered from
    alone       \* observer: no other transaction has overlapped its own

vars == <<rows, call, pc, chunks, left, found, gone, written, answer, alone>>

TypeOK ==
    /\ rows \subseteq Chunks
    /\ call \in [Users -> {"sync", "search", "has_policy"}]
    /\ pc \in [Users -> {"idle", "look", "load", "begin", "delete", "insert", "reload", "done"}]
    /\ chunks \in [Users -> Versions]
    /\ left \in [Users -> Seq(Chunks)]
    /\ found \in [Users -> SUBSET rows]
    /\ gone \in [Users -> SUBSET rows]
    /\ written \in [Users -> SUBSET Chunks]
    /\ answer \in [Users -> SUBSET Chunks]
    /\ alone \in [Users -> BOOLEAN]

Init ==
    /\ rows = {}
    /\ call = [u \in Users |-> "sync"]
    /\ pc = [u \in Users |-> "idle"]
    /\ chunks \in [Users -> {CHOOSE v \in Versions : TRUE}]
    /\ left = [u \in Users |-> <<>>]
    /\ found = [u \in Users |-> {}]
    /\ gone = [u \in Users |-> {}]
    /\ written = [u \in Users |-> {}]
    /\ answer = [u \in Users |-> {}]
    /\ alone = [u \in Users |-> TRUE]

Goto(u, step) == pc' = [pc EXCEPT ![u] = step]
Transacting(u) == pc[u] \in {"delete", "insert"}
Touched(u) == gone[u] \cup written[u]
Free(u, c) == \A v \in Users \ {u} : c \notin Touched(v)

Call(u, operation) ==
    /\ pc[u] \in {"idle", "done"}
    /\ call' = [call EXCEPT ![u] = operation]
    /\ Goto(u, IF operation = "sync" THEN "load" ELSE "look")
    /\ UNCHANGED <<rows, chunks, left, found, gone, written, answer, alone>>

Look(u) ==
    /\ pc[u] = "look"
    /\ answer' = [answer EXCEPT ![u] = rows]
    /\ Goto(u, IF rows = {} THEN "load" ELSE "done")
    /\ UNCHANGED <<rows, call, chunks, left, found, gone, written, alone>>

LoadChunks(u) ==
    /\ pc[u] = "load"
    /\ chunks' \in {[chunks EXCEPT ![u] = v] : v \in Versions}
    /\ Goto(u, "begin")
    /\ UNCHANGED <<rows, call, left, found, gone, written, answer, alone>>

\* An index that is added to and never emptied.
RowsToDeleteNone == {}

\* The rows a DELETE without a condition sees.
RowsToDelete == rows

StartDelete(u) ==
    /\ pc[u] = "begin"
    /\ found' = [found EXCEPT ![u] = RowsToDelete]
    /\ left' = [left EXCEPT ![u] = chunks[u]]
    /\ LET others == {v \in Users \ {u} : Transacting(v)}
       IN alone' = [v \in Users |-> IF v = u THEN others = {} ELSE alone[v] /\ v \notin others]
    /\ Goto(u, "delete")
    /\ UNCHANGED <<rows, call, chunks, gone, written, answer>>

DeleteRow(u, c) ==
    /\ pc[u] = "delete"
    /\ c \in found[u] \ gone[u]
    /\ Free(u, c)
    /\ gone' = [gone EXCEPT ![u] = @ \cup {c}]
    /\ UNCHANGED <<rows, call, pc, chunks, left, found, written, answer, alone>>

EndDelete(u) ==
    /\ pc[u] = "delete"
    /\ gone[u] = found[u]
    /\ Goto(u, "insert")
    /\ UNCHANGED <<rows, call, chunks, left, found, gone, written, answer, alone>>

\* An INSERT committed on its own.
InsertCommitted(u) ==
    /\ pc[u] = "insert"
    /\ left[u] # <<>>
    /\ Free(u, Head(left[u]))
    /\ rows' = rows \cup {Head(left[u])}
    /\ left' = [left EXCEPT ![u] = Tail(@)]
    /\ UNCHANGED <<call, pc, chunks, found, gone, written, answer, alone>>

\* INSERT ... ON CONFLICT DO UPDATE, one statement per chunk.
Insert(u) ==
    /\ pc[u] = "insert"
    /\ left[u] # <<>>
    /\ Free(u, Head(left[u]))
    /\ written' = [written EXCEPT ![u] = @ \cup {Head(left[u])}]
    /\ left' = [left EXCEPT ![u] = Tail(@)]
    /\ UNCHANGED <<rows, call, pc, chunks, found, gone, answer, alone>>

\* A DELETE of another transaction that takes a row inserted after it for the old one.
StillFoundByHash(u) == [found EXCEPT ![u] = {}]

\* What the DELETEs of the others may still remove once u has committed.
StillFound(u) == [v \in Users |-> IF v = u THEN {} ELSE found[v] \ gone[u]]

\* search() reads again; has_policy() counts what sync() has indexed.
Commit(u) ==
    /\ pc[u] = "insert"
    /\ left[u] = <<>>
    /\ rows' = (rows \ gone[u]) \cup written[u]
    /\ found' = StillFound(u)
    /\ gone' = [gone EXCEPT ![u] = {}]
    /\ written' = [written EXCEPT ![u] = {}]
    /\ answer' = [answer EXCEPT ![u] = ToSet(chunks[u])]
    /\ Goto(u, CASE call[u] = "sync" -> "idle" [] call[u] = "search" -> "reload"
                 [] call[u] = "has_policy" -> "done")
    /\ UNCHANGED <<call, chunks, left, alone>>

Reload(u) ==
    /\ pc[u] = "reload"
    /\ answer' = [answer EXCEPT ![u] = rows]
    /\ Goto(u, "done")
    /\ UNCHANGED <<rows, call, chunks, left, found, gone, written, alone>>

\* A statement fails, the database breaks a deadlock or the process dies: rolled back.
Fail(u) ==
    /\ pc[u] \notin {"idle", "done"}
    /\ left' = [left EXCEPT ![u] = <<>>]
    /\ found' = [found EXCEPT ![u] = {}]
    /\ gone' = [gone EXCEPT ![u] = {}]
    /\ written' = [written EXCEPT ![u] = {}]
    /\ Goto(u, "idle")
    /\ UNCHANGED <<rows, call, chunks, answer, alone>>

Next == \E u \in Users :
    \/ \E operation \in {"sync", "search", "has_policy"} : Call(u, operation)
    \/ Look(u) \/ LoadChunks(u) \/ StartDelete(u) \/ EndDelete(u) \/ Insert(u)
    \/ \E c \in Chunks : DeleteRow(u, c)
    \/ Commit(u) \/ Reload(u) \/ Fail(u)

Spec == Init /\ [][Next]_vars

-----------------------------------------------------------------------------
(* Properties *)

\* Whatever syncs overlap, and whichever of them fail, the table never holds only a
\* part of a policy: it is empty or holds all chunks of some version of the folder.
HoldsWholeVersion == rows = {} \/ \E v \in Versions : ToSet(v) \subseteq rows

\* A search or has_policy that returns has been answered from a whole policy, also when
\* it met an empty index (the lazy sync of search() and has_policy()).
AnswersWhole ==
    \A u \in Users : pc[u] = "done" => \E v \in Versions : ToSet(v) \subseteq answer[u]

\* Neither the table nor an answer ever shows a part of a policy only.
WholePolicies == HoldsWholeVersion /\ AnswersWhole

\* A sync no other one overlaps leaves exactly the chunks it has read.
SyncAloneReplaces ==
    [][\A u \in Users : Commit(u) /\ alone[u] => rows' = ToSet(chunks[u])]_vars
=============================================================================
