--------------------------- MODULE LocalJsonStore ---------------------------
(***************************************************************************)
(* The store in one JSON file (backend/app/storage/local_store.py).        *)
(*                                                                         *)
(* save_review reads the whole file, appends its record to that copy and   *)
(* writes the copy back; write_text empties the file first and then fills  *)
(* it, without a lock and without a second file.  Readers may come between *)
(* any two of these steps; what is not a JSON list reads as no reviews.    *)
(* Two writers that have the file open at once each write from its start,  *)
(* so the outcome is one of the two lists or no JSON at all.  Every step   *)
(* may fail, write_text also after it has emptied the file.                *)
(***************************************************************************)
EXTENDS Naturals, Sequences, FiniteSets

CONSTANTS
    Reviews,     \* results to save, each once (review_run_ids are UUIDs)
    Callers      \* threads that use the store

VARIABLES
    file,     \* the reviews in the file, oldest first, or Broken
    pc,       \* what each caller is about to do
    review,   \* the review a caller saves
    records,  \* the list a caller has read
    answer,   \* what the last listing of a caller returned
    called,   \* observer: the reviews somebody has started to save
    returned, \* observer: the reviews whose save returned, since two saves last
              \* overlapped or one was cut short while it rewrote the file
    overlapped \* observer: the busy callers that have overlapped a save

vars == <<file, pc, review, records, answer, called, returned, overlapped>>

Broken == <<"not JSON">>
Range(list) == {list[i] : i \in DOMAIN list}
Busy(c) == pc[c] # "idle"
BusyCallers == {c \in Callers : Busy(c)}
Savers == {c \in Callers : pc[c] \in {"read", "open", "write"}}
Writer == {c \in Callers : pc[c] = "write"}

\* However saves overlap and crash, the file never lists a review twice, so that a
\* listing never shows a run more than once (save_review).
TypeOK ==
    /\ file \in Seq(Reviews) \cup {Broken}
    /\ pc \in [Callers -> {"idle", "read", "open", "write", "list"}]
    /\ review \in [Callers -> Reviews]
    /\ records \in [Callers -> Seq(Reviews)]
    /\ answer \in [Callers -> SUBSET Reviews]
    /\ returned \subseteq called /\ called \subseteq Reviews
    /\ overlapped \subseteq BusyCallers
    /\ file # Broken => \A i, j \in DOMAIN file : file[i] = file[j] => i = j

\* The file does not exist: it reads like an empty list.
Init ==
    /\ file = <<>>
    /\ pc = [c \in Callers |-> "idle"]
    /\ review = [c \in Callers |-> CHOOSE r \in Reviews : TRUE]
    /\ records = [c \in Callers |-> <<>>]
    /\ answer = [c \in Callers |-> {}]
    /\ called = {}
    /\ returned = {}
    /\ overlapped = {}

Goto(c, step) == pc' = [pc EXCEPT ![c] = step]

Leave(c) ==
    /\ Goto(c, "idle")
    /\ overlapped' = overlapped \ {c}

\* _read_records: anything but a JSON list reads as no reviews.
ReadRecords == IF file = Broken THEN <<>> ELSE file

CallSave(c) ==
    /\ ~Busy(c)
    /\ \E r \in Reviews \ called :
          /\ review' = [review EXCEPT ![c] = r]
          /\ called' = called \cup {r}
    /\ overlapped' = BusyCallers \cup (IF Savers = {} THEN {} ELSE {c})
    /\ returned' = IF Savers = {} THEN returned ELSE {}
    /\ Goto(c, "read")
    /\ UNCHANGED <<file, records, answer>>

\* A save that keeps its own record only, and one that is written twice.
ExtendedAlone(list, r) == <<r>>
ExtendedTwice(list, r) == list \o <<r, r>>

Extended(list, r) == Append(list, r)

Read(c) ==
    /\ pc[c] = "read"
    /\ records' = [records EXCEPT ![c] = Extended(ReadRecords, review[c])]
    /\ Goto(c, "open")
    /\ UNCHANGED <<file, review, answer, called, returned, overlapped>>

\* A step before the file is opened for writing raises: the folder, the file or its
\* contents cannot be read.  A file that ends inside a character is not UTF-8, which
\* _read_records does not catch.
Fails(c) ==
    /\ pc[c] \in {"read", "open", "list"}
    /\ Leave(c)
    /\ UNCHANGED <<file, review, records, answer, called, returned>>

\* write_text opens the file for writing, which empties it.
Open(c) ==
    /\ pc[c] = "open"
    /\ file' = Broken
    /\ Goto(c, "write")
    /\ UNCHANGED <<review, records, answer, called, returned, overlapped>>

\* The rest of write_text.  If another writer has the file open as well, or has
\* filled it since, what is left may be a mixture of both.
Write(c) ==
    /\ pc[c] = "write"
    /\ \/ file' = records[c]
       \/ /\ file # Broken \/ Writer # {c}
          /\ file' = Broken
    /\ returned' = IF c \in overlapped THEN returned ELSE returned \cup {review[c]}
    /\ Leave(c)
    /\ UNCHANGED <<review, records, answer, called>>

\* write_text raises with the file open: the disk is full, or the text holds half a
\* surrogate pair, which json.dumps keeps (ensure_ascii=False) and UTF-8 cannot encode.
WriteFails(c) ==
    /\ pc[c] = "write"
    /\ file' \in {file, Broken}
    /\ returned' = {}
    /\ Leave(c)
    /\ UNCHANGED <<review, records, answer, called>>

CallList(c) ==
    /\ ~Busy(c)
    /\ overlapped' = overlapped \cup (IF Savers = {} THEN {} ELSE {c})
    /\ Goto(c, "list")
    /\ UNCHANGED <<file, review, records, answer, called, returned>>

List(c) ==
    /\ pc[c] = "list"
    /\ answer' = [answer EXCEPT ![c] = Range(ReadRecords)]
    /\ Leave(c)
    /\ UNCHANGED <<file, review, records, called, returned>>

\* The process dies; what is in the file stays.
Crash ==
    /\ pc' = [c \in Callers |-> "idle"]
    /\ overlapped' = {}
    /\ returned' = IF Writer = {} THEN returned ELSE {}
    /\ UNCHANGED <<file, review, records, answer, called>>

Next ==
    \/ \E c \in Callers :
          \/ CallSave(c) \/ Read(c) \/ Open(c) \/ Write(c) \/ WriteFails(c)
          \/ CallList(c) \/ List(c) \/ Fails(c)
    \/ Crash

Spec == Init /\ [][Next]_vars

-----------------------------------------------------------------------------
(* Properties *)

\* While a single caller rewrites the file, the reviews saved so far are those it has
\* read, without its own.
Kept ==
    IF Writer = {} THEN Range(ReadRecords)
    ELSE UNION {Range(records[c]) \ {review[c]} : c \in Writer}

\* A review whose save returned and overlapped no other save is in the file, and stays
\* there until two saves overlap or one fails or dies while it rewrites the file
\* (save_review, _read_records).  What came before such an accident may be lost; what is
\* saved after it counts again.
KeptUndisturbed == returned \subseteq Kept

\* A save fails or dies while it rewrites the file, without having filled it.
Interrupted(c) == pc[c] = "write" /\ pc'[c] = "idle" /\ file' # records[c]
=============================================================================
