----------------------------- MODULE ModelClient -----------------------------
(***************************************************************************)
(* The calls of one review run to the model (backend/app/services/llm.py,  *)
(* LiteLLMClient): the client all threads of the pool share registers the  *)
(* Langfuse callback with litellm before its first request, a request is   *)
(* made again when its answer is no JSON object, and an object of an       *)
(* unexpected shape fails the call.                                        *)
(*                                                                         *)
(* An action here is one step of a thread in generate_review; it says      *)
(* nothing of the variables of the run the calls belong to.                *)
(***************************************************************************)
EXTENDS Naturals, FiniteSets

CONSTANTS
    MaxBatches,   \* bound: prompt batches of one run
    Attempts,     \* range(1, 3) in generate_review: two
    Tracing       \* whether the keys of Langfuse are configured

ASSUME ClientAssumption ==
    /\ {MaxBatches, Attempts} \subseteq Nat \ {0}
    /\ Tracing \in BOOLEAN

VARIABLES
    call,         \* where the call of each batch is
    attempt,      \* response_attempt of each call
    risk,         \* overall_risk each successful call returned
    ready,        \* _langfuse_ready
    registered    \* how often "langfuse" is in each list of callbacks of litellm

client == <<call, attempt, risk, ready, registered>>

Calls == 1 .. MaxBatches
Risks == 0 .. 2       \* low, medium (also anything unknown), high
Lists == {"success", "failure"}

\* Between the lock and its release: looking into a list of callbacks, about to append
\* to it, about to set the flag.
Locked == {"look_success", "append_success", "look_failure", "append_failure", "set_ready"}
\* In the hands of a thread of the pool.
OnThread == {"waiting", "running"} \cup Locked
CallStates == {"none", "queued", "ok", "failed", "cancelled"} \cup OnThread

ClientTypeOK ==
    /\ call \in [Calls -> CallStates]
    /\ attempt \in [Calls -> 0 .. Attempts]
    /\ risk \in [Calls -> Risks]
    /\ ready \in BOOLEAN
    /\ registered \in [Lists -> Nat]

\* The run is the first of its client, or a later one.
ClientInit ==
    /\ call = [b \in Calls |-> "none"]
    /\ attempt = [b \in Calls |-> 0]
    /\ risk = [b \in Calls |-> 0]
    /\ ready \in {FALSE, Tracing}
    /\ registered = [l \in Lists |-> IF ready THEN 1 ELSE 0]

-----------------------------------------------------------------------------
(* _ensure_langfuse_callback *)

\* A thread takes a call: without the lock it looks whether there is anything to do.
Enter(b) ==
    /\ call[b] = "queued"
    /\ call' = [call EXCEPT ![b] = IF ready \/ ~Tracing THEN "running" ELSE "waiting"]
    /\ attempt' = [attempt EXCEPT ![b] = 1]
    /\ UNCHANGED <<risk, ready, registered>>

\* No lock at all.
LockIgnored == TRUE

LockFree == \A b \in Calls : call[b] \notin Locked

\* With the lock it looks again.
TakeLock(b) ==
    /\ call[b] = "waiting"
    /\ LockFree
    /\ call' = [call EXCEPT ![b] = IF ready THEN "running" ELSE "look_success"]
    /\ UNCHANGED <<attempt, risk, ready, registered>>

Looking(list) == IF list = "success" THEN "look_success" ELSE "look_failure"
Appending(list) == IF list = "success" THEN "append_success" ELSE "append_failure"
AfterList(list) == IF list = "success" THEN "look_failure" ELSE "set_ready"

LookIntoList(b, list) ==
    /\ call[b] = Looking(list)
    /\ call' = [call EXCEPT ![b] =
                   IF registered[list] = 0 THEN Appending(list) ELSE AfterList(list)]
    /\ UNCHANGED <<attempt, risk, ready, registered>>

Register(b, list) ==
    /\ call[b] = Appending(list)
    /\ registered' = [registered EXCEPT ![list] = @ + 1]
    /\ call' = [call EXCEPT ![b] = AfterList(list)]
    /\ UNCHANGED <<attempt, risk, ready>>

SetReady(b) ==
    /\ call[b] = "set_ready"
    /\ ready' = TRUE
    /\ call' = [call EXCEPT ![b] = "running"]
    /\ UNCHANGED <<attempt, risk, registered>>

-----------------------------------------------------------------------------
(* The request *)

\* One attempt too many.
LastAttemptOnceMore(b) == attempt[b] > Attempts

LastAttempt(b) == attempt[b] = Attempts

Fail(b) ==
    /\ call' = [call EXCEPT ![b] = "failed"]
    /\ UNCHANGED attempt

\* The model answered with a JSON object, perhaps in the middle of a text.
Answer(b) ==
    /\ call[b] = "running"
    /\ call' = [call EXCEPT ![b] = "ok"]
    /\ \E r \in Risks : risk' = [risk EXCEPT ![b] = r]
    /\ UNCHANGED <<attempt, ready, registered>>

\* _parse_json raises, the answer is empty or no JSON object: ask again, or raise at the
\* last attempt.
BadAnswer(b) ==
    /\ call[b] = "running"
    /\ IF LastAttempt(b) THEN Fail(b)
       ELSE attempt' = [attempt EXCEPT ![b] = @ + 1] /\ UNCHANGED call
    /\ UNCHANGED <<risk, ready, registered>>

\* The object has findings that are no list, or a confidence that is no number: its
\* conversion raises, and nobody asks again.
OddAnswer(b) ==
    /\ call[b] = "running"
    /\ Fail(b)
    /\ UNCHANGED <<risk, ready, registered>>

\* completion() itself raises, after its own transport retry: not retried either.
CallError(b) ==
    /\ call[b] = "running"
    /\ Fail(b)
    /\ UNCHANGED <<risk, ready, registered>>

-----------------------------------------------------------------------------
(* Properties *)

\* However the threads meet at the callback, a request is made only when litellm
\* reports both its success and its failure to Langfuse, and reports each once
\* (llm.py, _ensure_langfuse_callback).
CallsTraced ==
    Tracing => \A b \in Calls : call[b] = "running" => \A l \in Lists : registered[l] = 1
=============================================================================
