----------------------------- MODULE ReviewRun -----------------------------
(***************************************************************************)
(* One review run, from the queued event to the end of its caller:         *)
(*   - the graph of nodes (backend/app/services/review_graph.py),          *)
(*   - the orchestrator around it (orchestrator.py), which turns an        *)
(*     exception of any node into a review_failed event and re-raises,     *)
(*   - the caller (backend/app/main.py): the API task, which logs the      *)
(*     exception, or the webhook task, which reports it once more,         *)
(*   - the pool that runs one model call per prompt batch; what a call     *)
(*     does is ModelClient.                                                *)
(*                                                                         *)
(* A node is one action, except call_llm, whose events and model calls     *)
(* interleave.  What a node computes is kept as far as control depends on  *)
(* it: whether the route uses RAG, the number of batches, the outcome and  *)
(* risk of a call.  Nodes that reach a database, a model or GitHub may     *)
(* raise.                                                                  *)
(***************************************************************************)
EXTENDS EventLog, ModelClient

CONSTANTS
    Callers,      \* the entry points in use, a subset of {"api", "webhook"}
    PoolSize,     \* max_workers of the pool, 4
    MaxEvents     \* max_events_per_run of the bus

ASSUME RunAssumption ==
    /\ Callers \subseteq {"api", "webhook"}
    /\ {PoolSize, MaxEvents} \subseteq Nat \ {0}

VARIABLES
    caller,    \* who started the run
    node,      \* the node to run next, or where the exception is
    useRag,    \* route.use_rag, decided by select_route
    count,     \* number of prompt batches, decided by build_prompt
    step,      \* the batch the main thread announces, waits for or reports
    results,   \* batch_results, as collected by the main thread
    summary,   \* <<>> until the batch results are merged, then <<its risk>>
    saved,     \* the store holds the result
    posted,    \* the comment of the review is on the pull request
    log        \* the events of the run on the bus

vars == <<caller, node, useRag, count, step, client, results, summary, saved, posted, log>>

Batches == 1 .. count

\* An event about the whole run; one about batch b, whose payload (findings,
\* tokens) is that of the call of batch source.
Whole(name) == [name |-> name, batch |-> 0, source |-> 0]
OfBatch(name, b, source) == [name |-> name, batch |-> b, source |-> source]

EventNames ==
    {"review_queued", "review_created", "features_extracted", "route_selected",
     "complexity_analyzed", "review_harness_selected", "policy_retrieval_started",
     "policy_retrieval_completed", "policy_retrieval_skipped", "prompt_built",
     "llm_call_started", "llm_batch_started", "llm_batch_completed",
     "llm_call_completed", "findings_validated", "review_persisted",
     "comment_published", "review_completed", "review_failed"}
EventTypes == [name : EventNames, batch : 0 .. MaxBatches, source : 0 .. MaxBatches]

Nodes ==
    {"create_review", "extract_features", "select_route", "analyze_complexity",
     "select_harness", "retrieve_policies", "searching", "skip_policy_retrieval",
     "build_prompt", "call_llm", "announce", "generate", "draining", "report",
     "validate_findings", "assemble_result", "persist_result", "publish_comment",
     "complete_review", "raised", "reraised", "ended"}

\* The bus never trims the events of a run, so their numbers are their places: were
\* they trimmed, numbers would repeat and readers never get the terminal event.
TypeOK ==
    /\ caller \in Callers
    /\ node \in Nodes
    /\ useRag \in BOOLEAN
    /\ count \in 0 .. MaxBatches
    /\ step \in 1 .. MaxBatches + 1
    /\ ClientTypeOK
    /\ results \in Seq([batch : 1 .. MaxBatches, risk : Risks])
    /\ summary \in {<<>>} \cup {<<r>> : r \in Risks}
    /\ saved \in BOOLEAN
    /\ posted \in BOOLEAN
    /\ log \in Seq(Event(EventTypes))
    /\ \A i \in DOMAIN log : log[i].seq = i

\* The caller has published review_queued under a fresh id and starts the run.
Init ==
    /\ caller \in Callers
    /\ node = "create_review"
    /\ useRag = FALSE
    /\ count = 0
    /\ step = 1
    /\ ClientInit
    /\ results = <<>>
    /\ summary = <<>>
    /\ saved = FALSE
    /\ posted = FALSE
    /\ log = Published(<<>>, Whole("review_queued"), MaxEvents)

Emit(type) == log' = Published(log, type, MaxEvents)
Goto(n) == node' = n

-----------------------------------------------------------------------------
(* The graph.  A step that only publishes and moves on: *)

Pass(from, name, to) ==
    /\ node = from
    /\ Emit(Whole(name))
    /\ Goto(to)

CreateReview ==
    /\ Pass("create_review", "review_created", "extract_features")
    /\ UNCHANGED <<caller, useRag, count, step, client, results, summary, saved, posted>>

ExtractFeatures ==
    /\ Pass("extract_features", "features_extracted", "select_route")
    /\ UNCHANGED <<caller, useRag, count, step, client, results, summary, saved, posted>>

SelectRoute ==
    /\ Pass("select_route", "route_selected", "analyze_complexity")
    /\ useRag' \in BOOLEAN
    /\ UNCHANGED <<caller, count, step, client, results, summary, saved, posted>>

AnalyzeComplexity ==
    /\ Pass("analyze_complexity", "complexity_analyzed", "select_harness")
    /\ UNCHANGED <<caller, useRag, count, step, client, results, summary, saved, posted>>

\* The conditional edge behind it is _policy_retrieval_path.
SelectHarness ==
    /\ Pass("select_harness", "review_harness_selected",
            IF useRag THEN "retrieve_policies" ELSE "skip_policy_retrieval")
    /\ UNCHANGED <<caller, useRag, count, step, client, results, summary, saved, posted>>

\* retrieve_policies publishes before and after the search of the index.
StartRetrieval ==
    /\ Pass("retrieve_policies", "policy_retrieval_started", "searching")
    /\ UNCHANGED <<caller, useRag, count, step, client, results, summary, saved, posted>>

EndRetrieval ==
    /\ Pass("searching", "policy_retrieval_completed", "build_prompt")
    /\ UNCHANGED <<caller, useRag, count, step, client, results, summary, saved, posted>>

SkipRetrieval ==
    /\ Pass("skip_policy_retrieval", "policy_retrieval_skipped", "build_prompt")
    /\ UNCHANGED <<caller, useRag, count, step, client, results, summary, saved, posted>>

\* At least one batch, even for a pull request without files.
BuildPrompt ==
    /\ Pass("build_prompt", "prompt_built", "call_llm")
    /\ count' \in 1 .. MaxBatches
    /\ UNCHANGED <<caller, useRag, step, client, results, summary, saved, posted>>

-----------------------------------------------------------------------------
(* call_llm: announce every batch, run the calls, merge, report every batch *)

StartCalls ==
    /\ Pass("call_llm", "llm_call_started", "announce")
    /\ step' = 1
    /\ UNCHANGED <<caller, useRag, count, client, results, summary, saved, posted>>

AnnounceBatch ==
    /\ node = "announce"
    /\ step <= count
    /\ Emit(OfBatch("llm_batch_started", step, step))
    /\ step' = step + 1
    /\ UNCHANGED <<caller, node, useRag, count, client, results, summary, saved, posted>>

\* executor.map submits every batch at once (a single batch is called in place,
\* which is a pool of one).
SubmitCalls ==
    /\ node = "announce"
    /\ step > count
    /\ call' = [b \in Calls |-> IF b <= count THEN "queued" ELSE "none"]
    /\ step' = 1
    /\ Goto("generate")
    /\ UNCHANGED <<caller, useRag, count, attempt, risk, ready, registered, results, summary,
                   saved, posted, log>>

Running == {b \in Batches : call[b] \in OnThread}

\* A free thread of the pool takes the oldest queued call.
StartCall(b) ==
    /\ b <= count
    /\ \A a \in 1 .. b - 1 : call[a] # "queued"
    /\ Cardinality(Running) < PoolSize
    /\ Enter(b)

\* A step of a thread, which changes nothing of the run.
CallStep(b) ==
    /\ \/ StartCall(b) \/ TakeLock(b) \/ SetReady(b)
       \/ \E list \in Lists : LookIntoList(b, list) \/ Register(b, list)
       \/ Answer(b) \/ BadAnswer(b) \/ OddAnswer(b) \/ CallError(b)
    /\ UNCHANGED <<caller, node, useRag, count, step, results, summary, saved, posted, log>>

\* Collecting whatever answer is there first instead of the next in order.
CollectedAsCompleted(b) ==
    /\ call[b] = "ok"
    /\ \A i \in 1 .. Len(results) : results[i].batch # b

Collected(b) == call[b] = "ok" /\ b = step

\* The main thread walks through the results in the order of the batches.
TakeResult ==
    /\ node = "generate"
    /\ step <= count
    /\ \E b \in Batches :
          /\ Collected(b)
          /\ results' = Append(results, [batch |-> b, risk |-> risk[b]])
    /\ step' = step + 1
    /\ UNCHANGED <<caller, node, useRag, count, client, summary, saved, posted, log>>

\* A failure that is only seen when the attempts are used up.
RaisedOutOfAttempts(b) == call[b] = "failed" /\ attempt[b] = Attempts

Raised(b) == call[b] = "failed"

\* The first failure in the order of the batches is raised: calls that wait in
\* the queue are cancelled, the with block waits for those that run.
TakeFailure ==
    /\ node = "generate"
    /\ step <= count
    /\ Raised(step)
    /\ call' = [b \in Calls |-> IF call[b] = "queued" THEN "cancelled" ELSE call[b]]
    /\ Goto("draining")
    /\ UNCHANGED <<caller, useRag, count, step, attempt, risk, ready, registered, results,
                   summary, saved, posted, log>>

\* A pool that is left without waiting for its threads.
DrainedAtOnce == TRUE

Drained == Running = {}

LeavePool ==
    /\ node = "draining"
    /\ Drained
    /\ Goto("raised")
    /\ UNCHANGED <<caller, useRag, count, step, client, results, summary, saved, posted, log>>

\* The representative summary: max() over the order low, medium, high.
HighestRisk(collected) ==
    CHOOSE r \in {collected[i].risk : i \in DOMAIN collected} :
        \A i \in DOMAIN collected : collected[i].risk <= r

MergeResults ==
    /\ node = "generate"
    /\ step > count
    /\ summary' = <<HighestRisk(results)>>
    /\ step' = 1
    /\ Goto("report")
    /\ UNCHANGED <<caller, useRag, count, client, results, saved, posted, log>>

\* zip(batches, batch_results): the result in a place is reported under the
\* batch of that place.
ReportBatch ==
    /\ node = "report"
    /\ step <= count
    /\ Emit(OfBatch("llm_batch_completed", step, results[step].batch))
    /\ step' = step + 1
    /\ UNCHANGED <<caller, node, useRag, count, client, results, summary, saved, posted>>

EndCalls ==
    /\ step > count
    /\ Pass("report", "llm_call_completed", "validate_findings")
    /\ UNCHANGED <<caller, useRag, count, step, client, results, summary, saved, posted>>

-----------------------------------------------------------------------------
(* The end of the graph *)

ValidateFindings ==
    /\ Pass("validate_findings", "findings_validated", "assemble_result")
    /\ UNCHANGED <<caller, useRag, count, step, client, results, summary, saved, posted>>

\* Builds the ReviewResult (its status is already "completed"), publishes nothing.
AssembleResult ==
    /\ node = "assemble_result"
    /\ Goto("persist_result")
    /\ UNCHANGED <<caller, useRag, count, step, client, results, summary, saved, posted, log>>

\* A run that is called completed as soon as it is saved.
PersistCompletes ==
    /\ Pass("persist_result", "review_completed", "publish_comment")
    /\ saved' = TRUE
    /\ UNCHANGED <<caller, useRag, count, step, client, results, summary, posted>>

PersistResult ==
    /\ Pass("persist_result", "review_persisted", "publish_comment")
    /\ saved' = TRUE
    /\ UNCHANGED <<caller, useRag, count, step, client, results, summary, posted>>

PublishComment ==
    /\ Pass("publish_comment", "comment_published", "complete_review")
    /\ posted' = TRUE
    /\ UNCHANGED <<caller, useRag, count, step, client, results, summary, saved>>

CompleteReview ==
    /\ Pass("complete_review", "review_completed", "ended")
    /\ UNCHANGED <<caller, useRag, count, step, client, results, summary, saved, posted>>

-----------------------------------------------------------------------------
(* Failure *)

\* Nodes that reach a database, a file, a parser or GitHub: the policy index, the source
\* analysis, the store, the publisher; and the validation, which looks the source and the
\* card of a finding up in dictionaries although the model may have answered with a list.
Fallible == {"extract_features", "analyze_complexity", "searching", "validate_findings",
             "persist_result", "publish_comment"}

\* The save and the posting may have taken effect when only their answer is lost.
Raise ==
    /\ node \in Fallible
    /\ saved' \in {saved} \cup (IF node = "persist_result" THEN {TRUE} ELSE {})
    /\ posted' \in {posted} \cup (IF node = "publish_comment" THEN {TRUE} ELSE {})
    /\ Goto("raised")
    /\ UNCHANGED <<caller, useRag, count, step, client, results, summary, log>>

\* run_review: publish review_failed, then raise again.
OrchestratorFails ==
    /\ Pass("raised", "review_failed", "reraised")
    /\ UNCHANGED <<caller, useRag, count, step, client, results, summary, saved, posted>>

\* _run_review_background only logs (with wait=true the request fails instead).
ApiCallerFails ==
    /\ caller = "api"
    /\ node = "reraised"
    /\ Goto("ended")
    /\ UNCHANGED <<caller, useRag, count, step, client, results, summary, saved, posted, log>>

\* _handle_github_webhook_background publishes a review_failed of its own.
WebhookCallerFails ==
    /\ caller = "webhook"
    /\ Pass("reraised", "review_failed", "ended")
    /\ UNCHANGED <<caller, useRag, count, step, client, results, summary, saved, posted>>

-----------------------------------------------------------------------------
MainStep ==
    \/ CreateReview \/ ExtractFeatures \/ SelectRoute \/ AnalyzeComplexity
    \/ SelectHarness \/ StartRetrieval \/ EndRetrieval \/ SkipRetrieval \/ BuildPrompt
    \/ StartCalls \/ AnnounceBatch \/ SubmitCalls \/ TakeResult \/ TakeFailure
    \/ LeavePool \/ MergeResults \/ ReportBatch \/ EndCalls
    \/ ValidateFindings \/ AssembleResult \/ PersistResult \/ PublishComment
    \/ CompleteReview \/ OrchestratorFails \/ ApiCallerFails \/ WebhookCallerFails
    \/ Raise

Next == MainStep \/ \E b \in Calls : CallStep(b)

Spec == Init /\ [][Next]_vars

\* The threads of the process keep running and a model call returns: it has a
\* timeout of 90 seconds and one transport retry.  A thread that has the lock lets go of
\* it, and one that waits for it gets it in the end: nobody takes it twice.
FairSpec ==
    /\ Spec
    /\ WF_vars(MainStep)
    /\ \A b \in Calls : WF_vars(CallStep(b))

-----------------------------------------------------------------------------
(* Properties *)

Emitted(name) == \E i \in DOMAIN log : log[i].type.name = name
Verdict == Emitted("review_completed") \/ Emitted("review_failed")

\* A comment on the pull request belongs to a result that is in the store, where a
\* later delivery finds its key; and review_completed is only published for a run
\* all of whose batches were answered and whose comment is posted (review_graph.py,
\* the edges from call_llm to complete_review).  The first terminal event closes the
\* streams, so it is never contradicted by a later one: a run is not both completed and
\* failed (orchestrator.py, the except of run_review; main.py, that of the webhook task).
VerdictHolds ==
    /\ posted => saved
    /\ Emitted("review_completed") =>
          /\ posted
          /\ Len(results) = count
          /\ \A b \in Batches : call[b] = "ok"
    /\ ~ (Emitted("review_completed") /\ Emitted("review_failed"))

\* When a terminal event is out no model call of the run is running or waiting:
\* leaving the pool waits for the calls another batch's failure left behind.
NoCallOutlivesRun ==
    Verdict => \A b \in Batches : call[b] \notin OnThread \cup {"queued"}

\* Whatever order the calls finish in, the event about a batch carries the result
\* of that batch's own call, and the merged summary states a risk no batch exceeds
\* (executor.map keeps the order, zip pairs by place; representative).
ReportsOwnResult ==
    /\ \A i \in DOMAIN log :
          log[i].type.name = "llm_batch_completed" =>
              log[i].type.source = log[i].type.batch
    /\ summary # <<>> => \A b \in Batches : risk[b] <= summary[1]

\* Every run ends with a terminal event, whatever fails.
RunEnds == <>Verdict
=============================================================================
