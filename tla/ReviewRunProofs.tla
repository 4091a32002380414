--------------------------- MODULE ReviewRunProofs ---------------------------
(***************************************************************************)
(* What a review run promises, for any number of batches, threads and      *)
(* attempts and any bound of the bus.                                      *)
(***************************************************************************)
EXTENDS ReviewRun, SequenceTheorems, TLAPS

-----------------------------------------------------------------------------
(* Events *)

LEMMA PublishedType ==
  ASSUME NEW old \in Seq(Event(EventTypes)), NEW type \in EventTypes
  PROVE  /\ Published(old, type, MaxEvents) \in Seq(Event(EventTypes))
         /\ \A i \in DOMAIN Published(old, type, MaxEvents) :
               \/ Published(old, type, MaxEvents)[i].type = type
               \/ \E j \in DOMAIN old :
                     Published(old, type, MaxEvents)[i].type = old[j].type
<1> DEFINE new == NextEvent(old, type)
           longer == Append(old, new)
           first == Len(longer) - MaxEvents + 1
           kept == SubSeq(longer, first, Len(longer))
<1>1. new \in Event(EventTypes) /\ new.type = type
  BY LenProperties DEF NextEvent, Event
<1>2. /\ longer \in Seq(Event(EventTypes)) /\ Len(longer) = Len(old) + 1
      /\ Len(old) \in Nat /\ DOMAIN old = 1 .. Len(old) /\ DOMAIN longer = 1 .. Len(old) + 1
      /\ \A i \in 1 .. Len(old) : longer[i] = old[i]
      /\ longer[Len(old) + 1] = new
  BY <1>1, AppendProperties, LenProperties
<1> HIDE DEF new, longer
<1>3. \A i \in DOMAIN longer : longer[i].type = type \/ \E j \in DOMAIN old : longer[i].type = old[j].type
  BY <1>1, <1>2
<1>4. ASSUME Len(longer) > MaxEvents
      PROVE  /\ kept \in Seq(Event(EventTypes))
             /\ \A i \in DOMAIN kept : i + first - 1 \in DOMAIN longer /\ kept[i] = longer[i + first - 1]
  <2>1. Len(longer) \in Nat /\ MaxEvents \in Nat \ {0} /\ first \in 1 .. Len(longer) + 1
    BY <1>2, <1>4, RunAssumption
  <2>2. \A i \in first .. Len(longer) : longer[i] \in Event(EventTypes)
    BY <1>2, <2>1, ElementOfSeq
  <2>3. /\ kept \in Seq(Event(EventTypes))
        /\ Len(kept) = MaxEvents
        /\ \A i \in 1 .. MaxEvents : kept[i] = longer[first + i - 1]
    BY <2>1, <2>2, SubSeqProperties
  <2>4. DOMAIN kept = 1 .. MaxEvents
    BY <2>3, LenProperties
  <2> QED
    BY <1>2, <2>1, <2>3, <2>4
<1>5. Published(old, type, MaxEvents) = IF Len(longer) > MaxEvents THEN kept ELSE longer
  BY DEF Published, Trimmed, longer, new
<1> QED
  BY <1>2, <1>3, <1>4, <1>5

\* An event about a batch carries the result of that batch's own call.
Paired ==
    \A i \in DOMAIN log :
        log[i].type.name = "llm_batch_completed" => log[i].type.source = log[i].type.batch

LEMMA EmitOnly ==
  ASSUME log \in Seq(Event(EventTypes)), NEW type \in EventTypes, Emit(type)
  PROVE  /\ log' \in Seq(Event(EventTypes))
         /\ \A name : Emitted(name)' => Emitted(name) \/ type.name = name
         /\ Paired /\ type.source = type.batch => Paired'
<1>1. /\ log' \in Seq(Event(EventTypes))
      /\ \A i \in DOMAIN log' :
            log'[i].type = type \/ \E j \in DOMAIN log : log'[i].type = log[j].type
  BY PublishedType DEF Emit
<1> QED
  BY <1>1 DEF Emitted, Paired

LEMMA WholeType ==
  ASSUME NEW name \in EventNames
  PROVE  Whole(name) \in EventTypes /\ Whole(name).name = name
         /\ Whole(name).source = Whole(name).batch
BY ClientAssumption DEF Whole, EventTypes

-----------------------------------------------------------------------------
(* The client *)

\* One thread at a time is behind the lock, and what it has found in the lists stays
\* true until it leaves; the flag is set when both lists are complete.
ClientInv ==
    /\ ClientTypeOK
    /\ \A list \in Lists : registered[list] \in {0, 1}
    /\ \A b, c \in Calls : call[b] \in Locked /\ call[c] \in Locked => b = c
    /\ \A b \in Calls : call[b] \in Locked => ~ready
    /\ ready => \A list \in Lists : registered[list] = 1
    /\ \A b \in Calls :
        /\ call[b] = "append_success" => registered["success"] = 0
        /\ call[b] \in {"look_failure", "append_failure", "set_ready"} =>
              registered["success"] = 1
        /\ call[b] = "append_failure" => registered["failure"] = 0
        /\ call[b] = "set_ready" => registered["failure"] = 1
        /\ Tracing /\ call[b] = "running" => ready

LEMMA ClientInitInv == ClientInit => ClientInv
<1> SUFFICES ASSUME ClientInit PROVE ClientInv
  OBVIOUS
<1>1. ready \in BOOLEAN
  BY ClientAssumption DEF ClientInit
<1>2. registered = [l \in Lists |-> IF ready THEN 1 ELSE 0]
  BY DEF ClientInit
<1>3. /\ call = [b \in Calls |-> "none"]
      /\ attempt = [b \in Calls |-> 0]
      /\ risk = [b \in Calls |-> 0]
  BY DEF ClientInit
<1>4. ClientTypeOK
  BY <1>1, <1>2, <1>3, ClientAssumption DEF ClientTypeOK, CallStates, Risks
<1> QED
  BY <1>1, <1>2, <1>3, <1>4 DEF ClientInv, Locked

\* The main thread only queues calls and cancels them.
LEMMA ClientQueued ==
  ASSUME ClientInv, UNCHANGED <<attempt, risk, ready, registered>>,
         call' \in [Calls -> CallStates],
         \A b \in Calls : call'[b] = call[b] \/ call'[b] \in {"none", "queued", "cancelled"}
  PROVE  ClientInv'
BY DEF ClientInv, ClientTypeOK, Locked

\* What a step of the thread of a call changes.
CallChange(b) ==
    /\ call[b] \in OnThread \cup {"queued"}
    /\ call'[b] \in OnThread \cup {"ok", "failed"}
    /\ \A c \in Calls \ {b} : call'[c] = call[c] /\ risk'[c] = risk[c]

LEMMA ClientStep ==
  ASSUME ClientInv, NEW b \in Calls, CallStep(b)
  PROVE  ClientInv' /\ CallChange(b)
<1> USE DEF ClientInv, ClientTypeOK, CallChange, CallStates, OnThread, Locked
<1>1. CASE StartCall(b)
  BY <1>1, ClientAssumption DEF StartCall, Enter
<1>2. CASE TakeLock(b)
  BY <1>2 DEF TakeLock, LockFree
<1>3. CASE SetReady(b)
  BY <1>3 DEF SetReady, Lists
<1>4. ASSUME NEW list \in Lists, LookIntoList(b, list) PROVE ClientInv' /\ CallChange(b)
  BY <1>4 DEF LookIntoList, Lists, Looking, Appending, AfterList
<1>5. ASSUME NEW list \in Lists, Register(b, list) PROVE ClientInv' /\ CallChange(b)
  BY <1>5 DEF Register, Lists, Appending, AfterList
<1>6. CASE Answer(b)
  BY <1>6 DEF Answer
<1>7. CASE BadAnswer(b)
  BY <1>7, ClientAssumption DEF BadAnswer, Fail, LastAttempt
<1>8. CASE OddAnswer(b)
  BY <1>8 DEF OddAnswer, Fail
<1>9. CASE CallError(b)
  BY <1>9 DEF CallError, Fail
<1> QED
  BY <1>1, <1>2, <1>3, <1>4, <1>5, <1>6, <1>7, <1>8, <1>9 DEF CallStep

-----------------------------------------------------------------------------
(* The run *)

Early ==
    {"create_review", "extract_features", "select_route", "analyze_complexity",
     "select_harness", "retrieve_policies", "searching", "skip_policy_retrieval",
     "build_prompt"}
Announcing == {"call_llm", "announce"}
Late ==
    {"report", "validate_findings", "assemble_result", "persist_result", "publish_comment",
     "complete_review"}
Over == {"raised", "reraised", "ended"}

RunTypes ==
    /\ caller \in Callers
    /\ node \in Nodes
    /\ useRag \in BOOLEAN
    /\ count \in 0 .. MaxBatches
    /\ step \in 1 .. MaxBatches + 1
    /\ results \in Seq([batch : 1 .. MaxBatches, risk : Risks])
    /\ summary \in {<<>>} \cup {<<r>> : r \in Risks}
    /\ saved \in BOOLEAN
    /\ posted \in BOOLEAN
    /\ log \in Seq(Event(EventTypes))

\* Every batch was answered, and the results are those of the batches in their order.
Answered ==
    /\ Len(results) = count
    /\ \A b \in Batches : call[b] = "ok" /\ results[b].batch = b

\* Where the calls are while the main thread is at its node.
CallsFollow ==
    /\ \A b \in Calls : b > count => call[b] = "none"
    /\ node \in Early \cup Announcing =>
          results = <<>> /\ \A b \in Calls : call[b] = "none"
    /\ node \in Announcing \cup {"generate"} \cup Late => count > 0
    /\ node = "generate" =>
          /\ step <= count + 1
          /\ Len(results) = step - 1
          /\ \A b \in 1 .. step - 1 :
                call[b] = "ok" /\ results[b].batch = b /\ results[b].risk = risk[b]
    /\ node = "draining" => \A b \in Calls : call[b] # "queued"
    /\ node \in Late => Answered
    /\ node \in Over => \A b \in Calls : call[b] \notin OnThread \cup {"queued"}
    /\ summary # <<>> =>
          /\ node \in Late \cup Over
          /\ \A b \in Batches : call[b] = "ok" /\ risk[b] <= summary[1]

\* What has been published and saved while the main thread is at its node.
EventsFollow ==
    /\ Paired
    /\ posted => saved
    /\ node = "publish_comment" => saved
    /\ node = "complete_review" => posted
    /\ Emitted("review_failed") => node \in {"reraised", "ended"}
    /\ Emitted("review_completed") =>
          /\ node = "ended" /\ posted /\ Answered
          /\ ~ Emitted("review_failed")

IInv == RunTypes /\ ClientInv /\ CallsFollow /\ EventsFollow

LEMMA InitInv == Init => IInv
<1> SUFFICES ASSUME Init PROVE IInv
  OBVIOUS
<1> USE DEF Init
<1>1. /\ <<>> \in Seq(Event(EventTypes)) /\ DOMAIN <<>> = {}
      /\ <<>> \in Seq([batch : 1 .. MaxBatches, risk : Risks])
      /\ "review_queued" \in EventNames
  BY EmptySeq DEF EventNames
<1>2. /\ log \in Seq(Event(EventTypes))
      /\ \A i \in DOMAIN log : log[i].type = Whole("review_queued")
  BY <1>1, WholeType, PublishedType
<1>3. RunTypes
  <2>1. MaxBatches \in Nat /\ MaxBatches > 0
    BY ClientAssumption
  <2>2. caller \in Callers /\ node \in Nodes /\ useRag \in BOOLEAN
    BY DEF Nodes
  <2>3. count \in 0 .. MaxBatches /\ step \in 1 .. MaxBatches + 1
    BY <2>1
  <2> QED
    BY <1>1, <1>2, <2>2, <2>3 DEF RunTypes
<1>4. CallsFollow
  BY DEF CallsFollow, ClientInit, Early, Announcing, Late, Over
<1>5. EventsFollow
  BY <1>1, <1>2, WholeType DEF EventsFollow, Emitted, Paired
<1> QED
  BY <1>3, <1>4, <1>5, ClientInitInv DEF IInv

-----------------------------------------------------------------------------
(* Steps of the calls *)

LEMMA CallStepInv ==
  ASSUME IInv, NEW b \in Calls, CallStep(b)
  PROVE  IInv'
<1> USE DEF IInv
<1>1. ClientInv' /\ CallChange(b)
  BY ClientStep
<1>2. UNCHANGED <<caller, node, useRag, count, step, results, summary, saved, posted, log>>
  BY DEF CallStep
<1>3. RunTypes'
  BY <1>2 DEF RunTypes
<1>4. b \in Batches /\ node \in {"generate", "draining"}
  BY <1>1 DEF CallChange, CallsFollow, Nodes, Early, Announcing, Late, Over, RunTypes, Calls,
              Batches, Answered, OnThread, Locked
<1>5. \A c \in Calls : call[c] = "ok" => call'[c] = "ok" /\ risk'[c] = risk[c]
  BY <1>1 DEF CallChange, OnThread, Locked
<1>6. \A c \in Calls : call[c] = "none" => call'[c] = "none"
  BY <1>1 DEF CallChange, OnThread, Locked
<1>7. CallsFollow'
  <2>1. summary = <<>>
    BY <1>4 DEF CallsFollow, Late, Over
  <2>2. node = "generate" => \A c \in 1 .. step - 1 : c \in Calls
    <3>1. MaxBatches \in Nat
      BY ClientAssumption
    <3> QED
      BY <3>1 DEF CallsFollow, RunTypes, Calls
  <2>3. \A c \in Calls : call[c] # "queued" => call'[c] # "queued"
    BY <1>1 DEF CallChange, OnThread, Locked
  <2> QED
    BY <1>2, <1>4, <1>5, <1>6, <2>1, <2>2, <2>3
    DEF CallsFollow, Early, Announcing, Late, Over
<1>8. EventsFollow'
  BY <1>2, <1>4 DEF EventsFollow, Emitted, Paired
<1> QED
  BY <1>1, <1>3, <1>7, <1>8

-----------------------------------------------------------------------------
(* Steps of the main thread *)

\* Before a terminal event there is none, and no other event makes one.
LEMMA Unfinished ==
  ASSUME RunTypes, EventsFollow, node \notin {"reraised", "ended"}
  PROVE  /\ ~ Emitted("review_failed") /\ ~ Emitted("review_completed")
         /\ log' = log =>
               Paired' /\ ~ Emitted("review_failed")' /\ ~ Emitted("review_completed")'
         /\ \A type \in EventTypes :
               /\ Emit(type)
               /\ type.name \notin {"review_completed", "review_failed"}
               /\ type.source = type.batch
               => /\ log' \in Seq(Event(EventTypes)) /\ Paired'
                  /\ ~ Emitted("review_failed")' /\ ~ Emitted("review_completed")'
<1>1. ~ Emitted("review_failed") /\ ~ Emitted("review_completed")
  BY DEF EventsFollow
<1>2. log' = log => Paired' /\ ~ Emitted("review_failed")' /\ ~ Emitted("review_completed")'
  BY <1>1 DEF EventsFollow, Emitted, Paired
<1>3. ASSUME NEW type \in EventTypes, Emit(type),
             type.name \notin {"review_completed", "review_failed"}, type.source = type.batch
      PROVE  /\ log' \in Seq(Event(EventTypes)) /\ Paired'
             /\ ~ Emitted("review_failed")' /\ ~ Emitted("review_completed")'
  BY <1>1, <1>3, EmitOnly DEF RunTypes, EventsFollow
<1> QED
  BY <1>1, <1>2, <1>3

\* The names of the events about the whole run that are no verdict.
Progress == EventNames \ {"review_completed", "review_failed"}

LEMMA ProgressPasses ==
  ASSUME RunTypes, EventsFollow, NEW from, NEW to, NEW name \in Progress,
         from \notin {"reraised", "ended"}, Pass(from, name, to)
  PROVE  /\ node = from /\ node' = to
         /\ log' \in Seq(Event(EventTypes)) /\ Paired'
         /\ ~ Emitted("review_failed")' /\ ~ Emitted("review_completed")'
<1>1. Whole(name) \in EventTypes /\ Whole(name).name = name
      /\ Whole(name).source = Whole(name).batch
  BY WholeType DEF Progress
<1> QED
  BY <1>1, Unfinished DEF Pass, Goto, Progress

LEMMA EarlyStep ==
  ASSUME IInv,
         \/ CreateReview \/ ExtractFeatures \/ SelectRoute \/ AnalyzeComplexity
         \/ SelectHarness \/ StartRetrieval \/ EndRetrieval \/ SkipRetrieval
         \/ BuildPrompt \/ StartCalls
  PROVE  IInv'
<1> USE DEF IInv
<1>1. /\ node \in Early \cup {"call_llm"} /\ node' \in (Early \ {"create_review"}) \cup Announcing
      /\ log' \in Seq(Event(EventTypes)) /\ Paired'
      /\ ~ Emitted("review_failed")' /\ ~ Emitted("review_completed")'
  BY ProgressPasses
  DEF CreateReview, ExtractFeatures, SelectRoute, AnalyzeComplexity, SelectHarness,
      StartRetrieval, EndRetrieval, SkipRetrieval, BuildPrompt, StartCalls, Progress,
      EventNames, Early, Announcing
<1>2. /\ UNCHANGED <<caller, client, results, summary, saved, posted>>
      /\ useRag' \in BOOLEAN
  BY DEF CreateReview, ExtractFeatures, SelectRoute, AnalyzeComplexity, SelectHarness,
         StartRetrieval, EndRetrieval, SkipRetrieval, BuildPrompt, StartCalls, RunTypes
<1>3. step' \in {1, step} /\ count' \in {count} \cup 1 .. MaxBatches
  BY DEF CreateReview, ExtractFeatures, SelectRoute, AnalyzeComplexity, SelectHarness,
         StartRetrieval, EndRetrieval, SkipRetrieval, BuildPrompt, StartCalls
<1>4. node' \in Announcing => count' > 0
  BY ClientAssumption
  DEF CreateReview, ExtractFeatures, SelectRoute, AnalyzeComplexity, SelectHarness,
      StartRetrieval, EndRetrieval, SkipRetrieval, BuildPrompt, StartCalls, Pass, Goto,
      Announcing, CallsFollow
<1>5. MaxBatches \in Nat /\ MaxBatches > 0
  BY ClientAssumption
<1>6. RunTypes'
  <2>1. node' \in Nodes
    BY <1>1 DEF Early, Announcing, Nodes
  <2>2. step' \in 1 .. MaxBatches + 1 /\ count' \in 0 .. MaxBatches
    BY <1>3, <1>5 DEF RunTypes
  <2> QED
    BY <1>1, <1>2, <2>1, <2>2 DEF RunTypes
<1>7. ClientInv'
  BY <1>2, ClientQueued DEF client, ClientInv, ClientTypeOK
<1>8. CallsFollow'
  BY <1>1, <1>2, <1>4 DEF CallsFollow, client, Early, Announcing, Late, Over
<1>9. EventsFollow'
  BY <1>1, <1>2 DEF EventsFollow, Early, Announcing
<1> QED
  BY <1>6, <1>7, <1>8, <1>9

LEMMA BatchEventType ==
  ASSUME NEW name \in EventNames, NEW b \in 1 .. MaxBatches
  PROVE  /\ OfBatch(name, b, b) \in EventTypes
         /\ OfBatch(name, b, b).name = name
         /\ OfBatch(name, b, b).source = OfBatch(name, b, b).batch
BY ClientAssumption DEF OfBatch, EventTypes

LEMMA AnnounceStep ==
  ASSUME IInv, AnnounceBatch \/ SubmitCalls
  PROVE  IInv'
<1> USE DEF IInv
<1>0. MaxBatches \in Nat /\ count > 0 /\ count \in 0 .. MaxBatches
  BY ClientAssumption DEF AnnounceBatch, SubmitCalls, CallsFollow, Announcing, RunTypes
<1>1. CASE AnnounceBatch
  <2> USE <1>1 DEF AnnounceBatch
  <2>1. step \in 1 .. MaxBatches
    BY <1>0 DEF RunTypes
  <2>2. /\ log' \in Seq(Event(EventTypes)) /\ Paired'
        /\ ~ Emitted("review_failed")' /\ ~ Emitted("review_completed")'
    BY <2>1, BatchEventType, Unfinished DEF EventNames
  <2>3. RunTypes'
    BY <1>0, <2>1, <2>2 DEF RunTypes
  <2>4. ClientInv'
    BY ClientQueued DEF client, ClientInv, ClientTypeOK
  <2>5. CallsFollow'
    BY DEF CallsFollow, client, Early, Announcing, Late, Over
  <2>6. EventsFollow'
    BY <2>2 DEF EventsFollow
  <2> QED
    BY <2>3, <2>4, <2>5, <2>6
<1>2. CASE SubmitCalls
  <2> USE <1>2 DEF SubmitCalls, Goto
  <2>1. RunTypes'
    BY <1>0 DEF RunTypes, Nodes
  <2>2. ClientInv'
    BY ClientQueued DEF CallStates
  <2>3. CallsFollow'
    <3>1. results = <<>> /\ Len(results) = 0 /\ summary = <<>>
      BY EmptySeq DEF CallsFollow, Announcing, Late, Over
    <3>2. \A b \in Calls : b > count => call'[b] = "none"
      BY <1>0 DEF Calls
    <3>3. node' = "generate" /\ step' = 1 /\ count' = count /\ results' = results
          /\ summary' = summary
      OBVIOUS
    <3> QED
      BY <1>0, <3>1, <3>2, <3>3 DEF CallsFollow, Early, Announcing, Late, Over
  <2>4. EventsFollow'
    BY Unfinished DEF EventsFollow
  <2> QED
    BY <2>1, <2>2, <2>3, <2>4
<1> QED
  BY <1>1, <1>2

LEMMA CollectStep ==
  ASSUME IInv, TakeResult \/ TakeFailure \/ LeavePool
  PROVE  IInv'
<1> USE DEF IInv
<1>0. MaxBatches \in Nat /\ count \in 0 .. MaxBatches /\ step \in 1 .. MaxBatches + 1
  BY ClientAssumption DEF RunTypes
<1>1. EventsFollow'
  BY Unfinished DEF TakeResult, TakeFailure, LeavePool, EventsFollow, Goto
<1>2. summary = <<>> /\ summary' = <<>>
  BY DEF TakeResult, TakeFailure, LeavePool, CallsFollow, Late, Over
<1>3. CASE TakeResult
  <2> USE <1>3 DEF TakeResult
  <2>1. step \in Calls /\ step <= count /\ call[step] = "ok"
    BY <1>0 DEF Collected, Batches, Calls
  <2> DEFINE new == [batch |-> step, risk |-> risk[step]]
  <2>2. results' = Append(results, new)
    BY DEF Collected
  <2>3. new \in [batch : 1 .. MaxBatches, risk : Risks]
    BY <2>1 DEF Calls, ClientInv, ClientTypeOK
  <2>4. /\ results' \in Seq([batch : 1 .. MaxBatches, risk : Risks])
        /\ Len(results) = step - 1
        /\ Len(results') = step
        /\ results'[step] = new
        /\ \A b \in 1 .. step - 1 : results'[b] = results[b]
    BY <2>2, <2>3, AppendProperties DEF RunTypes, CallsFollow
  <2>5. RunTypes'
    BY <1>0, <2>1, <2>4 DEF RunTypes
  <2>6. ClientInv'
    BY ClientQueued DEF client, ClientInv, ClientTypeOK
  <2>7. \A b \in 1 .. step : call[b] = "ok" /\ results'[b].batch = b /\ results'[b].risk = risk[b]
    BY <1>0, <2>1, <2>4 DEF CallsFollow
  <2>8. node = "generate" /\ node' = node /\ step' = step + 1 /\ count' = count
        /\ call' = call /\ risk' = risk
    BY DEF client
  <2>9. CallsFollow'
    BY <1>0, <1>2, <2>1, <2>4, <2>7, <2>8 DEF CallsFollow, Early, Announcing, Late, Over
  <2> QED
    BY <1>1, <2>5, <2>6, <2>9
<1>4. CASE TakeFailure
  <2> USE <1>4 DEF TakeFailure, Goto
  <2>1. RunTypes'
    BY DEF RunTypes, Nodes
  <2>2. ClientInv'
    BY ClientQueued DEF ClientInv, ClientTypeOK, CallStates
  <2>3. CallsFollow'
    BY <1>2 DEF CallsFollow, Early, Announcing, Late, Over, ClientInv, ClientTypeOK
  <2> QED
    BY <1>1, <2>1, <2>2, <2>3
<1>5. CASE LeavePool
  <2> USE <1>5 DEF LeavePool, Goto
  <2>1. RunTypes'
    BY DEF RunTypes, Nodes
  <2>2. ClientInv'
    BY ClientQueued DEF client, ClientInv, ClientTypeOK
  <2>3. \A b \in Calls : call[b] \notin OnThread \cup {"queued"}
    BY <1>0 DEF CallsFollow, Drained, Running, Batches, Calls, OnThread, Locked
  <2>4. CallsFollow'
    BY <1>2, <2>3 DEF CallsFollow, client, Early, Announcing, Late, Over
  <2> QED
    BY <1>1, <2>1, <2>2, <2>4
<1> QED
  BY <1>3, <1>4, <1>5

\* The highest of some risks exists, and is the risk of the merged summary.
LEMMA HighestIsMaximum ==
  ASSUME NEW list \in Seq([batch : 1 .. MaxBatches, risk : Risks]), Len(list) > 0
  PROVE  /\ HighestRisk(list) \in Risks
         /\ \A i \in DOMAIN list : list[i].risk <= HighestRisk(list)
<1> DEFINE all == {list[i].risk : i \in DOMAIN list}
           Highest(r) == \A i \in DOMAIN list : list[i].risk <= r
<1>1. /\ 1 \in DOMAIN list
      /\ \A i \in DOMAIN list : list[i].risk \in {0, 1, 2}
  <2>1. DOMAIN list = 1 .. Len(list) /\ Len(list) \in Nat
    BY LenProperties
  <2>2. ASSUME NEW i \in DOMAIN list PROVE list[i].risk \in {0, 1, 2}
    <3>1. list[i] \in [batch : 1 .. MaxBatches, risk : Risks]
      BY <2>1, ElementOfSeq
    <3>2. list[i].risk \in Risks
      BY <3>1
    <3> QED
      BY <3>2 DEF Risks
  <2> QED
    BY <2>1, <2>2
<1>2. \E r \in all : Highest(r)
  <2>1. ASSUME NEW i \in DOMAIN list, Highest(list[i].risk)
        PROVE  \E r \in all : Highest(r)
    <3>1. list[i].risk \in all
      OBVIOUS
    <3> QED
      BY <2>1, <3>1
  <2> HIDE DEF all
  <2>2. CASE \E i \in DOMAIN list : list[i].risk = 2
    <3>1. PICK i \in DOMAIN list : list[i].risk = 2
      BY <2>2
    <3>2. Highest(list[i].risk)
      BY <1>1, <3>1
    <3> QED
      BY <2>1, <3>2
  <2>3. CASE /\ \A i \in DOMAIN list : list[i].risk # 2
             /\ \E i \in DOMAIN list : list[i].risk = 1
    <3>1. PICK i \in DOMAIN list : list[i].risk = 1
      BY <2>3
    <3>2. \A j \in DOMAIN list : list[j].risk <= 1
      BY <1>1, <2>3
    <3>3. Highest(list[i].risk)
      BY <3>1, <3>2
    <3> QED
      BY <2>1, <3>3
  <2>4. CASE \A i \in DOMAIN list : list[i].risk = 0
    <3>1. Highest(list[1].risk)
      BY <1>1, <2>4
    <3> QED
      BY <1>1, <2>1, <3>1
  <2> QED
    BY <1>1, <2>2, <2>3, <2>4
<1>3. HighestRisk(list) \in all /\ Highest(HighestRisk(list))
  BY <1>2 DEF HighestRisk
<1> QED
  BY <1>1, <1>3 DEF Risks

LEMMA MergeStep ==
  ASSUME IInv, MergeResults
  PROVE  IInv'
<1> USE DEF IInv, MergeResults, Goto
<1>1. /\ count \in Nat /\ count > 0 /\ step = count + 1 /\ Len(results) = count
      /\ \A b \in Batches : call[b] = "ok" /\ results[b].batch = b /\ results[b].risk = risk[b]
  BY ClientAssumption DEF CallsFollow, RunTypes, Batches
<1>2. /\ HighestRisk(results) \in Risks
      /\ \A b \in Batches : risk[b] <= HighestRisk(results)
  BY <1>1, HighestIsMaximum, LenProperties DEF RunTypes, Batches
<1>3. RunTypes'
  BY <1>2, ClientAssumption DEF RunTypes, Nodes
<1>4. ClientInv'
  BY ClientQueued DEF client, ClientInv, ClientTypeOK
<1>5. summary' = <<HighestRisk(results)>> /\ summary'[1] = HighestRisk(results)
  OBVIOUS
<1>6. Answered'
  BY <1>1 DEF Answered, Batches, client
<1>7. CallsFollow'
  BY <1>1, <1>2, <1>5, <1>6 DEF CallsFollow, client, Batches, Early, Announcing, Late, Over
<1>8. EventsFollow'
  BY Unfinished DEF EventsFollow
<1> QED
  BY <1>3, <1>4, <1>7, <1>8

LEMMA ReportStep ==
  ASSUME IInv, ReportBatch
  PROVE  IInv'
<1> USE DEF IInv, ReportBatch
<1>1. /\ count \in 0 .. MaxBatches /\ MaxBatches \in Nat /\ step \in 1 .. count
      /\ results[step].batch = step
  BY ClientAssumption DEF RunTypes, CallsFollow, Answered, Late, Batches
<1>2. /\ log' \in Seq(Event(EventTypes)) /\ Paired'
      /\ ~ Emitted("review_failed")' /\ ~ Emitted("review_completed")'
  BY <1>1, BatchEventType, Unfinished DEF EventNames
<1>3. RunTypes'
  BY <1>1, <1>2 DEF RunTypes
<1>4. ClientInv'
  BY ClientQueued DEF client, ClientInv, ClientTypeOK
<1>5. CallsFollow'
  BY DEF CallsFollow, client, Answered, Batches, Early, Announcing, Late, Over
<1>6. EventsFollow'
  BY <1>2 DEF EventsFollow
<1> QED
  BY <1>3, <1>4, <1>5, <1>6

LEMMA LateStep ==
  ASSUME IInv,
         EndCalls \/ ValidateFindings \/ AssembleResult \/ PersistResult \/ PublishComment
  PROVE  IInv'
<1> USE DEF IInv, EndCalls, ValidateFindings, AssembleResult, PersistResult, PublishComment
<1>1. /\ node \in Late /\ node' \in Late
      /\ log' \in Seq(Event(EventTypes)) /\ Paired'
      /\ ~ Emitted("review_failed")' /\ ~ Emitted("review_completed")'
  BY ProgressPasses, Unfinished DEF Progress, EventNames, Late, Goto, RunTypes
<1>2. /\ UNCHANGED <<caller, useRag, count, step, client, results, summary>>
      /\ saved' \in BOOLEAN /\ posted' \in BOOLEAN
  BY DEF RunTypes
<1>3. /\ posted' => saved'
      /\ node' = "publish_comment" => saved'
      /\ node' = "complete_review" => posted'
  BY DEF EventsFollow, Pass, Goto
<1>4. RunTypes'
  BY <1>1, <1>2 DEF RunTypes, Late, Nodes
<1>5. ClientInv'
  BY <1>2, ClientQueued DEF client, ClientInv, ClientTypeOK
<1>6. CallsFollow'
  BY <1>1, <1>2 DEF CallsFollow, client, Answered, Batches, Early, Announcing, Late, Over
<1>7. EventsFollow'
  BY <1>1, <1>3 DEF EventsFollow
<1> QED
  BY <1>4, <1>5, <1>6, <1>7

LEMMA CompleteStep ==
  ASSUME IInv, CompleteReview
  PROVE  IInv'
<1> USE DEF IInv, CompleteReview, Pass, Goto
<1>1. Whole("review_completed") \in EventTypes
      /\ Whole("review_completed").name = "review_completed"
      /\ Whole("review_completed").source = Whole("review_completed").batch
  BY WholeType DEF EventNames
<1>2. log' \in Seq(Event(EventTypes)) /\ Paired' /\ ~ Emitted("review_failed")'
  BY <1>1, EmitOnly, Unfinished DEF RunTypes, EventsFollow
<1>3. Answered /\ Answered' /\ posted /\ \A b \in Calls : call[b] \notin OnThread \cup {"queued"}
  <2>1. Answered /\ posted
    BY DEF CallsFollow, EventsFollow, Late
  <2>2. ASSUME NEW b \in Calls PROVE call[b] \notin OnThread \cup {"queued"}
    BY <2>1 DEF CallsFollow, Answered, Batches, Calls, OnThread, Locked, RunTypes
  <2> QED
    BY <2>1, <2>2 DEF Answered, Batches, client
<1>4. RunTypes'
  BY <1>2 DEF RunTypes, Nodes
<1>5. ClientInv'
  BY ClientQueued DEF client, ClientInv, ClientTypeOK
<1>6. CallsFollow'
  BY <1>3 DEF CallsFollow, client, Batches, Early, Announcing, Late, Over
<1>7. EventsFollow'
  BY <1>2, <1>3 DEF EventsFollow
<1> QED
  BY <1>4, <1>5, <1>6, <1>7

LEMMA RaiseStep ==
  ASSUME IInv, Raise
  PROVE  IInv'
<1> USE DEF IInv, Raise, Goto
<1>1. node \in Early \cup {"validate_findings", "persist_result", "publish_comment"}
  BY DEF Fallible, Early
<1>2. \A b \in Calls : call[b] \notin OnThread \cup {"queued"}
  BY <1>1 DEF CallsFollow, Answered, Batches, Calls, Early, Announcing, Late, OnThread, Locked,
              RunTypes
<1>3. RunTypes'
  BY DEF RunTypes, Nodes
<1>4. ClientInv'
  BY ClientQueued DEF client, ClientInv, ClientTypeOK
<1>5. CallsFollow'
  BY <1>2 DEF CallsFollow, client, Batches, Early, Announcing, Late, Over
<1>6. EventsFollow'
  <2>1. Paired' /\ ~ Emitted("review_failed")' /\ ~ Emitted("review_completed")'
    BY <1>1, Unfinished DEF Early
  <2>2. /\ saved => saved'
        /\ node # "publish_comment" => posted' = posted
        /\ node = "publish_comment" => saved
        /\ posted => saved
    BY DEF EventsFollow, RunTypes
  <2> QED
    BY <2>1, <2>2 DEF EventsFollow
<1> QED
  BY <1>3, <1>4, <1>5, <1>6

LEMMA FailureStep ==
  ASSUME IInv, OrchestratorFails \/ ApiCallerFails \/ WebhookCallerFails
  PROVE  IInv'
<1> USE DEF IInv, OrchestratorFails, ApiCallerFails, WebhookCallerFails, Pass, Goto
<1>1. Whole("review_failed") \in EventTypes
      /\ Whole("review_failed").name = "review_failed"
      /\ Whole("review_failed").source = Whole("review_failed").batch
  BY WholeType DEF EventNames
<1>2. ~ Emitted("review_completed")
  BY DEF EventsFollow
<1>3. log' \in Seq(Event(EventTypes)) /\ Paired' /\ ~ Emitted("review_completed")'
  <2>1. CASE log' = log
    BY <1>2, <2>1 DEF RunTypes, EventsFollow, Paired, Emitted
  <2>2. CASE Emit(Whole("review_failed"))
    BY <1>1, <1>2, <2>2, EmitOnly DEF RunTypes, EventsFollow
  <2> QED
    BY <2>1, <2>2
<1>4. /\ node \in Over /\ node' \in {"reraised", "ended"}
      /\ UNCHANGED <<caller, useRag, count, step, client, results, summary, saved, posted>>
  BY DEF Over
<1>5. RunTypes'
  BY <1>3, <1>4 DEF RunTypes, Nodes
<1>6. ClientInv'
  BY <1>4, ClientQueued DEF client, ClientInv, ClientTypeOK
<1>7. CallsFollow'
  BY <1>4 DEF CallsFollow, client, Batches, Early, Announcing, Late, Over
<1>8. EventsFollow'
  <2>1. posted' => saved'
    BY <1>4 DEF EventsFollow
  <2>2. node' # "publish_comment" /\ node' # "complete_review"
    BY <1>4
  <2> QED
    BY <1>3, <1>4, <2>1, <2>2 DEF EventsFollow
<1> QED
  BY <1>5, <1>6, <1>7, <1>8

LEMMA NextInv == IInv /\ [Next]_vars => IInv'
<1> SUFFICES ASSUME IInv, [Next]_vars PROVE IInv'
  OBVIOUS
<1>1. ASSUME NEW b \in Calls, CallStep(b) PROVE IInv'
  BY <1>1, CallStepInv
<1>2. CASE MainStep
  BY <1>2, EarlyStep, AnnounceStep, CollectStep, MergeStep, ReportStep, LateStep,
     CompleteStep, RaiseStep, FailureStep DEF MainStep
<1>3. CASE UNCHANGED vars
  <2> USE <1>3 DEF vars, client
  <2>1. RunTypes => RunTypes'
    BY DEF RunTypes
  <2>2. ClientInv => ClientInv'
    BY DEF ClientInv, ClientTypeOK
  <2>3. CallsFollow => CallsFollow'
    BY DEF CallsFollow, Answered, Batches
  <2>4. EventsFollow => EventsFollow'
    BY DEF EventsFollow, Emitted, Paired, Answered, Batches
  <2> QED
    BY <2>1, <2>2, <2>3, <2>4 DEF IInv
<1> QED
  BY <1>1, <1>2, <1>3 DEF Next

LEMMA Invariance == Spec => []IInv
  BY InitInv, NextInv, PTL DEF Spec

-----------------------------------------------------------------------------
(* What it implies *)

\* A posted comment belongs to a saved review, and a run that is completed is posted,
\* has all its answers and has not failed: for every number of batches and threads and
\* whatever node raises (review_graph.py, orchestrator.py).
THEOREM OneVerdict == Spec => []VerdictHolds
<1>1. IInv => VerdictHolds
  BY DEF IInv, EventsFollow, VerdictHolds, Answered
<1> QED
  BY Invariance, <1>1, PTL

\* No model call is running or waiting when a terminal event is out, however many
\* threads the pool has (_call_llm, the with block of the pool).
THEOREM PoolIsEmpty == Spec => []NoCallOutlivesRun
<1>1. IInv => NoCallOutlivesRun
  <2> SUFFICES ASSUME IInv, Verdict, NEW b \in Batches
               PROVE  call[b] \notin OnThread \cup {"queued"}
    BY DEF NoCallOutlivesRun
  <2>1. node \in Over
    BY DEF IInv, EventsFollow, Verdict, Over
  <2> QED
    BY <2>1, ClientAssumption DEF IInv, CallsFollow, RunTypes, Batches, Calls
<1> QED
  BY Invariance, <1>1, PTL

\* Each batch is reported with its own result, and no batch has a higher risk than the
\* merged summary, in whatever order the calls finish (executor.map, representative).
THEOREM ResultsInOrder == Spec => []ReportsOwnResult
<1>1. IInv => ReportsOwnResult
  BY DEF IInv, EventsFollow, Paired, CallsFollow, ReportsOwnResult
<1> QED
  BY Invariance, <1>1, PTL

\* Every request is reported to Langfuse once, however many threads share the client
\* (_ensure_langfuse_callback).
THEOREM TracedOnce == Spec => []CallsTraced
<1>1. IInv => CallsTraced
  BY DEF IInv, ClientInv, CallsTraced
<1> QED
  BY Invariance, <1>1, PTL

-----------------------------------------------------------------------------
(* The list of the bus is long enough.  A run publishes fifteen events and two per  *)
(* batch; as long as the bus keeps that many, each event has the number of its      *)
(* place, which is what readers count on.                                           *)

LogHasRoom ==
    /\ node = "create_review" => Len(log) <= 1
    /\ node = "extract_features" => Len(log) <= 2
    /\ node = "select_route" => Len(log) <= 3
    /\ node = "analyze_complexity" => Len(log) <= 4
    /\ node = "select_harness" => Len(log) <= 5
    /\ node \in {"retrieve_policies", "skip_policy_retrieval"} => Len(log) <= 6
    /\ node = "searching" => Len(log) <= 7
    /\ node = "build_prompt" => Len(log) <= 8
    /\ node = "call_llm" => Len(log) <= 9
    /\ node = "announce" => step <= count + 1 /\ Len(log) <= 9 + step
    /\ node \in {"generate", "draining"} => Len(log) <= 10 + count
    /\ node = "report" => step <= count + 1 /\ Len(log) <= 9 + count + step
    /\ node = "validate_findings" => Len(log) <= 11 + 2 * count
    /\ node \in {"assemble_result", "persist_result"} => Len(log) <= 12 + 2 * count
    /\ node \in {"publish_comment", "raised"} => Len(log) <= 13 + 2 * count
    /\ node \in {"complete_review", "reraised"} => Len(log) <= 14 + 2 * count
    /\ Len(log) <= 15 + 2 * count

Numbered == \A i \in DOMAIN log : log[i].seq = i

LogInv == IInv /\ LogHasRoom /\ Numbered

\* As many events as the longest run has.
LogFits == 15 + 2 * MaxBatches <= MaxEvents

LEMMA EmitNumbers ==
  ASSUME log \in Seq(Event(EventTypes)), Numbered, Len(log) < MaxEvents,
         NEW type \in EventTypes, Emit(type)
  PROVE  Numbered' /\ Len(log') = Len(log) + 1
<1> DEFINE new == NextEvent(log, type)
           longer == Append(log, new)
<1>1. new \in Event(EventTypes) /\ new.seq = Len(log) + 1
  BY LenProperties DEF NextEvent, Event
<1>2. /\ Len(longer) = Len(log) + 1 /\ Len(log) \in Nat
      /\ DOMAIN longer = 1 .. Len(log) + 1 /\ DOMAIN log = 1 .. Len(log)
      /\ \A i \in 1 .. Len(log) : longer[i] = log[i]
      /\ longer[Len(log) + 1] = new
  BY <1>1, AppendProperties, LenProperties
<1>3. log' = longer
  <2> HIDE DEF longer, new
  <2>1. ~ (Len(longer) > MaxEvents)
    BY <1>2, RunAssumption
  <2> QED
    BY <2>1 DEF Emit, Published, Trimmed, longer, new
<1> HIDE DEF longer, new
<1> QED
  BY <1>1, <1>2, <1>3 DEF Numbered

LEMMA LogInit == ASSUME LogFits PROVE Init => LogInv
<1> SUFFICES ASSUME Init PROVE LogInv
  OBVIOUS
<1>1. log = Published(<<>>, Whole("review_queued"), MaxEvents)
  BY DEF Init
<1>2. log = <<NextEvent(<<>>, Whole("review_queued"))>>
  BY <1>1, RunAssumption, ClientAssumption DEF Published, Trimmed, LogFits
<1>3. Len(log) = 1 /\ Numbered
  BY <1>2 DEF NextEvent, Numbered
<1>4. LogHasRoom
  <2>1. node = "create_review" /\ count = 0
    BY DEF Init
  <2> QED
    BY <1>3, <2>1 DEF LogHasRoom
<1> QED
  BY <1>3, <1>4, InitInv DEF LogInv

LEMMA LogTypes ==
  ASSUME LogInv
  PROVE  /\ count \in Nat /\ step \in Nat \ {0} /\ count <= MaxBatches /\ MaxBatches \in Nat
         /\ log \in Seq(Event(EventTypes)) /\ Len(log) \in Nat /\ MaxEvents \in Nat
         /\ node \in Nodes
BY ClientAssumption, RunAssumption, LenProperties DEF LogInv, IInv, RunTypes

LEMMA OneMore ==
  ASSUME LogFits, LogInv, NEW type \in EventTypes, Emit(type), Len(log) < 15 + 2 * count
  PROVE  Numbered' /\ Len(log') = Len(log) + 1
<1>1. Len(log) < MaxEvents
  BY LogTypes DEF LogFits
<1> QED
  BY <1>1, LogTypes, EmitNumbers DEF LogInv

LEMMA PassOneMore ==
  ASSUME LogFits, LogInv, NEW name \in EventNames, NEW from, NEW to,
         Pass(from, name, to), from # "ended"
  PROVE  Numbered' /\ Len(log') = Len(log) + 1 /\ node = from /\ node' = to
<1>1. node = from /\ node' = to
  BY DEF Pass, Goto
<1>2. /\ count \in Nat /\ step \in Nat /\ Len(log) \in Nat
      /\ node \in Nodes /\ node # "ended" /\ LogHasRoom
  BY <1>1, LogTypes DEF LogInv
<1>3. Len(log) < 15 + 2 * count
  BY <1>2 DEF LogHasRoom, Nodes
<1> QED
  BY <1>1, <1>3, OneMore, WholeType DEF Pass

\* Ten events until the calls are announced, one at a node.
LEMMA EarlyLog ==
  ASSUME LogFits, LogInv,
         \/ CreateReview \/ ExtractFeatures \/ SelectRoute \/ AnalyzeComplexity
         \/ SelectHarness \/ StartRetrieval \/ EndRetrieval \/ SkipRetrieval
         \/ BuildPrompt \/ StartCalls
  PROVE  Numbered' /\ LogHasRoom'
<1>1. count' \in Nat /\ count \in Nat /\ Len(log) \in Nat /\ LogHasRoom
  BY LogTypes, ClientAssumption
  DEF CreateReview, ExtractFeatures, SelectRoute, AnalyzeComplexity, SelectHarness,
      StartRetrieval, EndRetrieval, SkipRetrieval, BuildPrompt, StartCalls, LogInv
<1>2. CASE CreateReview
  <2>1. Numbered' /\ Len(log') = Len(log) + 1 /\ node = "create_review" /\ node' = "extract_features"
    BY <1>2, PassOneMore DEF CreateReview, EventNames
  <2> QED
    BY <1>1, <2>1 DEF LogHasRoom
<1>3. CASE ExtractFeatures
  <2>1. Numbered' /\ Len(log') = Len(log) + 1 /\ node = "extract_features" /\ node' = "select_route"
    BY <1>3, PassOneMore DEF ExtractFeatures, EventNames
  <2> QED
    BY <1>1, <2>1 DEF LogHasRoom
<1>4. CASE SelectRoute
  <2>1. Numbered' /\ Len(log') = Len(log) + 1 /\ node = "select_route" /\ node' = "analyze_complexity"
    BY <1>4, PassOneMore DEF SelectRoute, EventNames
  <2> QED
    BY <1>1, <2>1 DEF LogHasRoom
<1>5. CASE AnalyzeComplexity
  <2>1. Numbered' /\ Len(log') = Len(log) + 1 /\ node = "analyze_complexity" /\ node' = "select_harness"
    BY <1>5, PassOneMore DEF AnalyzeComplexity, EventNames
  <2> QED
    BY <1>1, <2>1 DEF LogHasRoom
<1>6. CASE StartRetrieval
  <2>1. Numbered' /\ Len(log') = Len(log) + 1 /\ node = "retrieve_policies" /\ node' = "searching"
    BY <1>6, PassOneMore DEF StartRetrieval, EventNames
  <2> QED
    BY <1>1, <2>1 DEF LogHasRoom
<1>7. CASE EndRetrieval
  <2>1. Numbered' /\ Len(log') = Len(log) + 1 /\ node = "searching" /\ node' = "build_prompt"
    BY <1>7, PassOneMore DEF EndRetrieval, EventNames
  <2> QED
    BY <1>1, <2>1 DEF LogHasRoom
<1>8. CASE SkipRetrieval
  <2>1. Numbered' /\ Len(log') = Len(log) + 1 /\ node = "skip_policy_retrieval" /\ node' = "build_prompt"
    BY <1>8, PassOneMore DEF SkipRetrieval, EventNames
  <2> QED
    BY <1>1, <2>1 DEF LogHasRoom
<1>9. CASE BuildPrompt
  <2>1. Numbered' /\ Len(log') = Len(log) + 1 /\ node = "build_prompt" /\ node' = "call_llm"
    BY <1>9, PassOneMore DEF BuildPrompt, EventNames
  <2> QED
    BY <1>1, <2>1 DEF LogHasRoom
<1>10. CASE SelectHarness
  <2>1. /\ Numbered' /\ Len(log') = Len(log) + 1 /\ node = "select_harness"
        /\ node' \in {"retrieve_policies", "skip_policy_retrieval"}
    BY <1>10, PassOneMore DEF SelectHarness, EventNames
  <2> QED
    BY <1>1, <2>1 DEF LogHasRoom
<1>11. CASE StartCalls
  <2>1. /\ Numbered' /\ Len(log') = Len(log) + 1
        /\ node = "call_llm" /\ node' = "announce" /\ step' = 1
    BY <1>11, PassOneMore DEF StartCalls, EventNames
  <2>2. Len(log) <= 9
    BY <1>1, <2>1 DEF LogHasRoom
  <2>3. Len(log') <= 10 /\ step' <= count' + 1
    <3>1. Len(log) \in Nat /\ Len(log') = Len(log) + 1 /\ Len(log) <= 9
      BY <1>1, <2>1, <2>2
    <3>2. Len(log') <= 10
      BY <3>1
    <3>3. step' = 1 /\ count' \in Nat
      BY <1>1, <2>1
    <3>4. \A n \in Nat : 1 <= n + 1
      OBVIOUS
    <3> QED
      BY <3>2, <3>3, <3>4
  <2>4. Len(log') <= 9 + step' /\ Len(log') <= 15 + 2 * count'
    BY <1>1, <2>1, <2>3
  <2> QED
    BY <2>1, <2>3, <2>4 DEF LogHasRoom
<1> QED
  BY <1>2, <1>3, <1>4, <1>5, <1>6, <1>7, <1>8, <1>9, <1>10, <1>11

\* Two events for every batch, announced and reported one by one.
LEMMA BatchLog ==
  ASSUME LogFits, LogInv, AnnounceBatch \/ ReportBatch
  PROVE  Numbered' /\ LogHasRoom'
<1>1. /\ count \in Nat /\ step \in Nat \ {0} /\ Len(log) \in Nat /\ MaxBatches \in Nat
      /\ count <= MaxBatches /\ step <= count
      /\ LogHasRoom /\ node' = node /\ node \in {"announce", "report"}
      /\ step' = step + 1 /\ count' = count
  BY LogTypes DEF AnnounceBatch, ReportBatch, LogInv
<1>2. Len(log) < 15 + 2 * count
  BY <1>1 DEF LogHasRoom
<1>3. Numbered' /\ Len(log') = Len(log) + 1
  <2>1. CASE AnnounceBatch
    BY <1>1, <1>2, <2>1, BatchEventType, OneMore DEF AnnounceBatch, EventNames
  <2>2. CASE ReportBatch
    <3>1. results[step].batch = step
      BY <1>1, <2>2 DEF ReportBatch, LogInv, IInv, CallsFollow, Answered, Late, Batches
    <3> QED
      BY <1>1, <1>2, <2>2, <3>1, BatchEventType, OneMore DEF ReportBatch, EventNames
  <2> QED
    BY <2>1, <2>2
<1> QED
  BY <1>1, <1>3 DEF LogHasRoom

\* Nothing is published while the calls run.
LEMMA SilentLog ==
  ASSUME LogInv,
         \/ SubmitCalls \/ TakeResult \/ TakeFailure \/ LeavePool \/ MergeResults
         \/ AssembleResult \/ Raise \/ ApiCallerFails
         \/ UNCHANGED vars \/ \E b \in Calls : CallStep(b)
  PROVE  Numbered' /\ LogHasRoom'
<1>1. /\ count \in Nat /\ step \in Nat \ {0} /\ Len(log) \in Nat /\ LogHasRoom
      /\ log' = log /\ count' = count
  BY LogTypes DEF LogInv, SubmitCalls, TakeResult, TakeFailure, LeavePool, MergeResults,
     AssembleResult, Raise, ApiCallerFails, vars, CallStep
<1>2. Numbered'
  BY <1>1 DEF LogInv, Numbered
<1>3. CASE \/ TakeFailure \/ AssembleResult \/ LeavePool \/ ApiCallerFails
  BY <1>1, <1>2, <1>3 DEF TakeFailure, AssembleResult, LeavePool, ApiCallerFails, Goto, LogHasRoom
<1>4. CASE SubmitCalls \/ MergeResults
  BY <1>1, <1>2, <1>4 DEF SubmitCalls, MergeResults, Goto, LogHasRoom
<1>5. CASE Raise
  BY <1>1, <1>2, <1>5 DEF Raise, Fallible, Goto, LogHasRoom
<1>6. CASE TakeResult
  <2>1. node = "generate" /\ node' = "generate"
    BY <1>6 DEF TakeResult
  <2> QED
    BY <1>1, <1>2, <2>1 DEF LogHasRoom
<1>7. CASE UNCHANGED vars \/ \E b \in Calls : CallStep(b)
  <2>1. node' = node /\ step' = step
    BY <1>7 DEF CallStep, vars
  <2> QED
    BY <1>1, <1>2, <2>1 DEF LogHasRoom
<1> QED
  BY <1>2, <1>3, <1>4, <1>5, <1>6, <1>7

LEMMA LateLog ==
  ASSUME LogFits, LogInv,
         \/ EndCalls \/ ValidateFindings \/ PersistResult \/ PublishComment
         \/ CompleteReview \/ OrchestratorFails \/ WebhookCallerFails
  PROVE  Numbered' /\ LogHasRoom'
<1>1. /\ count \in Nat /\ step \in Nat /\ Len(log) \in Nat /\ LogHasRoom /\ count' = count
  BY LogTypes DEF LogInv, EndCalls, ValidateFindings, PersistResult, PublishComment,
     CompleteReview, OrchestratorFails, WebhookCallerFails
<1>2. CASE EndCalls
  <2>1. Numbered' /\ Len(log') = Len(log) + 1 /\ node = "report" /\ node' = "validate_findings"
    BY <1>2, PassOneMore DEF EndCalls, EventNames
  <2> QED
    BY <1>1, <2>1 DEF LogHasRoom
<1>3. CASE ValidateFindings
  <2>1. Numbered' /\ Len(log') = Len(log) + 1 /\ node = "validate_findings" /\ node' = "assemble_result"
    BY <1>3, PassOneMore DEF ValidateFindings, EventNames
  <2> QED
    BY <1>1, <2>1 DEF LogHasRoom
<1>4. CASE PersistResult
  <2>1. Numbered' /\ Len(log') = Len(log) + 1 /\ node = "persist_result" /\ node' = "publish_comment"
    BY <1>4, PassOneMore DEF PersistResult, EventNames
  <2> QED
    BY <1>1, <2>1 DEF LogHasRoom
<1>5. CASE PublishComment
  <2>1. Numbered' /\ Len(log') = Len(log) + 1 /\ node = "publish_comment" /\ node' = "complete_review"
    BY <1>5, PassOneMore DEF PublishComment, EventNames
  <2> QED
    BY <1>1, <2>1 DEF LogHasRoom
<1>6. CASE CompleteReview
  <2>1. Numbered' /\ Len(log') = Len(log) + 1 /\ node = "complete_review" /\ node' = "ended"
    BY <1>6, PassOneMore DEF CompleteReview, EventNames
  <2> QED
    BY <1>1, <2>1 DEF LogHasRoom
<1>7. CASE OrchestratorFails
  <2>1. Numbered' /\ Len(log') = Len(log) + 1 /\ node = "raised" /\ node' = "reraised"
    BY <1>7, PassOneMore DEF OrchestratorFails, EventNames
  <2> QED
    BY <1>1, <2>1 DEF LogHasRoom
<1>8. CASE WebhookCallerFails
  <2>1. Numbered' /\ Len(log') = Len(log) + 1 /\ node = "reraised" /\ node' = "ended"
    BY <1>8, PassOneMore DEF WebhookCallerFails, EventNames
  <2> QED
    BY <1>1, <2>1 DEF LogHasRoom
<1> QED
  BY <1>2, <1>3, <1>4, <1>5, <1>6, <1>7, <1>8

LEMMA LogNext == ASSUME LogFits PROVE LogInv /\ [Next]_vars => LogInv'
<1> SUFFICES ASSUME LogInv, [Next]_vars PROVE LogInv'
  OBVIOUS
<1>1. IInv'
  BY NextInv DEF LogInv
<1>2. Numbered' /\ LogHasRoom'
  BY EarlyLog, BatchLog, SilentLog, LateLog DEF Next, MainStep
<1> QED
  BY <1>1, <1>2 DEF LogInv

\* If the bus keeps as many events as the longest run publishes, fifteen and two for
\* every batch, it never trims the list of a run, whatever fails and however the calls
\* overlap: every event has the number of its place (events.py, publish).
THEOREM NothingTrimmed == ASSUME LogFits PROVE Spec => []TypeOK
<1>1. LogInv => TypeOK
  BY DEF LogInv, IInv, RunTypes, ClientInv, Numbered, TypeOK
<1>2. Spec => []LogInv
  BY LogInit, LogNext, PTL DEF Spec
<1> QED
  BY <1>1, <1>2, PTL

==============================================================================
