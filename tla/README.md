# A formal model of the review service

TLA+ modules of the code review service in `backend/app`, checked with TLC on
small instances; every invariant and action property of the passing runs, and every
refinement, is proved with TLAPS as well. A GitHub App or an API client
asks for the review of a pull request; the service plans, asks a language model,
validates what it answers, saves the result and publishes it. This document says
which part of the code each module stands for, what is checked and proved, under
which bounds and assumptions, and what is left out. `PROJECT.json` maps every
definition to its lines of source.

## 1. The system

| part | state it keeps | operations | talks to |
|---|---|---|---|
| event bus (`services/events.py`) and stream endpoint (`main.py`) | a list of events per run, in memory, the newest 200 | `publish`, `snapshot`, `has_run`, `stream` | run (publishes, from worker threads), SSE clients |
| review run (`services/review_graph.py`, `services/orchestrator.py`) | state of the graph, a pool of model calls | the nodes, from `create_review` to `complete_review` | bus, grounding, model, store, publisher |
| model client (`services/llm.py`) | whether the tracing callback is registered, and litellm's two lists of callbacks | `generate_review`, two attempts, behind a lock once | model (external) |
| grounding: routing (`core/routing.py`), complexity (`review_harness/scripts/complexity_metrics.py`), harness (`services/policy_harness.py`), ranking (`services/rag.py`) | what the nodes of one run hand on: route, measurements, cards, policies | the nodes from `select_route` to `build_prompt` | run, policy index, GitHub |
| prompt batches (`services/prompt_builder.py`) | none | ordering, cutting, grouping, the message of each batch | run |
| findings (`services/review_quality.py`) | none | validation, correction, ranking, caps | run |
| webhook task (`main.py`) and plan (`services/github_app.py`, `core/schemas.py`) | the tasks under way, in memory | the task, `review_plan`, pending and failed check runs, `idempotency_key` | GitHub (external), store, run |
| publisher (`services/publisher.py`) | comments and check runs on GitHub, or a file per run | `publish`, as a GitHub App, with a token, locally | GitHub, disk |
| store (`storage/`) | saved reviews, in a JSON file or a table | `save_review`, `list_reviews` | file system or Postgres (external) |
| policy index (`services/rag.py`) | `policy_chunks` in Postgres, or none | `sync`, `search`, `has_policy` | run, sync endpoint, CLI, Postgres |
| configuration, masking, endpoints for listing, evaluation scripts, GitHub Action | none | | |

Who runs at the same time: every webhook delivery and every asynchronous API
review has a thread of its own (`run_in_threadpool`/background tasks); a run
starts up to four model calls on a pool; streams are generators on the event loop
that poll the bus. Tasks share the store, the bus, the model client, the policy
table and the pull request. There is no lock except those of the bus and of the
model client, and no queue that survives a restart.

What is hard about it, and where it is stated as a property:

- readers of a stream against publishing workers, reconnects and restarts:
  nothing lost, repeated or out of order, and the stream ends;
- one of several model calls fails while others run or wait: no call outlives the
  run, the run does not complete, and it always ends with a verdict; the threads
  meet at the client's registration of its callback;
- several deliveries of one commit, old commits that finish late, the service's
  own check runs that come back as deliveries;
- publications that overlap, fail half way, or of which GitHub carries out a call
  whose answer is lost;
- two writers of one file, a reader while it is rewritten, a rewrite that fails half way;
  threads that share one store object, and two writers of one table or policy index;
- selections that are made three times with different inputs: for the request, for
  each batch once files have been separated and patches cut, and put together
  for the validation of what all batches returned;
- budgets and caps: files between two batches, findings that become equal only
  when they are corrected, a card of each skill on a full list.

`PROJECT.json` lists these under `hazards`, line by line.

## 2. Modules

An action is one step of the code that others can see between: a call to GitHub,
a statement of the database, one locked section, one turn of a sequential loop.

| module | models | state and actions |
|---|---|---|
| `EventLog` | the list of one run in the bus | operators only: numbering, trimming, snapshot |
| `ReviewFeed` | abstract: one growing log per run, one cursor per client | `Grow`, `Follow`, `Return`, `Deliver`, `Leave` |
| `ReviewEventBus` | `InMemoryReviewEventBus`, `stream_review_events` | `events` is `_events`; a generator is `phase`, `next` (`next_sequence`) and `batch` (the snapshot being walked); `Publish`, `Subscribe`, `Resume`, `Poll`, `Send`, `Drop`, `Restart` |
| `ReviewRun` | graph, orchestrator, caller, pool of model calls | `node` is the node to run next; `results`, `summary`, `saved`, `posted`; one action per node, and in `call_llm` one per event and per result |
| `ModelClient` | `LiteLLMClient`, part of `ReviewRun` | `call`, `attempt`, `risk` are the futures; `ready` and `registered` the flag and the two lists of callbacks; the lock is held by the call that is in `Locked` |
| `WebhookReview` | webhook task, plan, key, check runs | per delivery `phase`, `fetch`, `pull`, `todo` (the rest of the plan), `known` (the saved keys it has read: with Postgres all, with the file perhaps some); GitHub is `head`, `draft`, `comment`, `checks`, `message` |
| `GitHubPublisher` | `create_publisher` and the three publishers | `inline` and `summaries` on GitHub, `files` on disk; per publisher `pc`, the next call, and `found`, the comments of its last listing it has still to deal with; `settled` and `latest` only observe which scopes, and which publications, nothing has disturbed |
| `ReviewStore` | abstract: a save takes effect at one moment and stays | `Save`, `List` |
| `LocalJsonStore` | the JSON file | `file`; read, open (which empties it) and write are steps of their own; each may fail (`Fails`, and `WriteFails` with the file emptied), the process may die (`Crash`); `returned` and `overlapped` observe what an undisturbed save has promised |
| `PostgresReviewStore` | the table `review_runs` | `ready` is the `_schema_ready` of each store object, which its threads share (`object`); looking at it, creating the schema, setting it and the statement are steps; `Fail`, `Restart` |
| `ReviewStores` | `create_review_store` | `backend` is what the settings make of it; the steps are those of the store that was chosen |
| `PolicyIndex` | `PostgresPolicyIndex` | `rows`; per transaction `found`, `gone`, `written`, for the locking of READ COMMITTED row by row |
| `PromptBatches` | `build_review_prompt_batches` | a step is one turn of the sort, selection, grouping or writing loop: `queue` is what the loop has still to walk through, `budget` is `remaining_patch_chars`, `selected`, `groups` with `group`, `snapshots` and `messages` are the lists the loops fill |
| `Routing` | `extract_features`, `select_route` | operators: checks and mode to route and retrieval |
| `Complexity` | the choice of the sources to download, `analyze_python_file` | operators: places of files, and the functions that have changed |
| `PolicyHarness` | `PolicyHarness`: the checks of the manifest, `select` | operators; a text is the set of its words, and finding a marker in it is `Finds` |
| `PolicyRanking` | `rank_policy_chunks` and its query | operators |
| `Ordering` | what `sorted` gives for a set whose elements come in one order only | operators: `InOrder`, `Ascending`, `FirstOf` |
| `ReviewGrounding` | the nodes from the start of the service to `build_prompt` | `node`, and what they hand on: `route`, `metrics`, `harness`, `policies`, `batches`; one action per node, and one per batch, whose files are a list of places in any order |
| `ReviewQuality` | `validate_and_rank_findings` | `given` are its arguments; a step is one finding; `Rank` sorts and cuts |
| `GroundedReview` | both together | `Ground` is a step of `ReviewGrounding`, `ValidateFindings` one of `ReviewQuality`, whose `given` is what the grounding left |
| `MC*` | instances for TLC | constants only |
| `*Proofs` | theorems about the module they extend | |

`ReviewRun` uses `EventLog` for its events as the bus does. `WebhookReview` takes
of a run only the steps other tasks see (save, comment, check run), those that
`ReviewRun` and `GitHubPublisher` show in detail. `ReviewEventBus` is shown to
implement `ReviewFeed`, the store that is chosen to implement `ReviewStore`.
`GroundedReview` composes the nodes `ReviewRun` only passes through with the
validation of the findings; which files share a batch, and what is cut from their
patches, is any choice there, because `PromptBatches` says which it is.

Definitions with a suffix, placed before the definition of the same stem
(`KeyOfCommit` before `Key`, `InsertCommitted` before `Insert`), are faulty
variants. No specification uses them: put in the place of the real definition,
each makes a stated property fail, which shows the property depends on that line
of code.

## 3. Runs

Passing runs:

| run | instance | shows |
|---|---|---|
| `MCReviewEventBus` | 2 runs, 1 client, 3 publishes per run, at most 3 kept, 2 types | `ReadersFollow` (`ReceivedIsPrefix` and `ClosedAfterTerminal`), `StreamEnds`, `ImplementsFeed` |
| `MCReviewRun` | both callers, up to 3 batches on 2 threads, 2 attempts, a client that is new or has registered its callback | `VerdictHolds`: posted means saved, completed means posted and answered in all batches, and never completed and failed; `CallsTraced`: no request before both lists have the callback, and neither has it twice; `NoCallOutlivesRun`; `ReportsOwnResult`: each batch reports its own result, and the merged risk is not below any batch's; `RunEnds`; with `TypeOK`, that the events fit the bus |
| `MCDeliveries` | 1 pull request, 2 commits, 2 deliveries of any kind, mode `all`; plan, review or publication may fail | `NothingReviewedAgain`, which is about `STORAGE_BACKEND=postgres`, `DiffNotOlder`, `NoSelfTrigger`, `SuccessMeansPublished`, and `ChecksEnd` |
| `MCSuites` | 2 pull requests with 2 commits each, plans of up to 2, 2 check suites, local publishing, the local store, whose listing may miss reviews; every call may fail, the process may restart | `SkipsOnlyReviewed` through the loop over a plan |
| `MCGitHubPublisher` | 3 publishers of each kind, 2 scopes, 1 finding, 1 foreign comment, listings of 2; both kinds of failure | `ShowsLastReview`: a publication that came last in its scope, undisturbed, is what the scope shows, its inline comments and no others and its text in the newest summary, which is the only one unless an earlier disturbance left one; `SuccessIsVisible`, `OthersUntouched` |
| `MCReviewStores` | either store, 3 reviews, 2 callers on 2 store objects, which they may share; crashes, failures at every step, restarts | `ImplementsStore`: the table always, the file except where a caller that overlaps a save moves, or a save is cut short while it rewrites the file; `KeptUndisturbed` of the file, `StatementHasTable` of the table; with `TypeOK`, that the file lists no review twice |
| `MCPolicyIndex` | 2 users, 2 versions of the folder with a chunk in common | `WholePolicies` (`HoldsWholeVersion` and `AnswersWhole`), `SyncAloneReplaces` |
| `MCPromptBatches` | all lists of up to 5 files of 8 kinds, of which 4 may be selected and 3 share a batch, budgets 2/3/6 | `BatchesShowSelection`: no file is selected twice; the batches one after the other are the selected files, within the limits; each file is shown with the patch it was selected with, or has none and the others use up the budget of its batch. `BestFilesSelected` |
| `MCGroundedReview` | 11 requests on all routes of up to 2 files, one good manifest and 11 with a mistake, all answers of up to 3 of 14 findings | `CardsHaveEvidence`, `SkillsRepresented`, `OwnPolicyFirst` (up to the bonus), `OfferedIsKnown` of what the batches are given; `Accounted`, `SaidOnceInDiff` (`NoTwins` and `LinesInDiff`), `BestJustified` (`BestWithinCaps` and `ComplexityTrue`) of what becomes of the findings |

Each also checks the type invariant of its module (`MCSuites` leaves that of
`WebhookReview` to `MCDeliveries`). Deliveries, pull requests and publishers are
interchangeable where a run declares a symmetry. Runs that show a disagreement
with the repository's own words:

| run | property | what TLC finds |
|---|---|---|
| `MCDuplicates` | `OneReviewPerKey` | two overlapping deliveries of one commit both read the saved keys before either has saved, and both review it (`main.py:138`; `github_app.py:426` and `policies/api-contract.md:22` say this must not happen) |
| `MCCutsMarked` | `CutsAreMarked` | `patch_truncated` compares with a patch `_selected_files_for_review` has cut before, so the cut is not marked (`prompt_builder.py:189`) |
| `MCRemovedDashes` | `LinesInDiff` | a removed line whose text begins with `--` is `---...` in the patch, is taken for the header of a file and counted, so that every line after it gets a number one too high and a finding names a line outside the diff (`review_quality.py:91`; `review_quality.py:75` says removed lines are left out) |

### Bounds

Two deliveries, clients, callers or users suffice for the properties about them:
each relates one of them to what one other did meanwhile; the publisher has three,
because a third finds what two overlapping ones have left. Two commits make an old
and a new one. Three events per run with a limit of three make a reader
fall behind, catch up and return; a limit below the number of publishes, where
the numbers of the bus repeat, is excluded: `NothingTrimmed` proves that a run publishes
at most 15 events and two per batch, 75 for the 30 files of the largest budget of the
router, and the bus keeps 200. The
instance of `PromptBatches` is scaled by 2000 characters, so that the 4000, 6000
and 12000 of a failure review are 2, 3 and 6; files are missing a patch, below, at
and above a limit, with and without a signal word that a cut removes. With five files
and a limit of four the cut by number happens as well as the cut by characters.
The publisher's pages hold two entries, so that a listing longer
than its pages, 1000 comments in the code, happens.

`GroundedReview` is scaled as well: the query names the first file instead of ten, the
index offers its best two policies instead of eight, one source is downloaded instead
of eight, a batch is given one policy, and a complexity above 2 is reported instead of
one above 15. The bonus of the repository's own policy is 1 instead of 10 and scores
are rounded to one digit instead of four: a section of four words of which the query
has all scores 2 and passes an own section that scores 1.7 with its bonus, as in the
code a section of several hundred words that the patches repeat passes one that scores
10. `OwnPolicyFirst` says how far the bonus reaches. Which files share a batch is any
choice, and so is which words of their patches are cut away: every set of
whole words a cut to a prefix can leave is among it. A word cut in two counts as lost,
although its first part may still be found as a word of its own. There is one finding for each check and
correction, pairs that become equal only by one, and cards for each way of being
chosen (path, patch, both, always, filled up). No removed line begins with `--` there:
`MCRemovedDashes` is the instance in which one does. `MCReviewRun` has tracing
switched on, with a client that is new and with one an earlier run has registered.

Drafts are left out of instances without
`pull_request` deliveries, the only ones that look at them. `CHECK_DEADLOCK FALSE`
stands where the system may stop: all deliveries handled, a run at its end, a
publication published, a bounded list used up.

### Fairness

- `ReviewEventBus`: `Poll` and `Send` of each client are weakly fair, because the
  event loop schedules a generator that has something to do (0.25 s
  between polls). Nothing is assumed of workers, clients or restarts; a dropped
  connection ends a stream as well, and `StreamEnds` says so.
- `ReviewRun`: the main thread and each model call are weakly fair; a call has a
  time limit of 90 seconds and one transport retry. A thread that waits for the
  client's lock gets it: a thread takes it once at most, so that nobody can be
  overtaken for ever, and no one waits for anything while holding it.
- `WebhookReview`: each task is weakly fair; GitHub and model calls have time
  limits. Restarts are not among the faults of `MCDeliveries`: tasks are lost with
  the process and nothing completes their check runs. Neither is a failure of the
  call that completes a check as failed, which the code only logs.

## 4. Proofs

TLAPS checks the theorems for every value of the constants the named assumptions
allow. Each proof follows the same argument: an inductive invariant holds
initially, every action preserves it, it implies the property.

| theorem | property | argument |
|---|---|---|
| `ReviewEventBusProofs!TypeCorrect` | `TypeOK` | inductive as it stands |
| `StreamsEndWithTerminal` | `ClosedAfterTerminal` | with `TypeOK`: only `Send` closes a stream, having appended the terminal event |
| `ReadersGetTheRun` | `ReadersFollow` | `StreamsEndWithTerminal`, and for `ReceivedIsPrefix`: holds for `PublishLimit <= MaxEvents`, without which trimming makes numbers repeat. Needs `ListIsAll` (the list of a live run is what was published, numbered by place), `CursorIsNext` (`next_sequence` is one past what the client has) and `BatchContinues` (the rest of the snapshot continues there without a gap) |
| `BusIsFeed` | `ImplementsFeed` | under the same condition, from the same invariant: `Publish` maps to `Grow`, `Subscribe` to `Follow`, `Resume` to `Return`, `Send` to `Deliver`, `Drop` and `Restart` to `Leave`, a poll to a stutter; a run whose log was lost with the process keeps, in the feed, what was published |
| `ReviewRunProofs!OneVerdict`, `ResultsInOrder` | `VerdictHolds`, `ReportsOwnResult` | `EventsFollow`: which events, results, saved and posted state each `node` has behind it; results are collected in the order of the batches, and the merged risk is their maximum |
| `PoolIsEmpty` | `NoCallOutlivesRun` | `CallsFollow`: which calls exist at each `node`; the pool's exit waits for every call that runs and cancels every other |
| `TracedOnce` | `CallsTraced` | `ClientInv`: one call at a time is behind the lock; while none is, the flag says how often the callback is in the lists, once or not at all |
| `NothingTrimmed` | `TypeOK` | if 15 events and two per batch fit (`LogFits`). `LogHasRoom`: how many events are out at each `node`, counted from the calls and results in `call_llm`; `Numbered`: as none was trimmed, each event's number is its place |
| `GitHubPublisherProofs!SuccessShown` | `SuccessIsVisible` | `FoundIsThere`: the summary that is about to be patched is there, as nobody deletes summaries; `ScopeOfCreator`: a summary keeps the scope of the publisher that made it, so a patch never takes another scope's away; `ModeFollowed`: the calls made are those of the mode |
| `CommentsMarked` | `TypeOK` | a comment of the service has the marker of its scope wherever it is kept: on the pull request, in a listing, and as the summary a publisher is about to patch |
| `OthersLeftAlone` | `OthersUntouched` | `MarkersInv`: what a publisher has found, and what it deletes or patches next, is by the App and of its own scope (`ScopesFit`, `NextIsOurs`); with `FoundIsThere`, the comment that is hit is the one that was found |
| `LastReviewShown` | `ShowsLastReview` | `LatestInv`: how far a publication that came last has come (`Replaced`: which old comments are still to be deleted, that its own are the only ones once posted, that the summary it patches is the newest, that the newest is by it afterwards), whatever earlier ones have left. `SettledInv`: a scope in which nothing ever overlapped or failed has one summary at most. `IdsInv`: no comment appears twice, its id tells its creator, and who has not posted yet has none |
| `ReviewStoresProofs!TypeCorrect` | `TypeOK` | with the invariants of both stores: no review is listed twice |
| `FileKeeps` | `KeptUndisturbed` | `OneSaver`: a review is saved by one caller and not in the file before. `Alone`: a save that overlaps none has in its copy what was in the file, finds the file as it has emptied it, and while two overlap nothing counts as saved |
| `SchemaBeforeStatement` | `StatementHasTable` | `TableInv`: a flag, whichever thread has set it, is set only once the table exists, and a thread about to set it has created it |
| `KeepsContract` | `ImplementsStore` | commit and SELECT, or write and read of the file, map to `Save` and `List`, every other step to a stutter, except the steps of a caller that overlaps a save and of a save cut short |
| `WebhookReviewProofs!TypeCorrect` | `TypeOK` | with `HasCurrent`: a task that reviews has a request in hand |
| `ReviewedOnce` | `NothingReviewedAgain` | for the Postgres store. `TaskKnows`: what was saved when the delivery was sent is among the keys its task has read, because the table only grows and a listing has all of it, and the request under review is not |
| `OwnChecksStartNothing` | `NoSelfTrigger` | `OwnIsIdle`: a task about an own check never gets to work, so it has saved nothing (`SavedByTasks`) |
| `SkippedWasReviewed` | `SkipsOnlyReviewed` | `KnownIsSaved`: the keys a task has read are those of reviews that were saved, whichever of them the store has lost since, so what a task skips has been saved |
| `GreenMeansPublished` | `SuccessMeansPublished` | `TaskSound`: the check run, the commit and the result of a task belong together at every `phase`; check runs are only added or completed, and only by the task that has just commented |
| `FilesNotOlderThanCommit` | `DiffNotOlder` | `WasHead`, `ListedLater`: a commit was the head when it was read, heads only grow, files are listed afterwards |
| `PolicyIndexProofs!TypeCorrect`, `NeverAPart` | `TypeOK`, `WholePolicies` | `WritesAll`: written and still to be written chunks are those read, so every commit leaves a whole version; `DeletedOnce`: no row is deleted twice, so a DELETE in progress holds live rows only |
| `AloneItReplaces` | `SyncAloneReplaces` | `AloneFoundAll`: a transaction nobody overlapped found all rows; `DeletedAll`: it has deleted them before it inserts |
| `PromptBatchesProofs!EntriesWellFormed` | `TypeOK` | `Types`: with it, the entries of every list are of files of the request |
| `BatchesAreTheSelection` | `BatchesShowSelection` | `SelectionInv`: what is selected and what is left make up the budget of the route, and what waits is not selected yet. `GroupsInv`: closed batches, the open one and the rest of the queue follow one after the other in the selection (`ClosedBatch`). `MessagesInv`: while a message is written, the budget is at least what waits in the queue, so no patch is cut again, and when it is used up nothing that waits has a patch (`BudgetLeft`) |
| `BestComeFirst` | `BestFilesSelected` | `QueueInOrder`: what waits is in order of priority. `BestSoFar`: while there is budget left, what waits stands above what has been left out by number, and what has been selected with a patch above both |
| `GroundedReviewProofs!EveryFindingCounted` | `Accounted` | every finding is either kept or adds one to one counter of the report |
| `FindingsJustified` | `BestJustified` | `ValidInv`: what is kept has passed every check (`Right`). The ranking is a permutation of it: places differ, and an injection of a finite set into itself reaches all of it. `Returned`: the result is the beginning of a ranking. `GroundInv`: a metric that is cited is a measurement of a file of the request; the cards findings are judged by are those of an accepted manifest (`GroundingInv`) |
| `SaidOnceAndInDiff` | `SaidOnceInDiff` | the keys in `ValidInv` are distinct, and a permutation keeps them so; assumes `NoRemovedDashes`, without which `MCRemovedDashes` shows it to be false |
| `GroundsWellFormed` | `TypesOK` | `GroundingInv`, below, and `IInv` of the findings |
| `CardsRestOnEvidence` | `CardsHaveEvidence` | `GroundingInv`: what the harness gave the request and each batch is a selection of the manifest (`FromManifest`, `GoodBatch`) for the files it was shown; `SelectIs`: every selected card is an item, and an item that asks for path and patch has one file with both |
| `EverySkillRepresented` | `SkillsRepresented` | `BestOfEachSkillIs`: the best items of the skills come first, one each; `FilledIs`: filling up drops none of them |
| `OwnPolicyNotCrowdedOut` | `OwnPolicyFirst` | `RankingIs`: a ranking is full of chunks that score no less than any it leaves out, so that a foreign one in it has by its words what an own one outside has with its bonus. `OwnInv`: this holds of what was retrieved and of what each batch was given, so that it survives the index's ranking, the joined list and the batch's. No bound on the size of a section is assumed |
| `WhatIsOfferedIsKnown` | `OfferedIsKnown` | `GroundingInv`: what is handed on collects the cards and sections of all batches |

The grounding sorts by scores, and a proof about it rests on what a sort returns.
`InOrderIs` proves it once, for `Ordering!InOrder`: if `before` is a linear order of a
finite set, every number below the size of the set is the number of elements before
exactly one of them (`Ranks`), so that the list has each element once and in order.
The orders of the items, of the chunks, of the paths and of numbers are shown to be
linear (`ItemsDistinct`, `RankingIs`, `PlacesInOrder`, `AscendingIs`). `GroundingInv`
then says what each node has left behind: the manifest was accepted before anything
was selected from it, the selection is one of it (`ChosenInv`), so is that of every
batch (`BatchesInv`), own sections are left out for outscoring ones only (`OwnInv`)
and what batches were given is in what the validation gets (`OfferedIsKnown`). TLC
found this invariant to hold on `MCGroundedReview` before it was proved.

`PromptBatches` sorts files that may be equal, and adds up lengths. A stable sort is a
sort in a linear order of places: `PrecedesIsLinear` shows that order to be linear,
because the priority is a strict weak order (`HigherIsOrder`), and `SortedIs` that the
result has each entry once, none above an earlier one. A sum is the number of the units
of all its numbers, so that what a sum over a longer list, a tail or a reordered list is
follows from bijections and disjoint unions (`SplitTotal`, `MovedTotal`). `IInv` is the
conjunction of the parts the table names; TLC checked each of them on
`MCPromptBatches` before it was proved.

Assumptions: `BusAssumption`, `RunAssumption`, `ClientAssumption`,
`WebhookAssumption`, `VersionsAssumption`, `StoresAssumption`, `PublisherAssumption`,
`AnswersAssumption`, `QualityAssumption`, `FilesAssumption`, `BudgetAssumption` (the
4000 characters of one file are not more than those of a batch, at least 6000),
`GroundingAssumption`, and `GivenAssumption` (every file of a request has a patch in
`Patches`, every card of a manifest is in `Cards`: the constants of the two halves of
`GroundedReview` speak of the same things). Four theorems have a condition of their
own: `ReadersGetTheRun` and `BusIsFeed` that no run publishes more than the bus keeps,
`NothingTrimmed` that 15 events and two per batch fit, which is the reason why the
former holds of the code, and `SaidOnceAndInDiff` that no removed line begins with
`--`.

Only model-checked are the liveness properties `StreamEnds`, `RunEnds` and `ChecksEnd`:
fairness and ENABLED are beyond TLAPS.

## 5. Divergences without a run

Besides the three runs above, reading the code for the models showed the following;
the models contain the behaviour, and the properties named in section 3 are stated
so that they say what does hold.

- `events.py:120`: a stream ends only when it has itself sent a terminal event. A
  client that reconnects with that event's id gets heartbeats without end;
  `StreamEnds` speaks of a terminal event still ahead of the reader.
- `main.py:172`: the webhook task publishes a second `review_failed` after the
  orchestrator's, so a terminal event is not the last (`events.py:25`). Both say
  the same (`VerdictHolds`).
- `main.py:208`: the pending check is created whatever the publish mode; with
  `PUBLISH_MODE=local` nothing completes it after a successful review.
- `main.py:154`: when one check run cannot be created the rest of the plan is
  dropped (`main.py:125` has each request reviewed or skipped).
- `github_app.py:456`: check suites, check runs and buttons bring drafts to review
  (`github_app.py:405` leaves drafts out).
- `publisher.py:375`: a slow task of an old commit overwrites the summary comment of
  a newer one (`README.md:219`).
- `publisher.py:509`: two overlapping publications of one scope create two summary
  comments (`publisher.py:502`).
- `local_store.py:27`: two overlapping saves lose a review, or leave a mixture that reads
  as no reviews.
- `local_store.py:29`: the file is emptied before it is written, so a save that fails or dies
  half way (a full disk, half a surrogate pair that `ensure_ascii=False` keeps and UTF-8 cannot
  encode) loses all saved reviews, although nothing overlapped it (`local_store.py:66`
  only has the service survive it). `KeptUndisturbed` starts anew after it. Where it
  ends inside a character every later read raises, which `local_store.py:65` does not
  catch, until somebody repairs the file.
- `local_store.py:63`, `main.py:138`: a listing while the file is rewritten is empty, so with
  the file a commit that was saved before its delivery may be reviewed again;
  `NothingReviewedAgain` is about Postgres.
- `rag.py:206`: a section of the service whose words alone score ten more than those of a
  section of the repository's own policy goes before it (the comment there says
  "practically always").
- `prompt_builder.py:193`: a selected file without a patch is in no message when the
  patches before it use up the batch's budget exactly (`prompt_builder.py:214`);
  `BatchesShowSelection` says that no other file is left out.
- `publisher.py:502`, `github_app.py:273`: after ten pages of comments the summary is
  no longer found and another one is created.
- `github_app.py:187`: check runs are read without paging, so only the first 30 of a
  commit count as failures or as running.
- `main.py:143`: a review that was saved is skipped when GitHub delivers again, even if
  it was not published: its result is never shown. `SkipsOnlyReviewed` speaks of
  saved reviews.
- `llm.py:572`: a confidence that is not a number raises, although `llm.py:544` says a
  wrong form does not; the call counts as failed (`ReviewRun` has it as an answer of
  an unexpected shape).
- `complexity_metrics.py:57`: a function of a file whose earlier version cannot be
  parsed counts as new, with complexity 0 before.
- `review_graph.py:401`: when no batch was given a card, the result reports the cards of
  the whole request as applied (`README.md:223` has the comment show those actually
  applied). Findings can then cite a card no model was shown; `OfferedIsKnown` states
  the direction that holds, every card a batch was given is among the applied ones.
- `review_graph.py:359`: a chunk that both the request and the index hold is ranked twice
  and can take two of the eight places.
- `rag.py:337`: a sync that overlaps another one leaves that one's chunks in the
  table as well, until the next sync (`rag.py:332`).

## 6. Not modelled

- The evaluation scripts (`evaluation/`), the GitHub Action and the deployment:
  offline and sequential, or outside the service. What they cause, repeated requests
  and restarts, is in the environments of the modules.
- Configuration, secret masking, signatures and JWT, authorization, the endpoints that
  list or preview: pure functions of their input. The settings that change control are
  CONSTANTS.
- Text: splitting markdown into chunks and guessing their type, parsing Python, the
  wording and the layout of prompts and comments, the repairs of Korean text, the
  mock client. A text is the set of its words; that it is Korean is a property of
  a finding; a patch is a sequence of kinds of lines. The ids of invalid cards are
  counted, not listed.
- `LocalPolicyIndex`, which only reads files; `load_chunks` is one step, although it
  reads the folder's files one after the other.
- A listing of several pages is one step: comments that come or go between two pages
  are seen or not seen together.
- Time: timeouts are failures that may happen at any call, polling is fairness. In
  particular `create_review` with `wait=true` (`main.py:351`), which runs a review on
  the event loop and holds up every stream, is not visible.
- Memory: runs are never removed from the bus.

## 7. Plan

Done, in this order: bus and feed; run; webhook; publisher with its three modes;
stores, each by itself and as the factory chooses; prompt batches; findings; policy
index; the grounding of a review (routing, complexity, harness, ranking) and its
composition with the validation; the client's registration of its callback; proofs for
bus and feed, run, webhook, publisher, stores, index, grounding, findings and prompt
batches.

Left:

1. A composition of `WebhookReview` with `GitHubPublisher`'s calls, in place of its
   single comment step.
2. Listings that take several steps.
3. Two runs that share one model client.
