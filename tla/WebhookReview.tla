--------------------------- MODULE WebhookReview ---------------------------
(***************************************************************************)
(* GitHub deliveries turned into reviews: the background task of the       *)
(* webhook endpoint (backend/app/main.py), the plan it makes of a delivery *)
(* (services/github_app.py), the key that says a commit has been reviewed  *)
(* (core/schemas.py), and of the review itself the steps others can see:   *)
(* the saved result, the summary comment, the check run (review_graph.py,  *)
(* services/publisher.py).                                                 *)
(*                                                                         *)
(* Every delivery is handled by a task of its own in a thread pool, so     *)
(* tasks interleave between any two calls to GitHub or to the store.       *)
(* GitHub is external: authors push, deliveries are late, repeated and in  *)
(* any order, calls fail.  A commit is the number of the push that made it *)
(* the head of its pull request.                                           *)
(***************************************************************************)
EXTENDS Naturals, Sequences, FiniteSets

CONSTANTS
    PullRequests,
    Deliveries,
    ReviewMode,    \* GITHUB_WEBHOOK_REVIEW_MODE
    PublishMode,   \* PUBLISH_MODE: "local" or "github_app"
    StorageBackend,\* STORAGE_BACKEND: "local" or "postgres"
    MaxPushes,     \* bound: commits per pull request
    MaxSuite,      \* bound: pull requests of one check suite
    Kinds,         \* kinds of delivery GitHub sends in an instance
    Faults         \* what may go wrong in an instance

FaultKinds == {"plan", "create_check", "review", "publish", "fail_check", "restart"}

ASSUME WebhookAssumption ==
    /\ ReviewMode \in {"pull_request", "after_checks", "all"}
    /\ PublishMode \in {"local", "github_app"}
    /\ StorageBackend \in {"local", "postgres"}
    /\ MaxPushes \in Nat \ {0} /\ MaxSuite \in Nat \ {0}
    /\ Kinds \subseteq {"pull_request", "check_suite", "check_run", "requested_action"}
    /\ Faults \subseteq FaultKinds

VARIABLES
    \* GitHub
    head,      \* the commit a pull request is at
    draft,     \* whether it is a draft
    comment,   \* the commit the summary comment of each scope speaks of, 0: none
    checks,    \* our check runs, by id: pull request, commit, status, button
    message,   \* the payload of each delivery that has been sent
    \* the store
    store,     \* the reviews that have been saved
    \* the tasks
    phase,     \* where the task of a delivery stands
    fetch,     \* pull requests of the delivery still to be fetched
    pull,      \* the pull request being fetched
    todo,      \* plan.requests from the current one on
    known,     \* existing_idempotency_keys
    \* observer
    before     \* the keys that were saved when the delivery was sent

github == <<head, draft, comment, checks, message>>
task   == <<phase, fetch, pull, todo, known>>
vars   == <<github, store, task, before>>

Commits == 1 .. MaxPushes
Scopes == {"automatic", "deep"}
CheckIds == 1 .. Cardinality(Deliveries) * MaxSuite

Suites == UNION {[1 .. n -> PullRequests] : n \in 1 .. MaxSuite}
Messages == [kind : Kinds, prs : Suites, commit : 0 .. MaxPushes,
             draft : BOOLEAN, own : BOOLEAN, check : Nat]
\* What a review is made from.  diff is the commit the changed files were listed
\* at, scope that of the route the CI checks lead to, check 0 means none.
Requests == [pr : PullRequests, commit : Commits, deep : BOOLEAN, diff : Commits,
             scope : Scopes, check : Nat]
Keys == [pr : PullRequests, commit : Commits, deep : BOOLEAN]
Checks == [pr : PullRequests, commit : Commits,
           status : {"in_progress", "success", "failure"}, button : BOOLEAN]
Phases == {"unsent", "waiting", "fetching", "listing_files", "reading_store", "choosing",
           "reviewing", "publishing", "completing", "failing", "done", "lost"}
Active == {"waiting", "fetching", "listing_files", "reading_store", "choosing",
           "reviewing", "publishing", "completing", "failing"}

NoMessage == [kind |-> "none"]
NoPull == [pr |-> "none"]

TypeOK ==
    /\ head \in [PullRequests -> Commits]
    /\ draft \in [PullRequests -> BOOLEAN]
    /\ comment \in [PullRequests -> [Scopes -> 0 .. MaxPushes]]
    /\ checks \in Seq(Checks)
    /\ DOMAIN message = Deliveries /\ DOMAIN pull = Deliveries
    /\ \A d \in Deliveries :
        /\ phase[d] # "unsent" =>
              /\ message[d] \in Messages
              /\ message[d].kind = "pull_request" => message[d].commit \in Commits
        /\ phase[d] = "listing_files" => pull[d] \in Requests
    /\ fetch \in [Deliveries -> Seq(PullRequests)]
    /\ todo \in [Deliveries -> Seq(Requests)]
    /\ store \in SUBSET [key : Keys, diff : Commits, scope : Scopes, by : Deliveries]
    /\ phase \in [Deliveries -> Phases]
    /\ known \in [Deliveries -> SUBSET Keys]
    /\ before \in [Deliveries -> SUBSET Keys]

\* Drafts only where an instance has deliveries that look at them.
Init ==
    /\ head = [p \in PullRequests |-> 1]
    /\ draft \in [PullRequests -> {b \in BOOLEAN : b => "pull_request" \in Kinds}]
    /\ comment = [p \in PullRequests |-> [s \in Scopes |-> 0]]
    /\ checks = <<>>
    /\ message = [d \in Deliveries |-> NoMessage]
    /\ store = {}
    /\ phase = [d \in Deliveries |-> "unsent"]
    /\ fetch = [d \in Deliveries |-> <<>>]
    /\ pull = [d \in Deliveries |-> NoPull]
    /\ todo = [d \in Deliveries |-> <<>>]
    /\ known = [d \in Deliveries |-> {}]
    /\ before = [d \in Deliveries |-> {}]

\* An idempotency_key without the pull request.
KeyOfCommit(request) ==
    [pr |-> CHOOSE p \in PullRequests : TRUE, commit |-> request.commit, deep |-> request.deep]

\* idempotency_key: the pull request, its commit and the mode.
Key(request) == [pr |-> request.pr, commit |-> request.commit, deep |-> request.deep]

SavedKeys == {review.key : review \in store}
Current(d) == Head(todo[d])
Goto(d, p) == phase' = [phase EXCEPT ![d] = p]

-----------------------------------------------------------------------------
(* GitHub (external) *)

Push(p) ==
    /\ head[p] < MaxPushes
    /\ head' = [head EXCEPT ![p] = @ + 1]
    /\ UNCHANGED <<draft, comment, checks, message, store, task, before>>

MarkReady(p) ==
    /\ draft[p]
    /\ draft' = [draft EXCEPT ![p] = FALSE]
    /\ UNCHANGED <<head, comment, checks, message, store, task, before>>

Payload(kind, prs, commit, isDraft, own, check) ==
    [kind |-> kind, prs |-> prs, commit |-> commit, draft |-> isDraft,
     own |-> own, check |-> check]

\* opened, reopened, synchronize, ready_for_review: the payload carries the pull
\* request as it is now.
PullRequestPayloads ==
    {Payload("pull_request", <<p>>, head[p], draft[p], FALSE, 0) : p \in PullRequests}

\* A suite or run of somebody's CI has completed; our own App completes its check
\* runs, so GitHub tells us about them as well.
CheckPayloads ==
    {Payload(kind, prs, 0, FALSE, own, 0) :
        kind \in {"check_suite", "check_run"}, prs \in Suites,
        own \in {o \in BOOLEAN :
                    o => \E i \in DOMAIN checks : checks[i].status # "in_progress"}}

\* Somebody presses the deep review button of one of our check runs.
ButtonPayloads ==
    {Payload("requested_action", <<checks[i].pr>>, 0, FALSE, FALSE, i) :
        i \in {j \in DOMAIN checks : checks[j].button}}

Distinct(prs) == \A i, j \in DOMAIN prs : prs[i] = prs[j] => i = j

\* The endpoint accepts a signed delivery and hands it to a background task.
\* GitHub may also deliver a message again.
Send(d) ==
    /\ phase[d] = "unsent"
    /\ \E m \in PullRequestPayloads \cup CheckPayloads \cup ButtonPayloads
                \cup {message[e] : e \in {x \in Deliveries : phase[x] # "unsent"}} :
        /\ m.kind \in Kinds
        /\ Distinct(m.prs)
        /\ message' = [message EXCEPT ![d] = m]
    /\ Goto(d, "waiting")
    /\ before' = [before EXCEPT ![d] = SavedKeys]
    /\ UNCHANGED <<head, draft, comment, checks, store, fetch, pull, todo, known>>

-----------------------------------------------------------------------------
(* The plan *)

\* A plan that takes the completion of our own check for a trigger.
ReviewableSelfTriggered(m) ==
    \/ m.kind = "requested_action"
    \/ m.kind = "check_suite" /\ ReviewMode \in {"after_checks", "all"}
    \/ m.kind = "check_run" /\ ReviewMode = "all"
    \/ m.kind = "pull_request" /\ ReviewMode \in {"pull_request", "all"} /\ ~m.draft

\* Which deliveries lead to reviews (review_plan and the three plans under it).
Reviewable(m) ==
    \/ m.kind = "requested_action"
    \/ m.kind = "check_suite" /\ ReviewMode \in {"after_checks", "all"} /\ ~m.own
    \/ m.kind = "check_run" /\ ReviewMode = "all" /\ ~m.own
    \/ m.kind = "pull_request" /\ ReviewMode \in {"pull_request", "all"} /\ ~m.draft

Ignore(d) ==
    /\ phase[d] = "waiting"
    /\ ~Reviewable(message[d])
    /\ Goto(d, "done")
    /\ UNCHANGED <<github, store, fetch, pull, todo, known, before>>

StartPlan(d) ==
    /\ phase[d] = "waiting"
    /\ Reviewable(message[d])
    /\ fetch' = [fetch EXCEPT ![d] = message[d].prs]
    /\ Goto(d, "fetching")
    /\ UNCHANGED <<github, store, pull, todo, known, before>>

\* Taking the commit of every delivery from its payload.
FetchPullFromPayload(d) ==
    /\ phase[d] = "fetching"
    /\ fetch[d] # <<>>
    /\ pull' = [pull EXCEPT ![d] =
          [pr |-> Head(fetch[d]), commit |-> message[d].commit,
           deep |-> message[d].kind = "requested_action", diff |-> 1,
           scope |-> "automatic", check |-> message[d].check]]
    /\ Goto(d, "listing_files")
    /\ UNCHANGED <<github, store, fetch, todo, known, before>>

\* A pull_request delivery brings the pull request along; for the others it is
\* fetched now, whatever commit the check was about.
FetchPull(d) ==
    /\ phase[d] = "fetching"
    /\ fetch[d] # <<>>
    /\ LET p == Head(fetch[d])
           m == message[d]
           carried == m.kind = "pull_request"
       IN pull' = [pull EXCEPT ![d] =
             [pr |-> p,
              commit |-> IF carried THEN m.commit ELSE head[p],
              deep |-> m.kind = "requested_action",
              diff |-> 1,
              scope |-> "automatic",
              check |-> m.check]]
    /\ Goto(d, "listing_files")
    /\ UNCHANGED <<github, store, fetch, todo, known, before>>

\* A deep review is asked for, but failed CI checks come first (select_route).
ScopesOf(request) == IF request.deep THEN Scopes ELSE {"automatic"}

\* Listing the files first and reading the pull request afterwards.
ListFilesThenPull(d) ==
    /\ phase[d] = "listing_files"
    /\ \E scope \in ScopesOf(pull[d]) :
          todo' = [todo EXCEPT ![d] = Append(@, [pull[d] EXCEPT
                    !.diff = pull[d].commit, !.commit = head[pull[d].pr], !.scope = scope])]
    /\ fetch' = [fetch EXCEPT ![d] = Tail(@)]
    /\ pull' = [pull EXCEPT ![d] = NoPull]
    /\ Goto(d, "fetching")
    /\ UNCHANGED <<github, store, known, before>>

\* _build_review_request: the changed files are listed by another call, which
\* answers for the head of that moment; then the CI checks of the commit.
ListFiles(d) ==
    /\ phase[d] = "listing_files"
    /\ \E scope \in ScopesOf(pull[d]) :
          todo' = [todo EXCEPT ![d] =
                    Append(@, [pull[d] EXCEPT !.diff = head[pull[d].pr], !.scope = scope])]
    /\ fetch' = [fetch EXCEPT ![d] = Tail(@)]
    /\ pull' = [pull EXCEPT ![d] = NoPull]
    /\ Goto(d, "fetching")
    /\ UNCHANGED <<github, store, known, before>>

EndPlan(d) ==
    /\ phase[d] = "fetching"
    /\ fetch[d] = <<>>
    /\ Goto(d, "reading_store")
    /\ UNCHANGED <<github, store, fetch, pull, todo, known, before>>

\* An exception of any call of the plan or of the store ends the task.
PlanFails(d) ==
    /\ "plan" \in Faults
    /\ phase[d] \in {"fetching", "listing_files", "reading_store"}
    /\ todo' = [todo EXCEPT ![d] = <<>>]
    /\ Goto(d, "done")
    /\ UNCHANGED <<github, store, fetch, pull, known, before>>

-----------------------------------------------------------------------------
(* The reviews of the plan, one after the other *)

\* Reading the keys of those reviews only whose summary comment is still up.
ReadStorePublished(d) ==
    /\ phase[d] = "reading_store"
    /\ LET shown == {r \in store : comment[r.key.pr][r.scope] = r.key.commit}
       IN known' = [known EXCEPT ![d] = {review.key : review \in shown}]
    /\ Goto(d, "choosing")
    /\ UNCHANGED <<github, store, fetch, pull, todo, before>>

\* What list_reviews() may return: the table has every committed review; the file may
\* have lost some to saves that overlapped, failed or died, and reads as empty while
\* another task rewrites it (ReviewStores).
KeysListed == IF StorageBackend = "postgres" THEN {SavedKeys} ELSE SUBSET SavedKeys

\* The keys are read once, before the first review of the plan.
ReadStore(d) ==
    /\ phase[d] = "reading_store"
    /\ known' \in {[known EXCEPT ![d] = keys] : keys \in KeysListed}
    /\ Goto(d, "choosing")
    /\ UNCHANGED <<github, store, fetch, pull, todo, before>>

Skip(d) ==
    /\ phase[d] = "choosing"
    /\ todo[d] # <<>>
    /\ Key(Current(d)) \in known[d]
    /\ todo' = [todo EXCEPT ![d] = Tail(@)]
    /\ UNCHANGED <<github, store, phase, fetch, pull, known, before>>

\* The check runs after _create_pending_github_check: the one of the button is
\* reopened, or one is created.
WithPendingCheck(request) ==
    IF request.check # 0
    THEN [checks EXCEPT ![request.check].status = "in_progress"]
    ELSE Append(checks, [pr |-> request.pr, commit |-> request.commit,
                         status |-> "in_progress", button |-> FALSE])

\* The id is remembered in the request; then review_queued and run_review.
StartCheck(d) ==
    /\ phase[d] = "choosing"
    /\ todo[d] # <<>>
    /\ Key(Current(d)) \notin known[d]
    /\ checks' = WithPendingCheck(Current(d))
    /\ todo' = [todo EXCEPT ![d][1].check = IF @ = 0 THEN Len(checks) + 1 ELSE @]
    /\ Goto(d, "reviewing")
    /\ UNCHANGED <<head, draft, comment, message, store, fetch, pull, known, before>>

\* That call is outside the inner try: its exception, also when only the answer is
\* lost, ends the whole task.
StartCheckFails(d) ==
    /\ "create_check" \in Faults
    /\ phase[d] = "choosing"
    /\ todo[d] # <<>>
    /\ Key(Current(d)) \notin known[d]
    /\ checks' \in {checks, WithPendingCheck(Current(d))}
    /\ Goto(d, "done")
    /\ UNCHANGED <<head, draft, comment, message, store, fetch, pull, todo, known, before>>

WithReview(d) ==
    LET request == Current(d)
    IN store \cup {[key |-> Key(request), diff |-> request.diff, scope |-> request.scope,
                   by |-> d]}

\* persist_result: the record is there, and its status is "completed", before
\* anything has been published.
Save(d) ==
    /\ phase[d] = "reviewing"
    /\ store' = WithReview(d)
    /\ Goto(d, "publishing")
    /\ UNCHANGED <<github, fetch, pull, todo, known, before>>

\* LocalPublisher writes a file and does not touch GitHub.
PublishLocally(d) ==
    /\ phase[d] = "publishing"
    /\ PublishMode = "local"
    /\ todo' = [todo EXCEPT ![d] = Tail(@)]
    /\ Goto(d, "choosing")
    /\ UNCHANGED <<github, store, fetch, pull, known, before>>

WithComment(request) ==
    [comment EXCEPT ![request.pr][request.scope] = request.commit]

\* GitHubPublisher.publish, as far as the summary comment of the scope.
PublishComment(d) ==
    /\ phase[d] = "publishing"
    /\ PublishMode = "github_app"
    /\ comment' = WithComment(Current(d))
    /\ Goto(d, "completing")
    /\ UNCHANGED <<head, draft, checks, message, store, fetch, pull, todo, known, before>>

\* The check run succeeds; a review on the policy route leaves a button.
WithSuccess(request) ==
    {[checks EXCEPT ![request.check].status = "success", ![request.check].button = button] :
        button \in IF request.deep THEN {FALSE} ELSE BOOLEAN}

\* The last call of publish.
CompleteCheck(d) ==
    /\ phase[d] = "completing"
    /\ checks' \in WithSuccess(Current(d))
    /\ todo' = [todo EXCEPT ![d] = Tail(@)]
    /\ Goto(d, "choosing")
    /\ UNCHANGED <<head, draft, comment, message, store, fetch, pull, known, before>>

\* Failures that are reported as a success.
ReviewFailsUnnoticed(d) ==
    /\ \/ "review" \in Faults /\ phase[d] = "reviewing"
       \/ "publish" \in Faults /\ phase[d] \in {"publishing", "completing"}
    /\ Goto(d, "completing")
    /\ UNCHANGED <<github, store, fetch, pull, todo, known, before>>

\* An exception of any step of the review.  The step may have taken effect when only
\* the answer of the store or of GitHub is lost.
ReviewFails(d) ==
    /\ \/ /\ "review" \in Faults /\ phase[d] = "reviewing"
          /\ store' \in {store, WithReview(d)}
          /\ UNCHANGED <<comment, checks>>
       \/ /\ "publish" \in Faults /\ phase[d] = "publishing"
          /\ comment' \in {comment} \cup
                (IF PublishMode = "local" THEN {} ELSE {WithComment(Current(d))})
          /\ UNCHANGED <<store, checks>>
       \/ /\ "publish" \in Faults /\ phase[d] = "completing"
          /\ checks' \in {checks} \cup WithSuccess(Current(d))
          /\ UNCHANGED <<store, comment>>
    /\ Goto(d, "failing")
    /\ UNCHANGED <<head, draft, message, fetch, pull, todo, known, before>>

\* A failed review that is only logged.
FailCheckLogged(d) ==
    /\ phase[d] = "failing"
    /\ todo' = [todo EXCEPT ![d] = Tail(@)]
    /\ Goto(d, "choosing")
    /\ UNCHANGED <<github, store, fetch, pull, known, before>>

\* _complete_failed_github_check: its own failure is logged and swallowed.
FailCheck(d) ==
    /\ phase[d] = "failing"
    /\ \/ checks' = [checks EXCEPT ![Current(d).check].status = "failure"]
       \/ "fail_check" \in Faults /\ UNCHANGED checks
    /\ todo' = [todo EXCEPT ![d] = Tail(@)]
    /\ Goto(d, "choosing")
    /\ UNCHANGED <<head, draft, comment, message, store, fetch, pull, known, before>>

Finish(d) ==
    /\ phase[d] = "choosing"
    /\ todo[d] = <<>>
    /\ Goto(d, "done")
    /\ UNCHANGED <<github, store, fetch, pull, todo, known, before>>

\* Tasks live in the process only; GitHub does not send their deliveries again.
Restart ==
    /\ "restart" \in Faults
    /\ \E d \in Deliveries : phase[d] \in Active
    /\ phase' = [d \in Deliveries |-> IF phase[d] \in Active THEN "lost" ELSE phase[d]]
    /\ UNCHANGED <<github, store, fetch, pull, todo, known, before>>

-----------------------------------------------------------------------------
TaskStep(d) ==
    \/ Ignore(d) \/ StartPlan(d) \/ FetchPull(d) \/ ListFiles(d) \/ EndPlan(d)
    \/ PlanFails(d) \/ ReadStore(d) \/ Skip(d) \/ StartCheck(d) \/ StartCheckFails(d)
    \/ Save(d) \/ PublishLocally(d) \/ PublishComment(d) \/ CompleteCheck(d)
    \/ ReviewFails(d) \/ FailCheck(d) \/ Finish(d)

GitHubStep == \E p \in PullRequests : Push(p) \/ MarkReady(p)

Next ==
    \/ GitHubStep
    \/ \E d \in Deliveries : Send(d) \/ TaskStep(d)
    \/ Restart

Spec == Init /\ [][Next]_vars

\* The thread pool runs every task; calls to GitHub, to the model and to the store
\* have time limits.  Nothing is assumed of authors, deliveries and restarts.
FairSpec == Spec /\ \A d \in Deliveries : WF_vars(TaskStep(d))

-----------------------------------------------------------------------------
(* Properties *)

\* With the Postgres store, a commit whose review was saved before a delivery arrived is
\* not reviewed again on behalf of that delivery, in the same mode (main.py, the check
\* against existing_idempotency_keys; schemas.py, idempotency_key).  With the file
\* nothing of the kind holds: a listing may miss reviews.
NothingReviewedAgain ==
    StorageBackend = "postgres" => \A review \in store : review.key \notin before[review.by]

\* A request is only dropped when this very commit has a saved review of this very
\* mode: a new push is never taken for reviewed, nor an automatic review for a deep
\* one (schemas.py, idempotency_key).
SkipsOnlyReviewed ==
    [][\A d \in Deliveries :
          (phase[d] = "choosing" /\ phase'[d] = "choosing" /\ todo'[d] # todo[d]) =>
             \E review \in store :
                /\ review.key.pr = Current(d).pr
                /\ review.key.commit = Current(d).commit
                /\ review.key.deep = Current(d).deep]_vars

\* The files of a review are never older than the commit it is filed under, though
\* both are read by separate calls while authors push (_build_review_request).
DiffNotOlder == \A review \in store : review.diff >= review.key.commit

\* The completion of our own check run, which GitHub reports to us, never starts a
\* review (github_app.py, _check_payload_plan).
NoSelfTrigger == \A review \in store : ~message[review.by].own

\* A check run shows success only if a review of its pull request was saved and its
\* summary comment posted: of the check's own commit, or a deep one asked for at it.
SuccessMeansPublished ==
    \A i \in DOMAIN checks : checks[i].status = "success" =>
        \E review \in store :
            /\ review.key.pr = checks[i].pr
            /\ review.key.commit = checks[i].commit \/ review.key.deep
            /\ comment[checks[i].pr][review.scope] # 0

InProgress(i) == i \in DOMAIN checks /\ checks[i].status = "in_progress"

\* A check run that is in progress is eventually completed, as success or failure,
\* also when the review fails and when two tasks share it (main.py,
\* _complete_failed_github_check; publisher.py, _complete_check_run).
ChecksEnd == \A i \in CheckIds : InProgress(i) ~> ~InProgress(i)

\* schemas.py:276: the same pull request and commit give the same key, so that what
\* has been reviewed is not run again; github_app.py:426: reviews must not run
\* several times for one commit.
OneReviewPerKey ==
    \A first, second \in store : first.key = second.key => first = second
=============================================================================
