------------------------ MODULE WebhookReviewProofs ------------------------
(***************************************************************************)
(* Proofs about WebhookReview, for any number of pull requests, deliveries *)
(* and pushes, every mode and every combination of failures.               *)
(***************************************************************************)
EXTENDS WebhookReview, SequenceTheorems, TLAPS

-----------------------------------------------------------------------------
(* What the operators of the model return *)

LEMMA SuitesAreSequences ==
    /\ Suites \subseteq Seq(PullRequests)
    /\ \A p \in PullRequests : <<p>> \in Suites
<1>1. Suites \subseteq Seq(PullRequests)
  BY WebhookAssumption DEF Suites
<1>2. ASSUME NEW p \in PullRequests PROVE <<p>> \in Suites
  <2>1. <<p>> \in [1 .. 1 -> PullRequests]
    OBVIOUS
  <2>2. 1 \in 1 .. MaxSuite
    BY WebhookAssumption
  <2> QED BY <2>1, <2>2 DEF Suites
<1> QED BY <1>1, <1>2

LEMMA PendingCheckType ==
    ASSUME checks \in Seq(Checks), NEW request \in Requests
    PROVE  WithPendingCheck(request) \in Seq(Checks)
<1>1. CASE request.check # 0
  <2> DEFINE reopened == [checks EXCEPT ![request.check].status = "in_progress"]
  <2>1. ASSUME NEW i \in 1 .. Len(checks) PROVE reopened[i] \in Checks
    <3>1. checks[i] \in Checks
      OBVIOUS
    <3> QED BY <3>1 DEF Checks
  <2>2. DOMAIN reopened = 1 .. Len(checks)
    OBVIOUS
  <2>3. reopened \in [1 .. Len(checks) -> Checks]
    BY <2>1, <2>2
  <2>4. reopened \in Seq(Checks)
    BY <2>3
  <2> QED BY <1>1, <2>4 DEF WithPendingCheck
<1>2. CASE request.check = 0
  <2> DEFINE new == [pr |-> request.pr, commit |-> request.commit,
                     status |-> "in_progress", button |-> FALSE]
  <2>1. new \in Checks
    BY DEF Checks, Requests
  <2> QED BY <1>2, <2>1 DEF WithPendingCheck
<1> QED BY <1>1, <1>2

LEMMA SuccessType ==
    ASSUME checks \in Seq(Checks), NEW request \in Requests
    PROVE  WithSuccess(request) \subseteq Seq(Checks)
<1> SUFFICES ASSUME NEW button \in BOOLEAN
             PROVE  [checks EXCEPT ![request.check].status = "success",
                                   ![request.check].button = button] \in Seq(Checks)
  BY DEF WithSuccess
<1> DEFINE ended == [checks EXCEPT ![request.check].status = "success",
                                   ![request.check].button = button]
<1>1. ASSUME NEW i \in 1 .. Len(checks) PROVE ended[i] \in Checks
  <2>1. checks[i] \in Checks
    OBVIOUS
  <2> QED BY <2>1 DEF Checks
<1>2. DOMAIN ended = 1 .. Len(checks)
  OBVIOUS
<1>3. ended \in [1 .. Len(checks) -> Checks]
  BY <1>1, <1>2
<1> HIDE DEF ended
<1>4. ended \in Seq(Checks)
  BY <1>3
<1> QED BY <1>4 DEF ended

LEMMA FailureType ==
    ASSUME checks \in Seq(Checks), NEW n
    PROVE  [checks EXCEPT ![n].status = "failure"] \in Seq(Checks)
<1> DEFINE ended == [checks EXCEPT ![n].status = "failure"]
<1>1. ASSUME NEW i \in 1 .. Len(checks) PROVE ended[i] \in Checks
  <2>1. checks[i] \in Checks
    OBVIOUS
  <2> QED BY <2>1 DEF Checks
<1>2. DOMAIN ended = 1 .. Len(checks)
  OBVIOUS
<1>3. ended \in [1 .. Len(checks) -> Checks]
  BY <1>1, <1>2
<1> QED BY <1>3

LEMMA ReviewType ==
    ASSUME TypeOK, NEW d \in Deliveries, todo[d] # <<>>
    PROVE  /\ Current(d) \in Requests
           /\ Key(Current(d)) \in Keys
           /\ Tail(todo[d]) \in Seq(Requests)
           /\ WithReview(d) \in SUBSET [key : Keys, diff : Commits, scope : Scopes, by : Deliveries]
<1>1. todo[d] \in Seq(Requests)
  BY DEF TypeOK
<1>2. Current(d) \in Requests /\ Tail(todo[d]) \in Seq(Requests)
  BY <1>1 DEF Current
<1>3. Key(Current(d)) \in Keys
  BY <1>2 DEF Key, Keys, Requests
<1>4. [key |-> Key(Current(d)), diff |-> Current(d).diff, scope |-> Current(d).scope,
       by |-> d]
        \in [key : Keys, diff : Commits, scope : Scopes, by : Deliveries]
  BY <1>2, <1>3 DEF Requests
<1> QED BY <1>2, <1>3, <1>4 DEF WithReview, TypeOK

-----------------------------------------------------------------------------
(* Types.  A task at work on a review or on a pull request has it in hand. *)

HasCurrent ==
    \A d \in Deliveries :
        /\ phase[d] \in {"reviewing", "publishing", "completing", "failing"} => todo[d] # <<>>
        /\ phase[d] = "listing_files" => fetch[d] # <<>>

TypeInv == TypeOK /\ HasCurrent

LEMMA TypeInit == Init => TypeInv
<1> SUFFICES ASSUME Init PROVE TypeInv
  OBVIOUS
<1>1. MaxPushes \in Nat \ {0}
  BY WebhookAssumption
<1>2. TypeOK
  BY <1>1 DEF Init, TypeOK, Commits, Scopes, Phases
<1>3. HasCurrent
  BY DEF Init, HasCurrent
<1> QED BY <1>2, <1>3 DEF TypeInv

LEMMA GitHubType == TypeInv /\ GitHubStep => TypeInv'
<1> SUFFICES ASSUME TypeInv, NEW p \in PullRequests, Push(p) \/ MarkReady(p) PROVE TypeInv'
  BY DEF GitHubStep
<1> USE DEF TypeInv
<1>1. MaxPushes \in Nat \ {0}
  BY WebhookAssumption
<1>2. CASE Push(p)
  <2>1. head' \in [PullRequests -> Commits]
    BY <1>1, <1>2 DEF Push, TypeOK, Commits
  <2> QED BY <1>2, <2>1 DEF Push, TypeOK, HasCurrent, task
<1>3. CASE MarkReady(p)
  <2>1. draft' \in [PullRequests -> BOOLEAN]
    BY <1>3 DEF MarkReady, TypeOK
  <2> QED BY <1>3, <2>1 DEF MarkReady, TypeOK, HasCurrent, task
<1> QED BY <1>2, <1>3

\* A payload GitHub sends, new or again, is well formed.
LEMMA SentType ==
    ASSUME TypeOK, NEW m, m.kind \in Kinds,
           m \in PullRequestPayloads \cup CheckPayloads \cup ButtonPayloads
                \cup {message[e] : e \in {x \in Deliveries : phase[x] # "unsent"}}
    PROVE  m \in Messages /\ (m.kind = "pull_request" => m.commit \in Commits)
<1>0. MaxPushes \in Nat \ {0}
  BY WebhookAssumption
<1>1. CASE m \in PullRequestPayloads
  <2>1. PICK p \in PullRequests :
            m = Payload("pull_request", <<p>>, head[p], draft[p], FALSE, 0)
    BY <1>1 DEF PullRequestPayloads
  <2>2. <<p>> \in Suites /\ head[p] \in Commits /\ draft[p] \in BOOLEAN
    BY SuitesAreSequences DEF TypeOK
  <2> QED BY <1>0, <2>1, <2>2 DEF Payload, Messages, Commits
<1>2. CASE m \in CheckPayloads
  <2> DEFINE owns == {o \in BOOLEAN :
                        o => \E i \in DOMAIN checks : checks[i].status # "in_progress"}
  <2>0. owns \subseteq BOOLEAN
    OBVIOUS
  <2>1. PICK kind \in {"check_suite", "check_run"}, prs \in Suites, own \in owns :
            m = Payload(kind, prs, 0, FALSE, own, 0)
    BY <1>2 DEF CheckPayloads, Payload
  <2> HIDE DEF owns
  <2>2. own \in BOOLEAN
    BY <2>0
  <2> QED BY <1>0, <2>1, <2>2 DEF Payload, Messages
<1>3. CASE m \in ButtonPayloads
  <2>1. PICK i \in DOMAIN checks :
            m = Payload("requested_action", <<checks[i].pr>>, 0, FALSE, FALSE, i)
    BY <1>3 DEF ButtonPayloads
  <2>2. checks[i] \in Checks /\ i \in Nat
    BY DEF TypeOK
  <2>3. <<checks[i].pr>> \in Suites
    BY <2>2, SuitesAreSequences DEF Checks
  <2> QED BY <1>0, <2>1, <2>2, <2>3 DEF Payload, Messages
<1>4. CASE m \in {message[e] : e \in {x \in Deliveries : phase[x] # "unsent"}}
  BY <1>4 DEF TypeOK
<1> QED BY <1>1, <1>2, <1>3, <1>4

LEMMA SendType == ASSUME TypeInv, NEW d \in Deliveries, Send(d) PROVE TypeInv'
<1> USE DEF TypeInv
<1>1. PICK m \in PullRequestPayloads \cup CheckPayloads \cup ButtonPayloads
                \cup {message[e] : e \in {x \in Deliveries : phase[x] # "unsent"}} :
            m.kind \in Kinds /\ message' = [message EXCEPT ![d] = m]
  BY DEF Send
<1>2. m \in Messages /\ (m.kind = "pull_request" => m.commit \in Commits)
  BY <1>1, SentType
<1>3. /\ DOMAIN message' = Deliveries
      /\ \A e \in Deliveries :
            phase'[e] # "unsent" =>
              /\ message'[e] \in Messages
              /\ message'[e].kind = "pull_request" => message'[e].commit \in Commits
  BY <1>1, <1>2 DEF Send, Goto, TypeOK
<1>4. SavedKeys \subseteq Keys
  BY DEF TypeOK, SavedKeys
<1>5. phase' \in [Deliveries -> Phases] /\ before' \in [Deliveries -> SUBSET Keys]
  BY <1>4 DEF Send, Goto, TypeOK, Phases
<1>6. \A e \in Deliveries : phase'[e] = "listing_files" => pull'[e] \in Requests
  BY DEF Send, Goto, TypeOK
<1>7. TypeOK'
  BY <1>3, <1>5, <1>6 DEF Send, TypeOK
<1>8. HasCurrent'
  BY DEF Send, Goto, TypeOK, HasCurrent
<1> QED BY <1>7, <1>8

LEMMA PlanType ==
    ASSUME TypeInv, NEW d \in Deliveries,
           \/ Ignore(d) \/ StartPlan(d) \/ FetchPull(d) \/ ListFiles(d) \/ EndPlan(d)
           \/ PlanFails(d) \/ ReadStore(d)
    PROVE  TypeInv'
<1> USE DEF TypeInv, Goto
<1>1. CASE Ignore(d)
  BY <1>1 DEF Ignore, TypeOK, HasCurrent, Phases, github
<1>2. CASE StartPlan(d)
  <2>1. message[d].prs \in Seq(PullRequests)
    BY <1>2, SuitesAreSequences DEF StartPlan, TypeOK, Messages
  <2> QED BY <1>2, <2>1 DEF StartPlan, TypeOK, HasCurrent, Phases, github
<1>3. CASE FetchPull(d)
  <2> DEFINE carried == message[d].kind = "pull_request"
             fetched == [pr |-> Head(fetch[d]),
                         commit |-> IF carried THEN message[d].commit ELSE head[Head(fetch[d])],
                         deep |-> message[d].kind = "requested_action",
                         diff |-> 1,
                         scope |-> "automatic",
                         check |-> message[d].check]
  <2>1. Head(fetch[d]) \in PullRequests
    BY <1>3 DEF FetchPull, TypeOK
  <2>2. message[d] \in Messages /\ (carried => message[d].commit \in Commits)
    BY <1>3 DEF FetchPull, TypeOK
  <2>3. 1 \in Commits
    BY WebhookAssumption DEF Commits
  <2>4. /\ (IF carried THEN message[d].commit ELSE head[Head(fetch[d])]) \in Commits
        /\ message[d].check \in Nat
    BY <2>1, <2>2 DEF TypeOK, Messages
  <2>5. fetched \in Requests
    BY <2>1, <2>3, <2>4 DEF Requests, Scopes
  <2>6. pull' = [pull EXCEPT ![d] = fetched]
    BY <1>3 DEF FetchPull
  <2> HIDE DEF fetched
  <2>7. \A e \in Deliveries : phase'[e] = "listing_files" => pull'[e] \in Requests
    BY <1>3, <2>5, <2>6 DEF FetchPull, TypeOK
  <2> QED BY <1>3, <2>6, <2>7 DEF FetchPull, TypeOK, HasCurrent, Phases, github
<1>4. CASE ListFiles(d)
  <2>1. PICK scope \in ScopesOf(pull[d]) :
            todo' = [todo EXCEPT ![d] =
                      Append(@, [pull[d] EXCEPT !.diff = head[pull[d].pr], !.scope = scope])]
    BY <1>4 DEF ListFiles
  <2>2. scope \in Scopes
    BY DEF ScopesOf, Scopes
  <2>3. pull[d] \in Requests
    BY <1>4 DEF ListFiles, TypeOK
  <2>4. [pull[d] EXCEPT !.diff = head[pull[d].pr], !.scope = scope] \in Requests
    BY <2>2, <2>3 DEF Requests, TypeOK
  <2>5. todo' \in [Deliveries -> Seq(Requests)]
    BY <2>1, <2>4 DEF TypeOK
  <2>6. fetch' \in [Deliveries -> Seq(PullRequests)]
    <3>1. fetch[d] # <<>> /\ fetch[d] \in Seq(PullRequests)
      BY <1>4 DEF ListFiles, TypeOK, HasCurrent
    <3>2. Tail(fetch[d]) \in Seq(PullRequests)
      BY <3>1
    <3> QED BY <1>4, <3>2 DEF ListFiles, TypeOK
  <2>7. TypeOK'
    BY <1>4, <2>5, <2>6 DEF ListFiles, TypeOK, Phases, github
  <2>8. HasCurrent'
    BY <1>4, <2>1 DEF ListFiles, TypeOK, HasCurrent
  <2> QED BY <2>7, <2>8
<1>5. CASE EndPlan(d)
  BY <1>5 DEF EndPlan, TypeOK, HasCurrent, Phases, github
<1>6. CASE PlanFails(d)
  BY <1>6 DEF PlanFails, TypeOK, HasCurrent, Phases, github
<1>7. CASE ReadStore(d)
  <2>1. SavedKeys \subseteq Keys
    BY DEF TypeOK, SavedKeys
  <2>2. PICK keys \in SUBSET Keys : known' = [known EXCEPT ![d] = keys]
    BY <1>7, <2>1 DEF ReadStore, KeysListed
  <2> QED BY <1>7, <2>2 DEF ReadStore, TypeOK, HasCurrent, Phases, github
<1> QED BY <1>1, <1>2, <1>3, <1>4, <1>5, <1>6, <1>7

LEMMA StartType ==
    ASSUME TypeInv, NEW d \in Deliveries,
           Skip(d) \/ StartCheck(d) \/ StartCheckFails(d) \/ Finish(d)
    PROVE  TypeInv'
<1> USE DEF TypeInv, Goto
<1>1. CASE Skip(d)
  BY <1>1, ReviewType DEF Skip, TypeOK, HasCurrent, github
<1>2. CASE StartCheck(d)
  <2> DEFINE request == Current(d)
             id == IF request.check = 0 THEN Len(checks) + 1 ELSE request.check
             started == [todo[d] EXCEPT ![1].check = id]
  <2>1. /\ todo[d] # <<>> /\ todo[d] \in Seq(Requests)
        /\ request \in Requests /\ request = todo[d][1]
    BY <1>2, ReviewType DEF StartCheck, TypeOK, Current
  <2>2. checks' \in Seq(Checks)
    BY <1>2, <2>1, PendingCheckType DEF StartCheck, TypeOK
  <2>3. todo' = [todo EXCEPT ![d] = started]
    BY <1>2, <2>1 DEF StartCheck, TypeOK
  <2>4. id \in Nat
    BY <2>1 DEF Requests, TypeOK
  <2> HIDE DEF id
  <2>5. [request EXCEPT !.check = id] \in Requests
    BY <2>1, <2>4 DEF Requests
  <2>6. started = [todo[d] EXCEPT ![1] = [request EXCEPT !.check = id]]
    BY <2>1
  <2>7. started \in Seq(Requests) /\ started # <<>>
    BY <2>1, <2>5, <2>6
  <2> HIDE DEF started
  <2>10. todo' \in [Deliveries -> Seq(Requests)]
    BY <2>3, <2>7 DEF TypeOK
  <2>8. TypeOK'
    BY <1>2, <2>2, <2>10 DEF StartCheck, TypeOK, Phases
  <2>9. HasCurrent'
    BY <1>2, <2>3, <2>7 DEF StartCheck, TypeOK, HasCurrent
  <2> QED BY <2>8, <2>9
<1>3. CASE StartCheckFails(d)
  <2>1. checks' \in Seq(Checks)
    BY <1>3, ReviewType, PendingCheckType DEF StartCheckFails, TypeOK
  <2> QED BY <1>3, <2>1 DEF StartCheckFails, TypeOK, HasCurrent, Phases
<1>4. CASE Finish(d)
  BY <1>4 DEF Finish, TypeOK, HasCurrent, Phases, github
<1> QED BY <1>1, <1>2, <1>3, <1>4

LEMMA ReviewingType ==
    ASSUME TypeInv, NEW d \in Deliveries,
           \/ Save(d) \/ PublishLocally(d) \/ PublishComment(d) \/ CompleteCheck(d)
           \/ ReviewFails(d) \/ FailCheck(d)
    PROVE  TypeInv'
<1> USE DEF TypeInv, Goto
<1>1. /\ todo[d] # <<>> /\ todo[d] \in Seq(Requests) /\ Current(d) \in Requests
      /\ Tail(todo[d]) \in Seq(Requests)
      /\ WithReview(d) \in SUBSET [key : Keys, diff : Commits, scope : Scopes, by : Deliveries]
  <2>1. todo[d] # <<>>
    BY DEF Save, PublishLocally, PublishComment, CompleteCheck, ReviewFails, FailCheck,
           HasCurrent
  <2> QED BY <2>1, ReviewType DEF TypeOK
<1>2. WithComment(Current(d)) \in [PullRequests -> [Scopes -> 0 .. MaxPushes]]
  <2>1. Current(d).commit \in 0 .. MaxPushes
    BY <1>1, WebhookAssumption DEF Requests, Commits
  <2> QED BY <1>1, <2>1 DEF WithComment, Requests, TypeOK
<1>3. WithSuccess(Current(d)) \subseteq Seq(Checks)
  BY <1>1, SuccessType DEF TypeOK
<1>4. CASE Save(d)
  BY <1>1, <1>4 DEF Save, TypeOK, HasCurrent, Phases, github
<1>5. CASE PublishLocally(d)
  BY <1>1, <1>5 DEF PublishLocally, TypeOK, HasCurrent, Phases, github
<1>6. CASE PublishComment(d)
  BY <1>1, <1>2, <1>6 DEF PublishComment, TypeOK, HasCurrent, Phases
<1>7. CASE CompleteCheck(d)
  <2>1. checks' \in Seq(Checks)
    BY <1>3, <1>7 DEF CompleteCheck
  <2> QED BY <1>1, <1>7, <2>1 DEF CompleteCheck, TypeOK, HasCurrent, Phases
<1>8. CASE ReviewFails(d)
  <2>1. /\ checks' \in Seq(Checks)
        /\ comment' \in [PullRequests -> [Scopes -> 0 .. MaxPushes]]
        /\ store' \in SUBSET [key : Keys, diff : Commits, scope : Scopes, by : Deliveries]
    BY <1>1, <1>2, <1>3, <1>8 DEF ReviewFails, TypeOK
  <2>2. todo' = todo /\ phase' = [phase EXCEPT ![d] = "failing"]
        /\ UNCHANGED <<head, draft, message, fetch, pull, known, before>>
    BY <1>8 DEF ReviewFails
  <2>3. TypeOK'
    <3>1. phase' \in [Deliveries -> Phases]
      BY <2>2 DEF TypeOK, Phases
    <3>2. \A e \in Deliveries :
            /\ phase'[e] # "unsent" => phase[e] # "unsent" \/ e = d
            /\ phase'[e] = "listing_files" => phase[e] = "listing_files"
      BY <2>2 DEF TypeOK
    <3>3. phase[d] # "unsent"
      BY <1>8 DEF ReviewFails
    <3> QED BY <2>1, <2>2, <3>1, <3>2, <3>3 DEF TypeOK
  <2>4. HasCurrent'
    BY <1>1, <2>2 DEF TypeOK, HasCurrent
  <2> QED BY <2>3, <2>4
<1>9. CASE FailCheck(d)
  <2>1. checks' \in Seq(Checks)
    <3>1. [checks EXCEPT ![Current(d).check].status = "failure"] \in Seq(Checks)
      BY FailureType DEF TypeOK
    <3> QED BY <1>9, <3>1 DEF FailCheck, TypeOK
  <2> QED BY <1>1, <1>9, <2>1 DEF FailCheck, TypeOK, HasCurrent, Phases
<1> QED BY <1>4, <1>5, <1>6, <1>7, <1>8, <1>9

LEMMA RestartType == TypeInv /\ Restart => TypeInv'
BY DEF TypeInv, Restart, TypeOK, HasCurrent, Phases, Active, github

LEMMA TypeNext == TypeInv /\ [Next]_vars => TypeInv'
<1> SUFFICES ASSUME TypeInv, [Next]_vars PROVE TypeInv'
  OBVIOUS
<1>1. CASE GitHubStep
  BY <1>1, GitHubType
<1>2. ASSUME NEW d \in Deliveries, Send(d) PROVE TypeInv'
  BY <1>2, SendType
<1>3. ASSUME NEW d \in Deliveries, TaskStep(d) PROVE TypeInv'
  BY <1>3, PlanType, StartType, ReviewingType DEF TaskStep
<1>4. CASE Restart
  BY <1>4, RestartType
<1>5. CASE UNCHANGED vars
  BY <1>5 DEF vars, github, task, TypeInv, TypeOK, HasCurrent
<1> QED BY <1>1, <1>2, <1>3, <1>4, <1>5 DEF Next

\* Whatever is delivered, repeated, pushed or failing, what a task takes from a
\* payload, a fetched pull request and the check it opened fits together: a request
\* it works on is complete (main.py, _handle_github_webhook_background).
THEOREM TypeCorrect == Spec => []TypeOK
<1>1. Spec => []TypeInv
  BY TypeInit, TypeNext, PTL DEF Spec
<1>2. TypeInv => TypeOK
  BY DEF TypeInv
<1> QED BY <1>1, <1>2, PTL

-----------------------------------------------------------------------------
(* Nothing is reviewed again.  A task that has read the store knows every key    *)
(* that was saved when its delivery arrived, for the table only grows and a       *)
(* listing returns all of it; what it reviews is none of the keys it knows.      *)

HasRead == {"choosing", "reviewing", "publishing", "completing", "failing"}

TaskKnows ==
    \A d \in Deliveries :
        /\ before[d] \subseteq SavedKeys
        /\ StorageBackend = "postgres" /\ phase[d] \in HasRead => before[d] \subseteq known[d]
        /\ phase[d] = "reviewing" => Key(Current(d)) \notin known[d]

SavedByTasks == \A review \in store : phase[review.by] # "unsent"

KeysInv == TypeInv /\ TaskKnows /\ SavedByTasks /\ NothingReviewedAgain

LEMMA KeysInit == Init => KeysInv
<1> SUFFICES ASSUME Init PROVE KeysInv
  OBVIOUS
<1>1. store = {} /\ \A d \in Deliveries : phase[d] = "unsent" /\ before[d] = {}
  BY DEF Init
<1> QED BY <1>1, TypeInit DEF KeysInv, TaskKnows, SavedByTasks, NothingReviewedAgain, HasRead

\* A step that leaves the store and the two sets of keys alone, and moves no task to
\* a place where it has to know more.
LEMMA KeysKept ==
    ASSUME KeysInv, TypeInv', UNCHANGED <<store, known, before>>,
           \A d \in Deliveries :
              /\ phase[d] # "unsent" => phase'[d] # "unsent"
              /\ phase'[d] \in HasRead => phase[d] \in HasRead
              /\ phase'[d] = "reviewing" => Key(Current(d))' \notin known[d]
    PROVE  KeysInv'
<1>1. SavedKeys' = SavedKeys
  BY DEF SavedKeys
<1>2. TaskKnows'
  BY <1>1 DEF KeysInv, TaskKnows
<1>3. SavedByTasks' /\ NothingReviewedAgain'
  BY DEF KeysInv, TypeInv, TypeOK, SavedByTasks, NothingReviewedAgain
<1> QED BY <1>2, <1>3 DEF KeysInv

\* A step that saves the review a task is at, and nothing else of this.
LEMMA KeysSaved ==
    ASSUME KeysInv, TypeInv', NEW d \in Deliveries, phase[d] = "reviewing",
           store' \in {store, WithReview(d)}, UNCHANGED <<todo, known, before>>,
           NEW p \in {"publishing", "failing"}, phase' = [phase EXCEPT ![d] = p]
    PROVE  KeysInv'
<1>1. StorageBackend = "postgres" => Key(Current(d)) \notin before[d]
  BY DEF KeysInv, TaskKnows, HasRead
<1>2. \A review \in store' :
          review \in store \/ (review.by = d /\ review.key = Key(Current(d)))
  BY DEF WithReview
<1>3. SavedKeys \subseteq SavedKeys'
  BY DEF SavedKeys, WithReview
<1>4. NothingReviewedAgain'
  BY <1>1, <1>2 DEF KeysInv, NothingReviewedAgain
<1>5. SavedByTasks'
  BY <1>2 DEF KeysInv, TypeInv, TypeOK, SavedByTasks
<1>6. TaskKnows'
  BY <1>3 DEF KeysInv, TypeInv, TypeOK, TaskKnows, HasRead, Current
<1> QED BY <1>4, <1>5, <1>6 DEF KeysInv

LEMMA KeysNext == KeysInv /\ [Next]_vars => KeysInv'
<1> SUFFICES ASSUME KeysInv, [Next]_vars PROVE KeysInv'
  OBVIOUS
<1> USE DEF Goto
<1>0. TypeInv /\ TypeInv'
  BY TypeNext DEF KeysInv
<1> DEFINE Quiet ==
      /\ UNCHANGED <<store, known, before>>
      /\ \A d \in Deliveries :
            /\ phase[d] # "unsent" => phase'[d] # "unsent"
            /\ phase'[d] \in HasRead => phase[d] \in HasRead
            /\ phase'[d] = "reviewing" => Key(Current(d))' \notin known[d]
<1>q. Quiet => KeysInv'
  BY <1>0, KeysKept
<1>1. CASE GitHubStep
  <2>1. UNCHANGED <<store, task, before>>
    BY <1>1 DEF GitHubStep, Push, MarkReady
  <2>2. Quiet
    BY <2>1 DEF task, KeysInv, TaskKnows, Key, Current
  <2> QED BY <2>2, <1>q
<1>2. ASSUME NEW d \in Deliveries, Send(d) PROVE KeysInv'
  <2>1. SavedKeys' = SavedKeys
    BY <1>2 DEF Send, SavedKeys
  <2>2. \A e \in Deliveries : e # d => phase'[e] = phase[e] /\ before'[e] = before[e]
    BY <1>0, <1>2 DEF Send, TypeInv, TypeOK
  <2>3. phase[d] = "unsent" /\ phase'[d] = "waiting" /\ before'[d] = SavedKeys
    BY <1>0, <1>2 DEF Send, TypeInv, TypeOK
  <2>4. UNCHANGED <<store, known, todo>>
    BY <1>2 DEF Send
  <2>5. TaskKnows'
    BY <2>1, <2>2, <2>3, <2>4 DEF KeysInv, TaskKnows, HasRead, Current
  <2>6. SavedByTasks' /\ NothingReviewedAgain'
    BY <1>0, <2>2, <2>3, <2>4
    DEF KeysInv, SavedByTasks, NothingReviewedAgain, TypeInv, TypeOK
  <2> QED BY <1>0, <2>5, <2>6 DEF KeysInv
<1>3. ASSUME NEW d \in Deliveries, TaskStep(d) PROVE KeysInv'
  <2>1. CASE \/ Ignore(d) \/ StartPlan(d) \/ FetchPull(d) \/ ListFiles(d) \/ EndPlan(d)
             \/ PlanFails(d)
    <3>1. /\ UNCHANGED <<store, known, before>>
          /\ \A e \in Deliveries : e # d => phase'[e] = phase[e] /\ todo'[e] = todo[e]
          /\ phase[d] # "unsent" /\ phase'[d] \notin HasRead \cup {"unsent"}
      BY <1>0, <2>1 DEF Ignore, StartPlan, FetchPull, ListFiles, EndPlan, PlanFails,
                        github, TypeInv, TypeOK, HasRead
    <3>2. Quiet
      BY <3>1 DEF KeysInv, TaskKnows, Key, Current, HasRead
    <3> QED BY <3>2, <1>q
  <2>2. CASE ReadStore(d)
    <3>1. /\ UNCHANGED <<store, before, todo>>
          /\ \A e \in Deliveries : e # d => phase'[e] = phase[e] /\ known'[e] = known[e]
          /\ phase[d] = "reading_store" /\ phase'[d] = "choosing"
          /\ StorageBackend = "postgres" => known'[d] = SavedKeys
      BY <1>0, <2>2 DEF ReadStore, KeysListed, TypeInv, TypeOK
    <3>2. SavedKeys' = SavedKeys
      BY <3>1 DEF SavedKeys
    <3>3. TaskKnows'
      BY <3>1, <3>2 DEF KeysInv, TaskKnows, HasRead, Current
    <3>4. SavedByTasks' /\ NothingReviewedAgain'
      BY <1>0, <3>1 DEF KeysInv, SavedByTasks, NothingReviewedAgain, TypeInv, TypeOK
    <3> QED BY <1>0, <3>3, <3>4 DEF KeysInv
  <2>3. CASE StartCheck(d)
    <3>1. /\ UNCHANGED <<store, known, before>>
          /\ \A e \in Deliveries : e # d => phase'[e] = phase[e] /\ todo'[e] = todo[e]
          /\ phase[d] = "choosing" /\ phase'[d] = "reviewing"
      BY <1>0, <2>3 DEF StartCheck, TypeInv, TypeOK
    <3>2. /\ todo[d] \in Seq(Requests) /\ todo[d] # <<>>
          /\ Key(Current(d)) \notin known[d]
      BY <1>0, <2>3 DEF StartCheck, TypeInv, TypeOK
    <3>3. todo[d][1] \in Requests /\ Current(d) = todo[d][1]
      BY <3>2 DEF Current
    <3>4. PICK id : todo' = [todo EXCEPT ![d] =
                                [todo[d] EXCEPT ![1] = [todo[d][1] EXCEPT !.check = id]]]
      BY <2>3 DEF StartCheck
    <3>5. todo'[d] = [todo[d] EXCEPT ![1] = [todo[d][1] EXCEPT !.check = id]]
      BY <1>0, <3>4 DEF TypeInv, TypeOK
    <3>6. Current(d)' = [todo[d][1] EXCEPT !.check = id]
      <4>1. todo'[d] \in Seq(Requests) /\ 1 \in DOMAIN todo[d]
        BY <1>0, <3>2 DEF TypeInv, TypeOK
      <4>2. Current(d)' = todo'[d][1]
        BY DEF Current
      <4> QED BY <3>5, <4>1, <4>2
    <3>7. Key(Current(d))' = Key(Current(d))
      BY <3>3, <3>6 DEF Key, Requests
    <3>8. Quiet
      BY <3>1, <3>2, <3>7 DEF KeysInv, TaskKnows, Key, Current, HasRead
    <3> QED BY <3>8, <1>q
  <2>4. CASE Save(d)
    BY <1>0, <2>4, KeysSaved DEF Save
  <2>5. CASE ReviewFails(d)
    <3>1. CASE phase[d] = "reviewing"
      BY <1>0, <2>5, <3>1, KeysSaved DEF ReviewFails
    <3>2. CASE phase[d] # "reviewing"
      <4>1. /\ UNCHANGED <<store, known, before, todo>>
            /\ phase[d] \in HasRead /\ phase' = [phase EXCEPT ![d] = "failing"]
        BY <2>5, <3>2 DEF ReviewFails, HasRead
      <4>2. Quiet
        BY <1>0, <4>1 DEF KeysInv, TaskKnows, Key, Current, HasRead, TypeInv, TypeOK
      <4> QED BY <4>2, <1>q
    <3> QED BY <3>1, <3>2
  <2>6. CASE \/ Skip(d) \/ StartCheckFails(d) \/ PublishLocally(d) \/ PublishComment(d)
             \/ CompleteCheck(d) \/ FailCheck(d) \/ Finish(d)
    <3>1. /\ UNCHANGED <<store, known, before>>
          /\ \A e \in Deliveries : e # d => phase'[e] = phase[e] /\ todo'[e] = todo[e]
          /\ phase[d] \in HasRead /\ phase'[d] \notin {"unsent", "reviewing"}
      BY <1>0, <2>6 DEF Skip, StartCheckFails, PublishLocally, PublishComment, CompleteCheck,
                        FailCheck, Finish, github, TypeInv, TypeOK, HasRead
    <3>2. Quiet
      BY <3>1 DEF KeysInv, TaskKnows, Key, Current, HasRead
    <3> QED BY <3>2, <1>q
  <2> QED BY <1>3, <2>1, <2>2, <2>3, <2>4, <2>5, <2>6 DEF TaskStep
<1>4. CASE Restart
  <2>1. /\ UNCHANGED <<store, known, before, todo>>
        /\ \A e \in Deliveries : phase'[e] = phase[e] \/ phase'[e] = "lost"
    BY <1>4 DEF Restart, github
  <2>2. Quiet
    BY <2>1 DEF KeysInv, TaskKnows, Key, Current, HasRead
  <2> QED BY <2>2, <1>q
<1>5. CASE UNCHANGED vars
  <2>1. UNCHANGED <<store, known, before, todo, phase>>
    BY <1>5 DEF vars, task
  <2>2. Quiet
    BY <2>1 DEF KeysInv, TaskKnows, Key, Current
  <2> QED BY <2>2, <1>q
<1> QED BY <1>1, <1>2, <1>3, <1>4, <1>5 DEF Next

\* With the Postgres store, however deliveries are repeated, reordered, lost and
\* interleaved, and whichever calls fail: a task saves no review whose key was saved
\* before its delivery arrived (main.py, the check against existing_idempotency_keys).
THEOREM ReviewedOnce == Spec => []NothingReviewedAgain
<1>1. Spec => []KeysInv
  BY KeysInit, KeysNext, PTL DEF Spec
<1>2. KeysInv => NothingReviewedAgain
  BY DEF KeysInv
<1> QED BY <1>1, <1>2, PTL

-----------------------------------------------------------------------------
(* Our own check runs start nothing. *)

Working == Active \ {"waiting"}

\* Only checks are somebody's own, and a task whose check is our own stays idle.
OwnIsIdle ==
    \A d \in Deliveries :
        /\ phase[d] # "unsent" /\ message[d].own =>
              message[d].kind \in {"check_suite", "check_run"}
        /\ phase[d] \in Working => ~message[d].own

OwnInv == TypeInv /\ SavedByTasks /\ OwnIsIdle /\ NoSelfTrigger

\* What GitHub sends, new or again, is our own only if it is a check.
LEMMA SentOwn ==
    ASSUME OwnIsIdle, NEW m, m.own,
           m \in PullRequestPayloads \cup CheckPayloads \cup ButtonPayloads
                \cup {message[e] : e \in {x \in Deliveries : phase[x] # "unsent"}}
    PROVE  m.kind \in {"check_suite", "check_run"}
<1>1. m \notin PullRequestPayloads
  BY DEF PullRequestPayloads, Payload
<1>2. m \notin ButtonPayloads
  BY DEF ButtonPayloads, Payload
<1>3. CASE m \in CheckPayloads
  BY <1>3 DEF CheckPayloads, Payload
<1>4. CASE m \in {message[e] : e \in {x \in Deliveries : phase[x] # "unsent"}}
  BY <1>4 DEF OwnIsIdle
<1> QED BY <1>1, <1>2, <1>3, <1>4

LEMMA OwnNext == OwnInv /\ [Next]_vars => OwnInv'
<1> SUFFICES ASSUME OwnInv, [Next]_vars PROVE OwnInv'
  OBVIOUS
<1> USE DEF Goto
<1>0. TypeInv /\ TypeInv'
  BY TypeNext DEF OwnInv
<1> DEFINE Quiet ==
      /\ UNCHANGED message
      /\ \A d \in Deliveries :
            /\ phase[d] # "unsent" <=> phase'[d] # "unsent"
            /\ phase'[d] \in Working => phase[d] \in Working
      /\ \A review \in store' :
            review \in store \/ (review.by \in Deliveries /\ phase[review.by] \in Working)
<1>q. ASSUME Quiet PROVE OwnInv'
  <2>1. OwnIsIdle'
    BY <1>q DEF OwnInv, OwnIsIdle
  <2>2. SavedByTasks' /\ NoSelfTrigger'
    BY <1>0, <1>q DEF OwnInv, OwnIsIdle, SavedByTasks, NoSelfTrigger, TypeInv, TypeOK,
                      Working, Active
  <2> QED BY <1>0, <2>1, <2>2 DEF OwnInv
<1>1. CASE GitHubStep
  <2>1. UNCHANGED <<store, task, message>>
    BY <1>1 DEF GitHubStep, Push, MarkReady
  <2> QED BY <2>1, <1>q DEF task
<1>2. ASSUME NEW d \in Deliveries, Send(d) PROVE OwnInv'
  <2>1. PICK m \in PullRequestPayloads \cup CheckPayloads \cup ButtonPayloads
                \cup {message[e] : e \in {x \in Deliveries : phase[x] # "unsent"}} :
            message' = [message EXCEPT ![d] = m]
    BY <1>2 DEF Send
  <2>2. m.own => m.kind \in {"check_suite", "check_run"}
    BY SentOwn DEF OwnInv
  <2>3. /\ phase[d] = "unsent" /\ phase'[d] = "waiting" /\ message'[d] = m
        /\ \A e \in Deliveries : e # d => phase'[e] = phase[e] /\ message'[e] = message[e]
        /\ UNCHANGED store
    BY <1>0, <1>2, <2>1 DEF Send, TypeInv, TypeOK
  <2>4. OwnIsIdle'
    BY <2>2, <2>3 DEF OwnInv, OwnIsIdle, Working
  <2>5. SavedByTasks' /\ NoSelfTrigger'
    BY <1>0, <2>3 DEF OwnInv, SavedByTasks, NoSelfTrigger, TypeInv, TypeOK
  <2> QED BY <1>0, <2>4, <2>5 DEF OwnInv
<1>3. ASSUME NEW d \in Deliveries, TaskStep(d) PROVE OwnInv'
  <2>1. CASE StartPlan(d)
    <3>1. ~message[d].own
      BY <1>0, <2>1 DEF StartPlan, Reviewable, OwnInv, OwnIsIdle
    <3>2. /\ phase[d] = "waiting" /\ phase'[d] = "fetching" /\ UNCHANGED <<message, store>>
          /\ \A e \in Deliveries : e # d => phase'[e] = phase[e]
      BY <1>0, <2>1 DEF StartPlan, github, TypeInv, TypeOK
    <3>3. OwnIsIdle'
      BY <3>1, <3>2 DEF OwnInv, OwnIsIdle, Working
    <3>4. SavedByTasks' /\ NoSelfTrigger'
      BY <1>0, <3>2 DEF OwnInv, SavedByTasks, NoSelfTrigger, TypeInv, TypeOK
    <3> QED BY <1>0, <3>3, <3>4 DEF OwnInv
  <2>2. CASE Save(d)
    BY <1>0, <1>q, <2>2 DEF Save, WithReview, github, TypeInv, TypeOK, Working, Active
  <2>3. CASE ReviewFails(d)
    <3>1. /\ UNCHANGED message /\ phase' = [phase EXCEPT ![d] = "failing"]
          /\ phase[d] \in Working
          /\ store' \in {store, WithReview(d)}
      BY <2>3 DEF ReviewFails, Working, Active
    <3>2. \A review \in store' : review \in store \/ review.by = d
      BY <3>1 DEF WithReview
    <3> QED BY <1>0, <1>q, <3>1, <3>2 DEF TypeInv, TypeOK, Working, Active
  <2>4. CASE \/ Ignore(d) \/ FetchPull(d) \/ ListFiles(d) \/ EndPlan(d) \/ PlanFails(d)
             \/ ReadStore(d) \/ Skip(d) \/ StartCheck(d) \/ StartCheckFails(d)
             \/ PublishLocally(d) \/ PublishComment(d) \/ CompleteCheck(d)
             \/ FailCheck(d) \/ Finish(d)
    <3>1. /\ UNCHANGED <<message, store>>
          /\ \A e \in Deliveries : e # d => phase'[e] = phase[e]
          /\ phase[d] \in Active /\ phase'[d] # "unsent"
          /\ phase'[d] \in Working => phase[d] \in Working
      BY <1>0, <2>4 DEF Ignore, FetchPull, ListFiles, EndPlan, PlanFails, ReadStore, Skip,
            StartCheck, StartCheckFails, PublishLocally, PublishComment, CompleteCheck,
            FailCheck, Finish, github, TypeInv, TypeOK, Working, Active
    <3> QED BY <3>1, <1>q DEF Active
  <2> QED BY <1>3, <2>1, <2>2, <2>3, <2>4 DEF TaskStep
<1>4. CASE Restart
  BY <1>4, <1>q DEF Restart, github, Working, Active
<1>5. CASE UNCHANGED vars
  BY <1>5, <1>q DEF vars, github, task
<1> QED BY <1>1, <1>2, <1>3, <1>4, <1>5 DEF Next

\* The completion of our own check run, which GitHub reports like anybody's, leads to
\* no saved review, also when it is delivered again (github_app.py,
\* _check_payload_plan).
THEOREM OwnChecksStartNothing == Spec => []NoSelfTrigger
<1>1. Init => OwnInv
  <2> SUFFICES ASSUME Init PROVE OwnInv
    OBVIOUS
  <2>1. store = {} /\ \A d \in Deliveries : phase[d] = "unsent"
    BY DEF Init
  <2> QED BY <2>1, TypeInit DEF OwnInv, SavedByTasks, OwnIsIdle, NoSelfTrigger, Working, Active
<1>2. Spec => []OwnInv
  BY <1>1, OwnNext, PTL DEF Spec
<1>3. OwnInv => NoSelfTrigger
  BY DEF OwnInv
<1> QED BY <1>2, <1>3, PTL

-----------------------------------------------------------------------------
(* The files of a review are never older than its commit: heads only move on,    *)
(* the commit a task knows of has been a head, and the files are listed later.   *)

WasHead ==
    \A d \in Deliveries :
        /\ phase[d] # "unsent" /\ message[d].kind = "pull_request" =>
              \A i \in DOMAIN message[d].prs : message[d].commit <= head[message[d].prs[i]]
        /\ phase[d] \in {"fetching", "listing_files"} /\ message[d].kind = "pull_request" =>
              \A i \in DOMAIN fetch[d] : message[d].commit <= head[fetch[d][i]]
        /\ phase[d] = "listing_files" => pull[d].commit <= head[pull[d].pr]

NotOlder(requests) == \A i \in DOMAIN requests : requests[i].commit <= requests[i].diff

ListedLater == \A d \in Deliveries : NotOlder(todo[d])

DiffInv == TypeInv /\ WasHead /\ ListedLater /\ DiffNotOlder

LEMMA TailNotOlder ==
    ASSUME NEW requests \in Seq(Requests), requests # <<>>, NotOlder(requests)
    PROVE  NotOlder(Tail(requests)) /\ Head(requests).commit <= Head(requests).diff
BY DEF NotOlder

\* What GitHub sends, new or again, speaks of a commit that has been a head.
LEMMA SentWasHead ==
    ASSUME TypeInv, WasHead, NEW m, m.kind = "pull_request",
           m \in PullRequestPayloads \cup CheckPayloads \cup ButtonPayloads
                \cup {message[e] : e \in {x \in Deliveries : phase[x] # "unsent"}}
    PROVE  \A i \in DOMAIN m.prs : m.commit <= head[m.prs[i]]
<1>1. CASE m \in PullRequestPayloads
  <2>1. PICK p \in PullRequests : m.prs = <<p>> /\ m.commit = head[p]
    BY <1>1 DEF PullRequestPayloads, Payload
  <2>2. head[p] \in Nat
    BY WebhookAssumption DEF TypeInv, TypeOK, Commits
  <2> QED BY <2>1, <2>2
<1>2. m \notin ButtonPayloads /\ m \notin CheckPayloads
  BY DEF ButtonPayloads, CheckPayloads, Payload
<1>3. CASE m \in {message[e] : e \in {x \in Deliveries : phase[x] # "unsent"}}
  BY <1>3 DEF WasHead
<1> QED BY <1>1, <1>2, <1>3

LEMMA DiffNext == DiffInv /\ [Next]_vars => DiffInv'
<1> SUFFICES ASSUME DiffInv, [Next]_vars PROVE DiffInv'
  OBVIOUS
<1> USE DEF Goto
<1>0. TypeInv /\ TypeInv' /\ MaxPushes \in Nat
  BY TypeNext, WebhookAssumption DEF DiffInv
\* Most steps leave the heads, the payloads and the pull requests in hand alone,
\* move no task back into its plan, and drop at most the first request.
<1> DEFINE Quiet ==
      /\ UNCHANGED <<head, message, fetch, pull>>
      /\ \A d \in Deliveries :
            /\ phase'[d] \in {"fetching", "listing_files"} => phase'[d] = phase[d]
            /\ phase'[d] # "unsent" => phase[d] # "unsent"
            /\ todo'[d] \in {todo[d], <<>>} \/ (todo[d] # <<>> /\ todo'[d] = Tail(todo[d]))
      /\ \A review \in store' : review \in store \/ review.diff >= review.key.commit
<1>q. ASSUME Quiet PROVE DiffInv'
  <2>1. WasHead'
    BY <1>q DEF DiffInv, WasHead
  <2>2. ASSUME NEW d \in Deliveries PROVE NotOlder(todo'[d])
    <3>1. todo[d] \in Seq(Requests) /\ NotOlder(todo[d])
      BY <1>0 DEF DiffInv, ListedLater, TypeInv, TypeOK
    <3>2. NotOlder(<<>>)
      BY DEF NotOlder
    <3> QED BY <1>q, <3>1, <3>2, TailNotOlder
  <2>3. DiffNotOlder'
    BY <1>q DEF DiffInv, DiffNotOlder
  <2> QED BY <1>0, <2>1, <2>2, <2>3 DEF DiffInv, ListedLater, NotOlder
<1>1. CASE GitHubStep
  <2>1. UNCHANGED <<store, task, message>>
    BY <1>1 DEF GitHubStep, Push, MarkReady
  <2>2. \A p \in PullRequests : head[p] \in Nat /\ head'[p] \in Nat /\ head[p] <= head'[p]
    <3>1. /\ head \in [PullRequests -> Nat]
          /\ head' = head \/ \E q \in PullRequests : head' = [head EXCEPT ![q] = @ + 1]
      BY <1>0, <1>1 DEF GitHubStep, Push, MarkReady, TypeInv, TypeOK, Commits
    <3> QED BY <3>1
  <2>3. WasHead'
    <3> SUFFICES ASSUME NEW d \in Deliveries
        PROVE  /\ phase[d] # "unsent" /\ message[d].kind = "pull_request" =>
                    \A i \in DOMAIN message[d].prs :
                        message[d].commit <= head'[message[d].prs[i]]
               /\ phase[d] \in {"fetching", "listing_files"}
                    /\ message[d].kind = "pull_request" =>
                        \A i \in DOMAIN fetch[d] : message[d].commit <= head'[fetch[d][i]]
               /\ phase[d] = "listing_files" => pull[d].commit <= head'[pull[d].pr]
      BY <2>1 DEF WasHead, task
    <3>1. fetch[d] \in Seq(PullRequests)
      BY <1>0 DEF TypeInv, TypeOK
    <3>2. phase[d] # "unsent" =>
            /\ message[d].prs \in Seq(PullRequests)
            /\ message[d].kind = "pull_request" => message[d].commit \in Nat
      BY <1>0, SuitesAreSequences DEF TypeInv, TypeOK, Messages, Commits
    <3>3. phase[d] = "listing_files" => pull[d].pr \in PullRequests /\ pull[d].commit \in Nat
      BY <1>0 DEF TypeInv, TypeOK, Requests, Commits
    <3>4. phase[d] # "unsent" /\ message[d].kind = "pull_request" =>
             \A i \in DOMAIN message[d].prs : message[d].commit <= head'[message[d].prs[i]]
      BY <2>2, <3>2 DEF DiffInv, WasHead
    <3>5. phase[d] \in {"fetching", "listing_files"} /\ message[d].kind = "pull_request" =>
             \A i \in DOMAIN fetch[d] : message[d].commit <= head'[fetch[d][i]]
      BY <2>2, <3>1, <3>2 DEF DiffInv, WasHead
    <3>6. phase[d] = "listing_files" => pull[d].commit <= head'[pull[d].pr]
      BY <2>2, <3>3 DEF DiffInv, WasHead
    <3> QED BY <3>4, <3>5, <3>6
  <2>4. ListedLater' /\ DiffNotOlder'
    BY <2>1 DEF DiffInv, ListedLater, DiffNotOlder, task
  <2> QED BY <1>0, <2>3, <2>4 DEF DiffInv
<1>2. ASSUME NEW d \in Deliveries, Send(d) PROVE DiffInv'
  <2>1. PICK m \in PullRequestPayloads \cup CheckPayloads \cup ButtonPayloads
                \cup {message[e] : e \in {x \in Deliveries : phase[x] # "unsent"}} :
            message' = [message EXCEPT ![d] = m]
    BY <1>2 DEF Send
  <2>2. m.kind = "pull_request" => \A i \in DOMAIN m.prs : m.commit <= head[m.prs[i]]
    BY <1>0, SentWasHead DEF DiffInv
  <2>3. /\ phase[d] = "unsent" /\ phase'[d] = "waiting" /\ message'[d] = m
        /\ \A e \in Deliveries : e # d => phase'[e] = phase[e] /\ message'[e] = message[e]
        /\ UNCHANGED <<store, head, fetch, pull, todo>>
    BY <1>0, <1>2, <2>1 DEF Send, TypeInv, TypeOK
  <2>4. WasHead'
    BY <2>2, <2>3 DEF DiffInv, WasHead
  <2>5. ListedLater' /\ DiffNotOlder'
    BY <2>3 DEF DiffInv, ListedLater, DiffNotOlder
  <2> QED BY <1>0, <2>4, <2>5 DEF DiffInv
<1>3. ASSUME NEW d \in Deliveries, TaskStep(d) PROVE DiffInv'
  <2>1. CASE StartPlan(d)
    <3>1. /\ phase[d] = "waiting" /\ phase'[d] = "fetching" /\ fetch'[d] = message[d].prs
          /\ \A e \in Deliveries : e # d => phase'[e] = phase[e] /\ fetch'[e] = fetch[e]
          /\ UNCHANGED <<store, head, message, pull, todo>>
      BY <1>0, <2>1 DEF StartPlan, github, TypeInv, TypeOK
    <3>2. WasHead'
      BY <3>1 DEF DiffInv, WasHead
    <3>3. ListedLater' /\ DiffNotOlder'
      BY <3>1 DEF DiffInv, ListedLater, DiffNotOlder
    <3> QED BY <1>0, <3>2, <3>3 DEF DiffInv
  <2>2. CASE FetchPull(d)
    <3>1. /\ phase[d] = "fetching" /\ phase'[d] = "listing_files"
          /\ pull'[d].pr = Head(fetch[d])
          /\ pull'[d].commit = IF message[d].kind = "pull_request" THEN message[d].commit
                                                                  ELSE head[Head(fetch[d])]
          /\ \A e \in Deliveries : e # d => phase'[e] = phase[e] /\ pull'[e] = pull[e]
          /\ UNCHANGED <<store, head, message, fetch, todo>>
      BY <1>0, <2>2 DEF FetchPull, github, TypeInv, TypeOK
    <3>2. fetch[d] \in Seq(PullRequests) /\ fetch[d] # <<>>
      BY <1>0, <2>2 DEF FetchPull, TypeInv, TypeOK
    <3>3. Head(fetch[d]) = fetch[d][1] /\ 1 \in DOMAIN fetch[d] /\ head[fetch[d][1]] \in Nat
      BY <1>0, <3>2 DEF TypeInv, TypeOK, Commits
    <3>4. pull'[d].commit <= head[pull'[d].pr]
      BY <3>1, <3>3 DEF DiffInv, WasHead
    <3>5. WasHead'
      BY <3>1, <3>4 DEF DiffInv, WasHead
    <3>6. ListedLater' /\ DiffNotOlder'
      BY <3>1 DEF DiffInv, ListedLater, DiffNotOlder
    <3> QED BY <1>0, <3>5, <3>6 DEF DiffInv
  <2>3. CASE ListFiles(d)
    <3>1. PICK scope \in ScopesOf(pull[d]) :
            todo' = [todo EXCEPT ![d] =
                      Append(@, [pull[d] EXCEPT !.diff = head[pull[d].pr], !.scope = scope])]
      BY <2>3 DEF ListFiles
    <3> DEFINE request == [pull[d] EXCEPT !.diff = head[pull[d].pr], !.scope = scope]
    <3>2. /\ phase[d] = "listing_files" /\ phase'[d] = "fetching"
          /\ fetch'[d] = Tail(fetch[d]) /\ todo'[d] = Append(todo[d], request)
          /\ \A e \in Deliveries : e # d =>
                phase'[e] = phase[e] /\ pull'[e] = pull[e] /\ fetch'[e] = fetch[e]
                  /\ todo'[e] = todo[e]
          /\ UNCHANGED <<store, head, message>>
      BY <1>0, <2>3, <3>1 DEF ListFiles, github, TypeInv, TypeOK
    <3>3. fetch[d] \in Seq(PullRequests) /\ fetch[d] # <<>> /\ todo[d] \in Seq(Requests)
          /\ pull[d] \in Requests
      BY <1>0, <2>3 DEF ListFiles, TypeInv, TypeOK, HasCurrent
    <3>4. request.commit <= request.diff
      BY <3>2, <3>3 DEF DiffInv, WasHead, Requests
    <3> HIDE DEF request
    <3>5. NotOlder(todo[d])
      BY DEF DiffInv, ListedLater
    <3>6. NotOlder(todo'[d])
      BY <3>2, <3>3, <3>4, <3>5 DEF NotOlder
    <3>7. ListedLater'
      BY <3>2, <3>6 DEF DiffInv, ListedLater, NotOlder
    <3>8. \A i \in DOMAIN Tail(fetch[d]) :
              i + 1 \in DOMAIN fetch[d] /\ Tail(fetch[d])[i] = fetch[d][i + 1]
      BY <3>3
    <3>9. WasHead'
      <4>1. message[d].kind = "pull_request" =>
               \A i \in DOMAIN fetch'[d] : message[d].commit <= head[fetch'[d][i]]
        BY <3>2, <3>8 DEF DiffInv, WasHead
      <4> SUFFICES ASSUME NEW e \in Deliveries
          PROVE  /\ phase'[e] # "unsent" /\ message[e].kind = "pull_request" =>
                      \A i \in DOMAIN message[e].prs :
                          message[e].commit <= head[message[e].prs[i]]
                 /\ phase'[e] \in {"fetching", "listing_files"}
                      /\ message[e].kind = "pull_request" =>
                          \A i \in DOMAIN fetch'[e] : message[e].commit <= head[fetch'[e][i]]
                 /\ phase'[e] = "listing_files" => pull'[e].commit <= head[pull'[e].pr]
        BY <3>2 DEF WasHead
      <4>2. CASE e # d
        BY <3>2, <4>2 DEF DiffInv, WasHead
      <4>3. CASE e = d
        BY <3>2, <4>1, <4>3 DEF DiffInv, WasHead
      <4> QED BY <4>2, <4>3
    <3>10. DiffNotOlder'
      BY <3>2 DEF DiffInv, DiffNotOlder
    <3> QED BY <1>0, <3>7, <3>9, <3>10 DEF DiffInv
  <2>4. CASE StartCheck(d)
    <3>1. /\ \A e \in Deliveries : e # d => phase'[e] = phase[e] /\ todo'[e] = todo[e]
          /\ phase[d] = "choosing" /\ phase'[d] = "reviewing"
          /\ UNCHANGED <<head, message, store, fetch, pull>>
      BY <1>0, <2>4 DEF StartCheck, TypeInv, TypeOK
    <3>2. todo[d] \in Seq(Requests) /\ todo[d] # <<>> /\ NotOlder(todo[d])
      BY <1>0, <2>4 DEF StartCheck, TypeInv, TypeOK, DiffInv, ListedLater
    <3>3. todo[d][1] \in Requests
      BY <3>2
    <3>4. PICK id : todo' = [todo EXCEPT ![d] =
                                [todo[d] EXCEPT ![1] = [todo[d][1] EXCEPT !.check = id]]]
      BY <2>4 DEF StartCheck
    <3>5. todo'[d] = [todo[d] EXCEPT ![1] = [todo[d][1] EXCEPT !.check = id]]
      BY <1>0, <3>4 DEF TypeInv, TypeOK
    <3>6. /\ DOMAIN todo'[d] = DOMAIN todo[d]
          /\ \A i \in DOMAIN todo[d] : /\ todo'[d][i].commit = todo[d][i].commit
                                       /\ todo'[d][i].diff = todo[d][i].diff
      BY <3>2, <3>3, <3>5 DEF Requests
    <3>7. NotOlder(todo'[d])
      BY <3>2, <3>6 DEF NotOlder
    <3>8. ListedLater'
      BY <3>1, <3>7 DEF DiffInv, ListedLater, NotOlder
    <3>9. WasHead' /\ DiffNotOlder'
      BY <1>0, <3>1 DEF DiffInv, WasHead, DiffNotOlder
    <3> QED BY <1>0, <3>8, <3>9 DEF DiffInv
  <2>5. CASE Save(d) \/ ReviewFails(d)
    <3>1. /\ store' \in {store, WithReview(d)}
          /\ UNCHANGED <<head, message, fetch, pull, todo>>
          /\ phase[d] \in {"reviewing", "publishing", "completing"}
          /\ phase' \in {[phase EXCEPT ![d] = p] : p \in {"publishing", "failing"}}
      BY <2>5 DEF Save, ReviewFails, github
    <3>2. todo[d] \in Seq(Requests) /\ todo[d] # <<>> /\ NotOlder(todo[d])
      BY <1>0, <3>1 DEF TypeInv, TypeOK, HasCurrent, DiffInv, ListedLater
    <3>3. Current(d) \in Requests /\ Current(d).commit <= Current(d).diff
      BY <1>0, <3>2, TailNotOlder, ReviewType DEF Current, TypeInv
    <3>4. \A review \in store' : review \in store \/ review.diff >= review.key.commit
      BY <3>1, <3>3 DEF WithReview, Key, Requests, Commits
    <3>5. \A e \in Deliveries :
            /\ phase'[e] \in {"fetching", "listing_files"} => phase'[e] = phase[e]
            /\ phase'[e] # "unsent" => phase[e] # "unsent"
      BY <1>0, <3>1 DEF TypeInv, TypeOK
    <3> QED BY <1>q, <3>1, <3>4, <3>5
  <2>6. CASE \/ Ignore(d) \/ EndPlan(d) \/ PlanFails(d) \/ ReadStore(d) \/ Skip(d)
             \/ StartCheckFails(d) \/ PublishLocally(d) \/ PublishComment(d)
             \/ CompleteCheck(d) \/ FailCheck(d) \/ Finish(d)
    <3>1. /\ UNCHANGED <<head, message, fetch, pull, store>>
          /\ phase[d] # "unsent" /\ phase'[d] \notin {"fetching", "listing_files"}
          /\ \A e \in Deliveries : e # d => phase'[e] = phase[e] /\ todo'[e] = todo[e]
      BY <1>0, <2>6 DEF Ignore, EndPlan, PlanFails, ReadStore, Skip, StartCheckFails,
            PublishLocally, PublishComment, CompleteCheck, FailCheck, Finish, github,
            TypeInv, TypeOK
    <3>2. todo'[d] \in {todo[d], <<>>} \/ (todo[d] # <<>> /\ todo'[d] = Tail(todo[d]))
      BY <1>0, <2>6 DEF Ignore, EndPlan, PlanFails, ReadStore, Skip, StartCheckFails,
            PublishLocally, PublishComment, CompleteCheck, FailCheck, Finish,
            TypeInv, TypeOK, HasCurrent
    <3> QED BY <1>q, <3>1, <3>2
  <2> QED BY <1>3, <2>1, <2>2, <2>3, <2>4, <2>5, <2>6 DEF TaskStep
<1>4. CASE Restart
  BY <1>4, <1>q DEF Restart, github, Active
<1>5. CASE UNCHANGED vars
  BY <1>5, <1>q DEF vars, github, task
<1> QED BY <1>1, <1>2, <1>3, <1>4, <1>5 DEF Next

\* Though the pull request and its files come from separate calls while authors push,
\* no saved review is filed under a commit newer than the files it looked at
\* (github_app.py, _build_review_request).
THEOREM FilesNotOlderThanCommit == Spec => []DiffNotOlder
<1>1. Init => DiffInv
  <2> SUFFICES ASSUME Init PROVE DiffInv
    OBVIOUS
  <2>1. store = {} /\ \A d \in Deliveries : phase[d] = "unsent" /\ todo[d] = <<>>
    BY DEF Init
  <2> QED BY <2>1, TypeInit DEF DiffInv, WasHead, ListedLater, NotOlder, DiffNotOlder
<1>2. Spec => []DiffInv
  BY <1>1, DiffNext, PTL DEF Spec
<1>3. DiffInv => DiffNotOlder
  BY DEF DiffInv
<1> QED BY <1>2, <1>3, PTL

-----------------------------------------------------------------------------
(* Only what has been reviewed is skipped.  What a task knows has been saved. *)

KnownIsSaved == \A d \in Deliveries : known[d] \subseteq SavedKeys

SkipInv == TypeInv /\ KnownIsSaved

LEMMA StoreGrows == TypeInv /\ [Next]_vars => store \subseteq store'
<1> SUFFICES ASSUME TypeInv, [Next]_vars PROVE store \subseteq store'
  OBVIOUS
<1>1. CASE GitHubStep \/ Restart \/ UNCHANGED vars
  BY <1>1 DEF GitHubStep, Push, MarkReady, Restart, vars
<1>2. ASSUME NEW d \in Deliveries, Send(d) PROVE store \subseteq store'
  BY <1>2 DEF Send
<1>3. ASSUME NEW d \in Deliveries, TaskStep(d) PROVE store \subseteq store'
  BY <1>3 DEF TaskStep, Ignore, StartPlan, FetchPull, ListFiles, EndPlan, PlanFails,
      ReadStore, Skip, StartCheck, StartCheckFails, Save, PublishLocally, PublishComment,
      CompleteCheck, ReviewFails, FailCheck, Finish, WithReview
<1> QED BY <1>1, <1>2, <1>3 DEF Next

\* Reading the store is what a task learns keys by.
LEMMA KnownFromStore ==
    TypeInv /\ [Next]_vars =>
        \A d \in Deliveries : known'[d] = known[d] \/ known'[d] \subseteq SavedKeys
<1> SUFFICES ASSUME TypeInv, [Next]_vars, NEW e \in Deliveries
             PROVE  known'[e] = known[e] \/ known'[e] \subseteq SavedKeys
  OBVIOUS
<1>1. CASE GitHubStep \/ Restart \/ UNCHANGED vars
  BY <1>1 DEF GitHubStep, Push, MarkReady, Restart, vars, task
<1>2. ASSUME NEW d \in Deliveries, Send(d) PROVE known'[e] = known[e]
  BY <1>2 DEF Send
<1>3. ASSUME NEW d \in Deliveries, ReadStore(d)
      PROVE  known'[e] = known[e] \/ known'[e] \subseteq SavedKeys
  BY <1>3 DEF ReadStore, KeysListed, TypeInv, TypeOK
<1>4. ASSUME NEW d \in Deliveries, TaskStep(d), ~ReadStore(d) PROVE known'[e] = known[e]
  BY <1>4 DEF TaskStep, Ignore, StartPlan, FetchPull, ListFiles, EndPlan, PlanFails,
      Skip, StartCheck, StartCheckFails, Save, PublishLocally, PublishComment,
      CompleteCheck, ReviewFails, FailCheck, Finish
<1> QED BY <1>1, <1>2, <1>3, <1>4 DEF Next

\* The list of a task that is choosing, and goes on choosing, only changes by a skip.
LEMMA ChoosingSkips ==
    ASSUME TypeInv, [Next]_vars, NEW d \in Deliveries,
           phase[d] = "choosing", phase'[d] = "choosing", todo'[d] # todo[d]
    PROVE  Key(Current(d)) \in known[d]
<1>1. CASE GitHubStep \/ Restart \/ UNCHANGED vars
  BY <1>1 DEF GitHubStep, Push, MarkReady, Restart, vars, task
<1>2. ASSUME NEW e \in Deliveries, Send(e) PROVE FALSE
  BY <1>2 DEF Send
<1>3. ASSUME NEW e \in Deliveries, TaskStep(e), e # d PROVE FALSE
  <2>1. todo'[d] = todo[d]
    BY <1>3 DEF TaskStep, Ignore, StartPlan, FetchPull, ListFiles, EndPlan, PlanFails,
        ReadStore, Skip, StartCheck, StartCheckFails, Save, PublishLocally, PublishComment,
        CompleteCheck, ReviewFails, FailCheck, Finish, TypeInv, TypeOK
  <2> QED BY <2>1
<1>4. ASSUME TaskStep(d), ~Skip(d) PROVE FALSE
  BY <1>4 DEF TaskStep, Ignore, StartPlan, FetchPull, ListFiles, EndPlan, PlanFails,
      ReadStore, StartCheck, StartCheckFails, Save, PublishLocally, PublishComment,
      CompleteCheck, ReviewFails, FailCheck, Finish, TypeInv, TypeOK, Goto
<1>5. Skip(d) => Key(Current(d)) \in known[d]
  BY DEF Skip
<1> QED BY <1>1, <1>2, <1>3, <1>4, <1>5 DEF Next

LEMMA SkipNext == SkipInv /\ [Next]_vars => SkipInv'
<1> SUFFICES ASSUME SkipInv, [Next]_vars PROVE SkipInv'
  OBVIOUS
<1>1. SavedKeys \subseteq SavedKeys'
  BY StoreGrows DEF SkipInv, SavedKeys
<1>2. KnownIsSaved'
  BY <1>1, KnownFromStore DEF SkipInv, KnownIsSaved
<1> QED BY <1>2, TypeNext DEF SkipInv

\* However deliveries overlap, fail and arrive again, a request is only dropped when
\* its own pull request, commit and mode have a saved review (main.py, the loop of
\* _handle_github_webhook_background; schemas.py, idempotency_key).
THEOREM SkippedWasReviewed == Spec => SkipsOnlyReviewed
<1> DEFINE Step ==
      \A d \in Deliveries :
          (phase[d] = "choosing" /\ phase'[d] = "choosing" /\ todo'[d] # todo[d]) =>
             \E review \in store :
                /\ review.key.pr = Current(d).pr
                /\ review.key.commit = Current(d).commit
                /\ review.key.deep = Current(d).deep
<1>1. Init => SkipInv
  <2>1. Init => KnownIsSaved
    BY DEF Init, KnownIsSaved
  <2> QED BY <2>1, TypeInit DEF SkipInv
<1>2. SkipInv /\ [Next]_vars => Step
  <2> SUFFICES ASSUME SkipInv, [Next]_vars, NEW d \in Deliveries,
                      phase[d] = "choosing", phase'[d] = "choosing", todo'[d] # todo[d]
               PROVE  \E review \in store :
                         /\ review.key.pr = Current(d).pr
                         /\ review.key.commit = Current(d).commit
                         /\ review.key.deep = Current(d).deep
    OBVIOUS
  <2>1. Key(Current(d)) \in SavedKeys
    BY ChoosingSkips DEF SkipInv, KnownIsSaved
  <2>2. PICK review \in store : review.key = Key(Current(d))
    BY <2>1 DEF SavedKeys
  <2> QED BY <2>2 DEF Key
<1>3. Spec => []SkipInv /\ [][Next]_vars
  BY <1>1, SkipNext, PTL DEF Spec
<1>4. SkipInv /\ [Next]_vars => [Step]_vars
  BY <1>2
<1> HIDE DEF Step
<1>5. []SkipInv /\ [][Next]_vars => [][Step]_vars
  BY <1>4, PTL
<1>6. Spec => [][Step]_vars
  BY <1>3, <1>5
<1> QED BY <1>6 DEF SkipsOnlyReviewed, Step

-----------------------------------------------------------------------------
(* Success means that something has been published.  The id of a check run stands *)
(* for a check of the request's own pull request wherever it is handed on: in the  *)
(* payload of a button, in the pull request being fetched, in the plan.            *)

FitsCheck(request, list) ==
    request.check # 0 =>
        /\ request.check \in DOMAIN list
        /\ list[request.check].pr = request.pr
        /\ request.deep \/ list[request.check].commit = request.commit

ButtonFits(d) ==
    phase[d] # "unsent" /\ message[d].check # 0 =>
        /\ message[d].kind = "requested_action"
        /\ message[d].check \in DOMAIN checks
        /\ \A k \in DOMAIN message[d].prs : message[d].prs[k] = checks[message[d].check].pr
        /\ \A k \in DOMAIN fetch[d] : fetch[d][k] = checks[message[d].check].pr

RequestsFit(d) ==
    /\ \A k \in DOMAIN todo[d] : FitsCheck(todo[d][k], checks)
    /\ phase[d] = "listing_files" => FitsCheck(pull[d], checks)

\* A task that publishes has saved its review, one that completes the check has posted.
HasResult(d) ==
    /\ phase[d] \in {"publishing", "completing"} =>
        \E review \in store :
            review.key = Key(Current(d)) /\ review.scope = Current(d).scope
    /\ phase[d] = "completing" => comment[Current(d).pr][Current(d).scope] # 0

NothingFetched(d) == phase[d] \in {"unsent", "waiting"} => fetch[d] = <<>>

TaskSound(d) == ButtonFits(d) /\ RequestsFit(d) /\ HasResult(d) /\ NothingFetched(d)

PublishInv ==
    /\ TypeInv
    /\ \A d \in Deliveries : TaskSound(d)
    /\ SuccessMeansPublished

\* What no step does to the check runs: remove one, or make it that of another commit.
Extends(list) ==
    \A i \in DOMAIN checks :
        /\ i \in DOMAIN list
        /\ list[i].pr = checks[i].pr /\ list[i].commit = checks[i].commit

\* Only the check run with this id may have become a success.
SuccessOnlyOf(list, id) ==
    \A i \in DOMAIN list :
        list[i].status = "success" =>
            i = id \/ (i \in DOMAIN checks /\ checks[i].status = "success")

LEMMA PendingExtends ==
    ASSUME checks \in Seq(Checks), NEW request
    PROVE  Extends(WithPendingCheck(request)) /\ SuccessOnlyOf(WithPendingCheck(request), 0)
<1>1. CASE request.check # 0
  <2> DEFINE reopened == [checks EXCEPT ![request.check].status = "in_progress"]
  <2>1. DOMAIN reopened = DOMAIN checks
    OBVIOUS
  <2>2. ASSUME NEW i \in DOMAIN checks
        PROVE  /\ reopened[i].pr = checks[i].pr /\ reopened[i].commit = checks[i].commit
               /\ reopened[i].status \in {checks[i].status, "in_progress"}
    <3>1. checks[i] \in Checks
      OBVIOUS
    <3> QED BY <3>1 DEF Checks
  <2> HIDE DEF reopened
  <2>3. Extends(reopened) /\ SuccessOnlyOf(reopened, 0)
    BY <2>1, <2>2 DEF Extends, SuccessOnlyOf
  <2> QED BY <1>1, <2>3 DEF WithPendingCheck, reopened
<1>2. CASE request.check = 0
  <2> DEFINE new == [pr |-> request.pr, commit |-> request.commit,
                     status |-> "in_progress", button |-> FALSE]
             longer == Append(checks, new)
  <2>1. /\ DOMAIN longer = 1 .. Len(checks) + 1 /\ DOMAIN checks = 1 .. Len(checks)
        /\ \A i \in 1 .. Len(checks) : longer[i] = checks[i]
        /\ longer[Len(checks) + 1] = new
    OBVIOUS
  <2>2. new.status # "success" /\ Len(checks) \in Nat
    OBVIOUS
  <2> HIDE DEF longer, new
  <2>3. Extends(longer)
    BY <2>1, <2>2 DEF Extends
  <2>4. SuccessOnlyOf(longer, 0)
    BY <2>1, <2>2 DEF SuccessOnlyOf
  <2> QED BY <1>2, <2>3, <2>4 DEF WithPendingCheck, longer, new
<1> QED BY <1>1, <1>2

LEMMA SuccessExtends ==
    ASSUME checks \in Seq(Checks), NEW request, NEW list \in WithSuccess(request)
    PROVE  Extends(list) /\ SuccessOnlyOf(list, request.check)
<1>1. PICK button : list = [checks EXCEPT ![request.check].status = "success",
                                          ![request.check].button = button]
  BY DEF WithSuccess
<1>2. DOMAIN list = DOMAIN checks
  BY <1>1
<1>3. ASSUME NEW i \in DOMAIN checks
      PROVE  /\ list[i].pr = checks[i].pr /\ list[i].commit = checks[i].commit
             /\ i # request.check => list[i] = checks[i]
  <2>1. checks[i] \in Checks
    OBVIOUS
  <2> QED BY <1>1, <2>1 DEF Checks
<1> QED BY <1>2, <1>3 DEF Extends, SuccessOnlyOf

LEMMA FailureExtends ==
    ASSUME checks \in Seq(Checks), NEW n
    PROVE  /\ Extends([checks EXCEPT ![n].status = "failure"])
           /\ SuccessOnlyOf([checks EXCEPT ![n].status = "failure"], 0)
<1> DEFINE ended == [checks EXCEPT ![n].status = "failure"]
<1>1. DOMAIN ended = DOMAIN checks
  OBVIOUS
<1>2. ASSUME NEW i \in DOMAIN checks
      PROVE  /\ ended[i].pr = checks[i].pr /\ ended[i].commit = checks[i].commit
             /\ ended[i].status \in {checks[i].status, "failure"}
  <2>1. checks[i] \in Checks
    OBVIOUS
  <2> QED BY <2>1 DEF Checks
<1> HIDE DEF ended
<1>3. Extends(ended) /\ SuccessOnlyOf(ended, 0)
  BY <1>1, <1>2 DEF Extends, SuccessOnlyOf
<1> QED BY <1>3 DEF ended

LEMMA SameExtends ==
    ASSUME checks \in Seq(Checks)
    PROVE  Extends(checks) /\ SuccessOnlyOf(checks, 0)
BY DEF Extends, SuccessOnlyOf

LEMMA CommentStays ==
    ASSUME TypeInv, NEW d \in Deliveries, todo[d] # <<>>
    PROVE  /\ WithComment(Current(d))[Current(d).pr][Current(d).scope] # 0
           /\ \A p \in PullRequests, s \in Scopes :
                 comment[p][s] # 0 => WithComment(Current(d))[p][s] # 0
<1>1. Current(d) \in Requests /\ comment \in [PullRequests -> [Scopes -> 0 .. MaxPushes]]
  BY ReviewType DEF TypeInv, TypeOK
<1>2. Current(d).commit # 0 /\ Current(d).pr \in PullRequests /\ Current(d).scope \in Scopes
  BY <1>1 DEF Requests, Commits
<1> QED BY <1>1, <1>2 DEF WithComment

\* A check run becomes a success by a task that completes it.
ChecksGrow ==
    /\ Extends(checks')
    /\ \A i \in DOMAIN checks' : checks'[i].status = "success" =>
          \/ i \in DOMAIN checks /\ checks[i].status = "success"
          \/ \E d \in Deliveries : phase[d] = "completing" /\ i = Current(d).check

LEMMA ChecksStep == TypeInv /\ [Next]_vars => ChecksGrow
<1> SUFFICES ASSUME TypeInv, [Next]_vars PROVE ChecksGrow
  OBVIOUS
<1>1. checks \in Seq(Checks)
  BY DEF TypeInv, TypeOK
<1>2. CASE checks' = checks
  BY <1>1, <1>2 DEF ChecksGrow, Extends
<1>3. ASSUME NEW d \in Deliveries, checks' = WithPendingCheck(Current(d)) PROVE ChecksGrow
  <2>1. Extends(checks') /\ SuccessOnlyOf(checks', 0)
    BY <1>1, <1>3, PendingExtends
  <2>2. 0 \notin DOMAIN checks'
    BY <1>1, <1>3, TypeNext DEF TypeInv, TypeOK
  <2> QED BY <2>1, <2>2 DEF ChecksGrow, SuccessOnlyOf
<1>4. ASSUME NEW d \in Deliveries, phase[d] = "completing", checks' \in WithSuccess(Current(d))
      PROVE  ChecksGrow
  <2>1. Extends(checks') /\ SuccessOnlyOf(checks', Current(d).check)
    BY <1>1, <1>4, SuccessExtends
  <2> QED BY <1>4, <2>1 DEF ChecksGrow, SuccessOnlyOf
<1>5. ASSUME NEW n, checks' = [checks EXCEPT ![n].status = "failure"] PROVE ChecksGrow
  <2>1. Extends(checks') /\ SuccessOnlyOf(checks', 0)
    BY <1>1, <1>5, FailureExtends
  <2>2. 0 \notin DOMAIN checks'
    BY <1>1, TypeNext DEF TypeInv, TypeOK
  <2> QED BY <2>1, <2>2 DEF ChecksGrow, SuccessOnlyOf
<1>6. CASE GitHubStep \/ Restart \/ UNCHANGED vars
  BY <1>2, <1>6 DEF GitHubStep, Push, MarkReady, Restart, vars, github
<1>7. ASSUME NEW d \in Deliveries, Send(d) PROVE ChecksGrow
  BY <1>2, <1>7 DEF Send
<1>8. ASSUME NEW d \in Deliveries, TaskStep(d) PROVE ChecksGrow
  <2>1. CASE StartCheck(d)
    BY <1>3, <2>1 DEF StartCheck
  <2>2. CASE StartCheckFails(d)
    BY <1>2, <1>3, <2>2 DEF StartCheckFails
  <2>3. CASE CompleteCheck(d)
    BY <1>4, <2>3 DEF CompleteCheck
  <2>4. CASE ReviewFails(d)
    BY <1>2, <1>4, <2>4 DEF ReviewFails
  <2>5. CASE FailCheck(d)
    BY <1>2, <1>5, <2>5 DEF FailCheck
  <2>6. CASE \/ Ignore(d) \/ StartPlan(d) \/ FetchPull(d) \/ ListFiles(d) \/ EndPlan(d)
             \/ PlanFails(d) \/ ReadStore(d) \/ Skip(d) \/ Save(d) \/ PublishLocally(d)
             \/ PublishComment(d) \/ Finish(d)
    BY <1>2, <2>6 DEF Ignore, StartPlan, FetchPull, ListFiles, EndPlan, PlanFails,
        ReadStore, Skip, Save, PublishLocally, PublishComment, Finish, github
  <2> QED BY <1>8, <2>1, <2>2, <2>3, <2>4, <2>5, <2>6 DEF TaskStep
<1> QED BY <1>6, <1>7, <1>8 DEF Next

LEMMA CommentsStep ==
    ASSUME TypeInv, [Next]_vars, NEW p \in PullRequests, NEW s \in Scopes, comment[p][s] # 0
    PROVE  comment'[p][s] # 0
<1>1. CASE GitHubStep \/ Restart \/ UNCHANGED vars
  BY <1>1 DEF GitHubStep, Push, MarkReady, Restart, vars, github
<1>2. ASSUME NEW d \in Deliveries, Send(d) PROVE comment' = comment
  BY <1>2 DEF Send
<1>3. ASSUME NEW d \in Deliveries, TaskStep(d)
      PROVE  \/ comment' = comment
             \/ todo[d] # <<>> /\ comment' = WithComment(Current(d))
  BY <1>3 DEF TaskStep, Ignore, StartPlan, FetchPull, ListFiles, EndPlan, PlanFails,
      ReadStore, Skip, StartCheck, StartCheckFails, Save, PublishLocally, PublishComment,
      CompleteCheck, ReviewFails, FailCheck, Finish, github, TypeInv, HasCurrent
<1> QED BY <1>1, <1>2, <1>3, CommentStays DEF Next

LEMMA FitsStays ==
    ASSUME Extends(checks'), NEW request, FitsCheck(request, checks)
    PROVE  FitsCheck(request, checks')
BY DEF Extends, FitsCheck

\* Tasks share the store and GitHub, nothing else.
LEMMA OthersAlone ==
    ASSUME TypeInv, NEW d \in Deliveries, Send(d) \/ TaskStep(d),
           NEW e \in Deliveries, e # d
    PROVE  /\ phase'[e] = phase[e] /\ todo'[e] = todo[e] /\ fetch'[e] = fetch[e]
           /\ pull'[e] = pull[e] /\ message'[e] = message[e]
<1>1. CASE Send(d)
  BY <1>1 DEF Send, Goto, TypeInv, TypeOK
<1>2. CASE TaskStep(d)
  BY <1>2 DEF TaskStep, Ignore, StartPlan, FetchPull, ListFiles, EndPlan, PlanFails,
      ReadStore, Skip, StartCheck, StartCheckFails, Save, PublishLocally, PublishComment,
      CompleteCheck, ReviewFails, FailCheck, Finish, github, Goto, TypeInv, TypeOK
<1> QED BY <1>1, <1>2

\* What others do leaves a task sound.
LEMMA SoundStays ==
    ASSUME TypeInv, [Next]_vars, NEW e \in Deliveries, TaskSound(e),
           phase'[e] = phase[e], todo'[e] = todo[e], fetch'[e] = fetch[e],
           pull'[e] = pull[e], message'[e] = message[e]
    PROVE  TaskSound(e)'
<1>1. Extends(checks') /\ store \subseteq store'
  BY ChecksStep, StoreGrows DEF ChecksGrow
<1>2. ButtonFits(e)'
  BY <1>1 DEF TaskSound, ButtonFits, Extends
<1>3. RequestsFit(e)'
  BY <1>1, FitsStays DEF TaskSound, RequestsFit
<1>4. HasResult(e)'
  <2>1. Current(e)' = Current(e)
    BY DEF Current
  <2>2. CASE phase[e] = "completing"
    <3>1. Current(e) \in Requests
      BY <2>2, ReviewType DEF TypeInv, HasCurrent
    <3>2. comment'[Current(e).pr][Current(e).scope] # 0
      BY <2>2, <3>1, CommentsStep DEF TaskSound, HasResult, Requests
    <3> QED BY <1>1, <2>1, <2>2, <3>2 DEF TaskSound, HasResult, Key
  <2>3. CASE phase[e] # "completing"
    BY <1>1, <2>1, <2>3 DEF TaskSound, HasResult, Key
  <2> QED BY <2>2, <2>3
<1>5. NothingFetched(e)'
  BY DEF TaskSound, NothingFetched
<1> QED BY <1>2, <1>3, <1>4, <1>5 DEF TaskSound

\* The payload of a button names a check run of that pull request.
LEMMA SendSound ==
    ASSUME PublishInv, NEW d \in Deliveries, Send(d)
    PROVE  TaskSound(d)'
<1> TypeInv /\ (\A e \in Deliveries : TaskSound(e))
  BY DEF PublishInv
<1>1. PICK m \in PullRequestPayloads \cup CheckPayloads \cup ButtonPayloads
                   \cup {message[e] : e \in {x \in Deliveries : phase[x] # "unsent"}} :
             message' = [message EXCEPT ![d] = m]
  BY DEF Send
<1>2. message'[d] = m /\ fetch'[d] = <<>> /\ phase'[d] = "waiting" /\ checks' = checks
  BY <1>1 DEF Send, Goto, TypeInv, TypeOK, TaskSound, NothingFetched
<1>3. m.check # 0 =>
        /\ m.kind = "requested_action" /\ m.check \in DOMAIN checks
        /\ \A k \in DOMAIN m.prs : m.prs[k] = checks[m.check].pr
  <2>1. CASE m \in PullRequestPayloads \cup CheckPayloads
    BY <2>1 DEF PullRequestPayloads, CheckPayloads, Payload
  <2>2. CASE m \in ButtonPayloads
    <3>1. PICK i \in DOMAIN checks :
                 m = Payload("requested_action", <<checks[i].pr>>, 0, FALSE, FALSE, i)
      BY <2>2 DEF ButtonPayloads
    <3> QED BY <3>1 DEF Payload
  <2>3. ASSUME NEW e \in Deliveries, phase[e] # "unsent", m = message[e]
        PROVE  m.check # 0 =>
                 /\ m.kind = "requested_action" /\ m.check \in DOMAIN checks
                 /\ \A k \in DOMAIN m.prs : m.prs[k] = checks[m.check].pr
    BY <2>3 DEF TaskSound, ButtonFits
  <2> QED BY <2>1, <2>2, <2>3
<1>4. ButtonFits(d)'
  BY <1>2, <1>3 DEF ButtonFits
<1>5. RequestsFit(d)'
  BY <1>2 DEF Send, TaskSound, RequestsFit
<1>6. HasResult(d)' /\ NothingFetched(d)'
  BY <1>2 DEF HasResult, NothingFetched
<1> QED BY <1>4, <1>5, <1>6 DEF TaskSound

\* The plan hands the id of the check run on.
LEMMA PlanSound ==
    ASSUME PublishInv, NEW d \in Deliveries,
           \/ Ignore(d) \/ StartPlan(d) \/ FetchPull(d) \/ ListFiles(d) \/ EndPlan(d)
           \/ PlanFails(d) \/ ReadStore(d)
    PROVE  TaskSound(d)'
<1> TypeInv /\ TaskSound(d)
  BY DEF PublishInv
<1>1. /\ phase[d] \in {"waiting", "fetching", "listing_files", "reading_store"}
      /\ phase'[d] \in {"fetching", "listing_files", "reading_store", "choosing", "done"}
      /\ checks' = checks /\ message' = message
  BY DEF Ignore, StartPlan, FetchPull, ListFiles, EndPlan, PlanFails, ReadStore, Goto,
      github, TypeInv, TypeOK
<1>2. HasResult(d)' /\ NothingFetched(d)'
  BY <1>1 DEF HasResult, NothingFetched
<1>3. ButtonFits(d)'
  <2>1. /\ message[d] \in Messages
        /\ message[d].prs \in Seq(PullRequests) /\ fetch[d] \in Seq(PullRequests)
    BY <1>1, SuitesAreSequences DEF TypeInv, TypeOK, Messages
  <2>2. CASE StartPlan(d)
    BY <1>1, <2>2 DEF StartPlan, TaskSound, ButtonFits, TypeInv, TypeOK
  <2>3. CASE ListFiles(d)
    <3>1. fetch'[d] = Tail(fetch[d]) /\ fetch[d] # <<>>
      BY <2>3 DEF ListFiles, TypeInv, TypeOK, HasCurrent
    <3>2. \A k \in DOMAIN Tail(fetch[d]) :
             k + 1 \in DOMAIN fetch[d] /\ Tail(fetch[d])[k] = fetch[d][k + 1]
      BY <2>1, <3>1
    <3> QED BY <1>1, <3>1, <3>2 DEF TaskSound, ButtonFits
  <2>4. fetch'[d] = fetch[d] => ButtonFits(d)'
    BY <1>1 DEF TaskSound, ButtonFits
  <2> QED BY <2>2, <2>3, <2>4 DEF Ignore, FetchPull, EndPlan, PlanFails, ReadStore
<1>4. RequestsFit(d)'
  <2>1. CASE FetchPull(d)
    <3>1. Head(fetch[d]) = fetch[d][1] /\ 1 \in DOMAIN fetch[d]
      BY <2>1 DEF FetchPull, TypeInv, TypeOK
    <3>2. /\ pull'[d].pr = fetch[d][1] /\ pull'[d].check = message[d].check
          /\ pull'[d].deep = (message[d].kind = "requested_action")
      BY <2>1, <3>1 DEF FetchPull, TypeInv, TypeOK
    <3>3. FitsCheck(pull'[d], checks)
      BY <1>1, <2>1, <3>1, <3>2 DEF FetchPull, FitsCheck, TaskSound, ButtonFits
    <3>4. todo' = todo
      BY <2>1 DEF FetchPull
    <3> QED BY <1>1, <3>3, <3>4 DEF RequestsFit, TaskSound
  <2>2. CASE ListFiles(d)
    <3>1. PICK scope \in ScopesOf(pull[d]) :
             todo' = [todo EXCEPT ![d] =
                    Append(@, [pull[d] EXCEPT !.diff = head[pull[d].pr], !.scope = scope])]
      BY <2>2 DEF ListFiles
    <3> DEFINE new == [pull[d] EXCEPT !.diff = head[pull[d].pr], !.scope = scope]
    <3>2. pull[d] \in Requests /\ FitsCheck(pull[d], checks)
      BY <2>2 DEF ListFiles, TypeInv, TypeOK, TaskSound, RequestsFit
    <3>3. new.check = pull[d].check /\ new.pr = pull[d].pr /\ new.deep = pull[d].deep
          /\ new.commit = pull[d].commit
      BY <3>2 DEF Requests
    <3>4. FitsCheck(new, checks)
      BY <3>2, <3>3 DEF FitsCheck
    <3> HIDE DEF new
    <3>5. todo[d] \in Seq(Requests) /\ todo'[d] = Append(todo[d], new)
      BY <3>1 DEF TypeInv, TypeOK, new
    <3>6. ASSUME NEW k \in DOMAIN todo'[d] PROVE FitsCheck(todo'[d][k], checks)
      <4>1. (k \in DOMAIN todo[d] /\ todo'[d][k] = todo[d][k]) \/ todo'[d][k] = new
        BY <3>5
      <4> QED BY <3>4, <4>1 DEF TaskSound, RequestsFit
    <3>7. phase'[d] = "fetching"
      BY <2>2 DEF ListFiles, Goto, TypeInv, TypeOK
    <3> QED BY <1>1, <3>6, <3>7 DEF RequestsFit
  <2>3. CASE PlanFails(d)
    BY <2>3 DEF PlanFails, Goto, RequestsFit, TypeInv, TypeOK
  <2>4. CASE Ignore(d) \/ StartPlan(d) \/ EndPlan(d) \/ ReadStore(d)
    BY <1>1, <2>4 DEF Ignore, StartPlan, EndPlan, ReadStore, Goto, RequestsFit, TaskSound,
        TypeInv, TypeOK
  <2> QED BY <2>1, <2>2, <2>3, <2>4
<1> QED BY <1>2, <1>3, <1>4 DEF TaskSound

LEMMA TailFits ==
    ASSUME NEW list, NEW requests \in Seq(Requests), requests # <<>>,
           \A k \in DOMAIN requests : FitsCheck(requests[k], list)
    PROVE  \A k \in DOMAIN Tail(requests) : FitsCheck(Tail(requests)[k], list)
<1>1. \A k \in DOMAIN Tail(requests) :
         k + 1 \in DOMAIN requests /\ Tail(requests)[k] = requests[k + 1]
  OBVIOUS
<1> QED BY <1>1

\* The id of the check run that StartCheck reopens or creates.
LEMMA StartSound ==
    ASSUME PublishInv, NEW d \in Deliveries, StartCheck(d)
    PROVE  RequestsFit(d)'
<1> DEFINE request == Current(d)
           id == IF request.check = 0 THEN Len(checks) + 1 ELSE request.check
<1> TypeInv /\ TaskSound(d)
  BY DEF PublishInv
<1>1. /\ todo[d] \in Seq(Requests) /\ todo[d] # <<>> /\ checks \in Seq(Checks)
      /\ request = todo[d][1] /\ request \in Requests
  BY DEF StartCheck, TypeInv, TypeOK, Current
<1>2. checks' = WithPendingCheck(request) /\ Extends(checks')
  BY <1>1, PendingExtends DEF StartCheck
<1>3. FitsCheck(request, checks) /\ request \in Requests
  BY <1>1 DEF TaskSound, RequestsFit
<1>4. /\ todo'[d] = [todo[d] EXCEPT ![1] = [request EXCEPT !.check = id]]
      /\ phase'[d] = "reviewing"
  BY <1>1 DEF StartCheck, Goto, TypeInv, TypeOK
<1>5. FitsCheck([request EXCEPT !.check = id], checks')
  <2>1. CASE request.check # 0
    <3>1. [request EXCEPT !.check = id] = request
      BY <1>3, <2>1 DEF Requests
    <3> QED BY <1>2, <1>3, <3>1, FitsStays
  <2>2. CASE request.check = 0
    <3>1. checks' = Append(checks, [pr |-> request.pr, commit |-> request.commit,
                                    status |-> "in_progress", button |-> FALSE])
      BY <1>2, <2>2 DEF WithPendingCheck
    <3>2. Len(checks) + 1 \in DOMAIN checks'
          /\ checks'[Len(checks) + 1].pr = request.pr
          /\ checks'[Len(checks) + 1].commit = request.commit
      BY <1>1, <3>1
    <3>3. /\ [request EXCEPT !.check = id].check = Len(checks) + 1
          /\ [request EXCEPT !.check = id].pr = request.pr
          /\ [request EXCEPT !.check = id].commit = request.commit
      BY <1>3, <2>2 DEF Requests
    <3> QED BY <3>2, <3>3 DEF FitsCheck
  <2> QED BY <2>1, <2>2
<1> HIDE DEF request, id
<1>6. \A k \in DOMAIN todo'[d] :
         \/ todo'[d][k] = [request EXCEPT !.check = id]
         \/ k \in DOMAIN todo[d] /\ todo'[d][k] = todo[d][k]
  BY <1>1, <1>4
<1>7. \A k \in DOMAIN todo[d] : FitsCheck(todo[d][k], checks')
  BY <1>2, FitsStays DEF TaskSound, RequestsFit
<1> QED BY <1>4, <1>5, <1>6, <1>7 DEF RequestsFit

LEMMA ReviewingSound ==
    ASSUME PublishInv, [Next]_vars, NEW d \in Deliveries,
           \/ Skip(d) \/ StartCheck(d) \/ StartCheckFails(d) \/ Save(d) \/ PublishLocally(d)
           \/ PublishComment(d) \/ CompleteCheck(d) \/ ReviewFails(d) \/ FailCheck(d)
           \/ Finish(d)
    PROVE  TaskSound(d)'
<1> TypeInv /\ TaskSound(d)
  BY DEF PublishInv
<1>1. /\ phase[d] \in {"choosing", "reviewing", "publishing", "completing", "failing"}
      /\ phase'[d] \in {"choosing", "reviewing", "publishing", "completing", "failing", "done"}
      /\ message' = message /\ fetch' = fetch
  BY DEF Skip, StartCheck, StartCheckFails, Save, PublishLocally, PublishComment,
      CompleteCheck, ReviewFails, FailCheck, Finish, Goto, github, TypeInv, TypeOK
<1>2. Extends(checks')
  BY ChecksStep DEF ChecksGrow
<1>3. ButtonFits(d)' /\ NothingFetched(d)'
  BY <1>1, <1>2 DEF TaskSound, ButtonFits, NothingFetched, Extends
<1>4. RequestsFit(d)'
  <2>1. CASE StartCheck(d)
    BY <2>1, StartSound
  <2>2. ASSUME todo'[d] = todo[d] PROVE RequestsFit(d)'
    BY <1>1, <1>2, <2>2, FitsStays DEF TaskSound, RequestsFit
  <2>3. ASSUME todo[d] # <<>>, todo'[d] = Tail(todo[d]) PROVE RequestsFit(d)'
    <3>1. \A k \in DOMAIN todo[d] : FitsCheck(todo[d][k], checks')
      BY <1>2, FitsStays DEF TaskSound, RequestsFit
    <3>2. todo[d] \in Seq(Requests)
      BY DEF TypeInv, TypeOK
    <3> QED BY <1>1, <2>3, <3>1, <3>2, TailFits DEF RequestsFit
  <2>4. CASE Skip(d) \/ PublishLocally(d) \/ CompleteCheck(d) \/ FailCheck(d)
    BY <2>3, <2>4 DEF Skip, PublishLocally, CompleteCheck, FailCheck, TypeInv, TypeOK,
        HasCurrent
  <2>5. CASE StartCheckFails(d) \/ Save(d) \/ PublishComment(d) \/ ReviewFails(d) \/ Finish(d)
    BY <2>2, <2>5 DEF StartCheckFails, Save, PublishComment, ReviewFails, Finish
  <2> QED BY <2>1, <2>4, <2>5
<1>5. HasResult(d)'
  <2>1. CASE Save(d)
    <3>1. todo' = todo /\ phase'[d] = "publishing" /\ store' = WithReview(d)
      BY <2>1 DEF Save, Goto, TypeInv, TypeOK
    <3>2. Current(d)' = Current(d)
      BY <3>1 DEF Current
    <3> DEFINE saved == [key |-> Key(Current(d)), diff |-> Current(d).diff,
                         scope |-> Current(d).scope, by |-> d]
    <3>3. saved \in store' /\ saved.key = Key(Current(d)) /\ saved.scope = Current(d).scope
      BY <3>1 DEF WithReview
    <3>4. Key(Current(d))' = Key(Current(d))
      BY <3>2 DEF Key
    <3> QED BY <3>1, <3>2, <3>3, <3>4 DEF HasResult
  <2>2. CASE PublishComment(d)
    <3>1. /\ todo' = todo /\ store' = store /\ todo[d] # <<>>
          /\ phase[d] = "publishing" /\ phase'[d] = "completing"
          /\ comment' = WithComment(Current(d))
      BY <2>2 DEF PublishComment, Goto, TypeInv, TypeOK, HasCurrent
    <3> QED BY <3>1, CommentStays DEF TaskSound, HasResult, Current, Key
  <2>3. CASE ~Save(d) /\ ~PublishComment(d)
    <3>1. phase'[d] \notin {"publishing", "completing"}
      BY <2>3 DEF Skip, StartCheck, StartCheckFails, PublishLocally, CompleteCheck,
          ReviewFails, FailCheck, Finish, Goto, TypeInv, TypeOK
    <3> QED BY <3>1 DEF HasResult
  <2> QED BY <2>1, <2>2, <2>3
<1> QED BY <1>3, <1>4, <1>5 DEF TaskSound

\* The check run a task turns green is that of the review it saved and posted.
LEMMA SuccessStep ==
    ASSUME PublishInv, [Next]_vars
    PROVE  SuccessMeansPublished'
<1> TypeInv /\ (\A d \in Deliveries : TaskSound(d)) /\ SuccessMeansPublished
  BY DEF PublishInv
<1> SUFFICES ASSUME NEW i \in DOMAIN checks', checks'[i].status = "success"
             PROVE  \E review \in store' :
                       /\ review.key.pr = checks'[i].pr
                       /\ review.key.commit = checks'[i].commit \/ review.key.deep
                       /\ comment'[checks'[i].pr][review.scope] # 0
  BY DEF SuccessMeansPublished
<1>1. /\ ChecksGrow /\ store \subseteq store'
      /\ checks \in Seq(Checks)
      /\ store \subseteq [key : Keys, diff : Commits, scope : Scopes, by : Deliveries]
  BY ChecksStep, StoreGrows DEF TypeInv, TypeOK
<1>2. ASSUME i \in DOMAIN checks, NEW review \in store,
             review.key.pr = checks[i].pr,
             review.key.commit = checks[i].commit \/ review.key.deep,
             comment[checks[i].pr][review.scope] # 0
      PROVE  \E saved \in store' :
                 /\ saved.key.pr = checks'[i].pr
                 /\ saved.key.commit = checks'[i].commit \/ saved.key.deep
                 /\ comment'[checks'[i].pr][saved.scope] # 0
  <2>1. checks[i].pr \in PullRequests /\ review.scope \in Scopes
    <3>1. checks[i] \in Checks
      BY <1>1, <1>2
    <3>2. review \in [key : Keys, diff : Commits, scope : Scopes, by : Deliveries]
      BY <1>1, <1>2
    <3> QED BY <3>1, <3>2 DEF Checks
  <2>2. comment'[checks[i].pr][review.scope] # 0
    BY <1>2, <2>1, CommentsStep
  <2>3. checks'[i].pr = checks[i].pr /\ checks'[i].commit = checks[i].commit
    BY <1>1, <1>2 DEF ChecksGrow, Extends
  <2> QED BY <1>1, <1>2, <2>2, <2>3
<1>3. CASE i \in DOMAIN checks /\ checks[i].status = "success"
  BY <1>2, <1>3 DEF SuccessMeansPublished
<1>4. ASSUME NEW d \in Deliveries, phase[d] = "completing", i = Current(d).check
      PROVE  \E review \in store' :
                 /\ review.key.pr = checks'[i].pr
                 /\ review.key.commit = checks'[i].commit \/ review.key.deep
                 /\ comment'[checks'[i].pr][review.scope] # 0
  <2>1. todo[d] # <<>> /\ Current(d) \in Requests /\ todo[d] \in Seq(Requests)
    BY <1>4, ReviewType DEF TypeInv, HasCurrent, TypeOK
  <2>2. FitsCheck(Current(d), checks)
    BY <2>1 DEF TaskSound, RequestsFit, Current
  <2>3. i # 0
    BY TypeNext DEF TypeInv, TypeOK
  <2>4. PICK review \in store : review.key = Key(Current(d)) /\ review.scope = Current(d).scope
    BY <1>4 DEF TaskSound, HasResult
  <2>5. comment[Current(d).pr][Current(d).scope] # 0
    BY <1>4 DEF TaskSound, HasResult
  <2>6. /\ i \in DOMAIN checks /\ checks[i].pr = Current(d).pr
        /\ Current(d).deep \/ checks[i].commit = Current(d).commit
    BY <1>4, <2>2, <2>3 DEF FitsCheck
  <2> QED BY <1>2, <2>4, <2>5, <2>6 DEF Key
<1> QED BY <1>1, <1>3, <1>4 DEF ChecksGrow

LEMMA PublishInit == Init => PublishInv
<1> SUFFICES ASSUME Init PROVE PublishInv
  OBVIOUS
<1>1. \A d \in Deliveries : TaskSound(d)
  BY DEF Init, TaskSound, ButtonFits, RequestsFit, HasResult, NothingFetched
<1>2. SuccessMeansPublished
  BY DEF Init, SuccessMeansPublished
<1> QED BY <1>1, <1>2, TypeInit DEF PublishInv

LEMMA PublishNext == PublishInv /\ [Next]_vars => PublishInv'
<1> SUFFICES ASSUME PublishInv, [Next]_vars PROVE PublishInv'
  OBVIOUS
<1> TypeInv /\ (\A d \in Deliveries : TaskSound(d))
  BY DEF PublishInv
<1>1. ASSUME NEW e \in Deliveries PROVE TaskSound(e)'
  <2>1. ASSUME phase'[e] = phase[e], todo'[e] = todo[e], fetch'[e] = fetch[e],
               pull'[e] = pull[e], message'[e] = message[e]
        PROVE  TaskSound(e)'
    BY <2>1, SoundStays
  <2>2. CASE GitHubStep \/ UNCHANGED vars
    BY <2>1, <2>2 DEF GitHubStep, Push, MarkReady, vars, task, github
  <2>3. CASE Restart
    <3>1. /\ phase'[e] = phase[e] \/ phase'[e] = "lost"
          /\ phase[e] = "unsent" => phase'[e] = "unsent"
          /\ message' = message /\ todo' = todo /\ fetch' = fetch /\ pull' = pull
          /\ checks' = checks
      BY <2>3 DEF Restart, Active, github
    <3>2. ASSUME phase'[e] = "lost" PROVE TaskSound(e)'
      <4>1. CASE phase[e] # "unsent"
        BY <3>1, <3>2, <4>1 DEF TaskSound, ButtonFits, RequestsFit, HasResult, NothingFetched
      <4> QED BY <3>1, <3>2, <4>1
    <3> QED BY <2>1, <3>1, <3>2
  <2>4. ASSUME NEW d \in Deliveries, Send(d) \/ TaskStep(d), d # e PROVE TaskSound(e)'
    BY <2>1, <2>4, OthersAlone
  <2>5. CASE Send(e)
    BY <2>5, SendSound
  <2>6. CASE TaskStep(e)
    BY <2>6, PlanSound, ReviewingSound DEF TaskStep
  <2> QED BY <2>2, <2>3, <2>4, <2>5, <2>6 DEF Next
<1> QED BY <1>1, SuccessStep, TypeNext DEF PublishInv

\* However deliveries, button presses, pushes and failures mix, a check run that shows
\* success has a saved review of its pull request behind it, of its commit or a deep one,
\* whose summary comment was posted (publisher.py, publish, completes the check last).
THEOREM GreenMeansPublished == Spec => []SuccessMeansPublished
<1>1. PublishInv => SuccessMeansPublished
  BY DEF PublishInv
<1> QED BY <1>1, PublishInit, PublishNext, PTL DEF Spec

=============================================================================
