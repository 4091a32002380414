-------------------------- MODULE GitHubPublisher --------------------------
(***************************************************************************)
(* Publishing reviews to one pull request                                  *)
(* (backend/app/services/publisher.py: GitHubPublisher as a GitHub App or  *)
(* with a token, LocalPublisher with a file per run).                      *)
(*                                                                         *)
(* A publisher is one call of publish(): it deletes the inline comments of *)
(* the previous review of its scope, posts its own, updates or creates the *)
(* summary comment of its scope, and completes the check run.  With a      *)
(* token it only posts.  Every call to GitHub is one step; publishers of   *)
(* concurrent runs interleave between any two.  A call may fail in two     *)
(* ways: HTTPError, URLError or ValueError, which most of these methods    *)
(* catch, or anything else (a read timeout is a TimeoutError), which ends  *)
(* the publisher.  Either way GitHub may have carried the request out.     *)
(*                                                                         *)
(* Comments of other people may quote our markers.                         *)
(***************************************************************************)
EXTENDS Naturals, Sequences, SequencesExt, FiniteSets

CONSTANTS
    Modes,         \* publishers the service may be configured with
    Publishers,    \* calls of publish()
    Scopes,        \* marker scopes: automatic and deep reviews
    MaxFindings,   \* bound: findings with a line in one review
    PageLimit,     \* comments paginated_get returns at most (10 pages of 100)
    MaxForeign,    \* bound: comments of other people
    Faults         \* ways a call may fail: a subset of {"caught", "uncaught"}

Nobody == "somebody else"

ASSUME PublisherAssumption ==
    /\ Modes \subseteq {"github_app", "github", "local"}
    /\ {MaxFindings, MaxForeign} \subseteq Nat
    /\ PageLimit \in Nat \ {0}
    /\ Faults \subseteq {"caught", "uncaught"}
    /\ Nobody \notin Publishers

VARIABLES
    \* GitHub, and the disk
    inline,    \* inline comments: a list of [id, scope, by], oldest first
    summaries, \* issue comments, likewise
    files,     \* the publishers whose file is in the output directory
    mode,      \* what create_publisher made of the settings
    \* a publisher
    scope,     \* _review_scope of its result
    findings,  \* how many of its findings have a line
    pc,        \* the call it makes next
    found,     \* the comments of the last listing it has not dealt with yet
    \* observers
    settled,   \* scopes where no publishers have overlapped, no call has failed and
               \*   no comment of ours was too far back in a listing
    latest     \* the publishers that came last in their scope, that none of it overlapped,
               \*   and of which the same holds

github == <<inline, summaries, files>>
vars == <<github, mode, scope, findings, pc, found, settled, latest>>

Authors == Publishers \cup {Nobody}
\* The id of a comment is its author and its place: in the review of a publisher, which
\* posts one, or in the list it was appended to.  by is who wrote the text.
Ids == Authors \X Nat
Comments == [id : Ids, scope : Scopes, by : Authors]
Own(comment) == comment.id[1] # Nobody
Steps == {"idle", "write", "token", "list_inline", "delete", "post_inline", "list_summary",
          "patch", "post_summary", "check", "done", "failed"}
Busy(p) == pc[p] \notin {"idle", "done", "failed"}
Quiet(s) == \A p \in Publishers : scope[p] = s => ~Busy(p)

TypeOK ==
    /\ inline \in Seq(Comments)
    /\ summaries \in Seq(Comments)
    /\ files \subseteq Publishers
    /\ mode \in Modes
    /\ scope \in [Publishers -> Scopes]
    /\ findings \in [Publishers -> 0 .. MaxFindings]
    /\ pc \in [Publishers -> Steps]
    /\ found \in [Publishers -> Seq(Comments)]
    /\ settled \subseteq Scopes
    /\ latest \subseteq Publishers

Init ==
    /\ inline = <<>>
    /\ summaries = <<>>
    /\ files = {}
    /\ mode \in Modes
    /\ scope \in [Publishers -> Scopes]
    /\ findings \in [Publishers -> 0 .. MaxFindings]
    /\ pc = [p \in Publishers |-> "idle"]
    /\ found = [p \in Publishers |-> <<>>]
    /\ settled = Scopes
    /\ latest = {}

Goto(p, step) == pc' = [pc EXCEPT ![p] = step]

\* A comment without a marker, and one with the marker of its scope.
NewCommentUnmarked(p, i) == [id |-> <<p, i>>, scope |-> "none", by |-> p]
NewComment(p, i) == [id |-> <<p, i>>, scope |-> scope[p], by |-> p]
NewReview(p) == [i \in 1 .. findings[p] |-> NewComment(p, i)]

\* The first pages, oldest comment first.
Listed(list) == SubSeq(list, 1, IF Len(list) < PageLimit THEN Len(list) ELSE PageLimit)

\* A filter whose marker has no scope.
IsOursOfAnyScope(comment, p) == Own(comment)

\* The marker of the scope is in the body and our App is the author.
IsOurs(comment, p) == comment.scope = scope[p] /\ Own(comment)

\* A listing from the next comment of ours on: those before it are passed over.
FromOurs(list, p) ==
    LET ours == {i \in DOMAIN list : IsOurs(list[i], p)}
    IN  IF ours = {} THEN <<>>
        ELSE SubSeq(list, CHOOSE i \in ours : \A j \in ours : i <= j, Len(list))

\* The scope of a publisher some of whose comments the listing does not reach.
Overlooked(list, p) ==
    {s \in {scope[p]} : \E i \in DOMAIN list : i > PageLimit /\ IsOurs(list[i], p)}

-----------------------------------------------------------------------------
(* People (external) *)

\* Somebody comments, quoting the marker of some scope.
ForeignComment(s) ==
    LET count == Cardinality({i \in DOMAIN inline : ~Own(inline[i])})
                   + Cardinality({i \in DOMAIN summaries : ~Own(summaries[i])})
        new(list) == [id |-> <<Nobody, Len(list) + 1>>, scope |-> s, by |-> Nobody]
    IN  /\ count < MaxForeign
        /\ \/ inline' = Append(inline, new(inline)) /\ UNCHANGED summaries
           \/ summaries' = Append(summaries, new(summaries)) /\ UNCHANGED inline
        /\ UNCHANGED <<files, mode, scope, findings, pc, found, settled, latest>>

-----------------------------------------------------------------------------
(* publish() *)

\* LocalPublisher: the file is named after the run.
WriteFile(p) ==
    /\ pc[p] = "write"
    /\ files' = files \cup {p}
    /\ Goto(p, "done")
    /\ UNCHANGED <<inline, summaries, mode, scope, findings, found, settled, latest>>

\* A token is taken as it is, and without an App nothing is looked up or completed.
BeforeSummary == IF mode = "github_app" THEN "list_summary" ELSE "post_summary"
AfterSummary == IF mode = "github_app" THEN "check" ELSE "done"
AfterCleanup(p) == IF findings[p] = 0 THEN BeforeSummary ELSE "post_inline"

\* From here on the publisher overlaps every other busy one of its scope.
Start(p) ==
    /\ pc[p] = "idle"
    /\ Goto(p, CASE mode = "local" -> "write"
                 [] mode = "github_app" -> "token"
                 [] mode = "github" -> AfterCleanup(p))
    /\ settled' = settled \ {scope[q] : q \in {x \in Publishers : Busy(x) /\ scope[x] = scope[p]}}
    /\ latest' = (latest \ {q \in Publishers : scope[q] = scope[p]})
                     \cup {q \in {p} : Quiet(scope[q])}
    /\ UNCHANGED <<github, mode, scope, findings, found>>

\* _token_for: an installation token for this publication.
GetToken(p) ==
    /\ pc[p] = "token"
    /\ Goto(p, "list_inline")
    /\ UNCHANGED <<github, mode, scope, findings, found, settled, latest>>

ListInline(p) ==
    /\ pc[p] = "list_inline"
    /\ found' = [found EXCEPT ![p] = FromOurs(Listed(inline), p)]
    /\ Goto(p, "delete")
    /\ settled' = settled \ Overlooked(inline, p)
    /\ latest' = latest \ {q \in {p} : Overlooked(inline, q) # {}}
    /\ UNCHANGED <<github, mode, scope, findings>>

\* Where in a list the comment is that the publisher deals with: gone, or in one place.
PlacesIn(list, p) == {i \in DOMAIN list : list[i].id = Head(found[p]).id}
Deleted(p) == RemoveAt(inline, CHOOSE i \in PlacesIn(inline, p) : TRUE)

\* The next comment of ours in the listing is deleted.
DeleteInline(p) ==
    /\ pc[p] = "delete"
    /\ found[p] # <<>>
    /\ PlacesIn(inline, p) # {}
    /\ inline' = Deleted(p)
    /\ found' = [found EXCEPT ![p] = FromOurs(Tail(@), p)]
    /\ UNCHANGED <<summaries, files, mode, scope, findings, pc, settled, latest>>

\* Another publisher has deleted it: 404, and the cleanup stops there.
DeleteGone(p) ==
    /\ pc[p] = "delete"
    /\ found[p] # <<>>
    /\ PlacesIn(inline, p) = {}
    /\ found' = [found EXCEPT ![p] = <<>>]
    /\ Goto(p, AfterCleanup(p))
    /\ UNCHANGED <<github, mode, scope, findings, settled, latest>>

EndCleanup(p) ==
    /\ pc[p] = "delete"
    /\ found[p] = <<>>
    /\ Goto(p, AfterCleanup(p))
    /\ UNCHANGED <<github, mode, scope, findings, found, settled, latest>>

\* One review with a comment per finding.
PostInline(p) ==
    /\ pc[p] = "post_inline"
    /\ inline' = inline \o NewReview(p)
    /\ Goto(p, BeforeSummary)
    /\ UNCHANGED <<summaries, files, mode, scope, findings, found, settled, latest>>

\* A listing that always leads to a new comment.
NewestNone(list, p) == <<>>

\* The newest of our summary comments the listing reaches, if there is one.
Newest(list, p) ==
    LET ours == {i \in DOMAIN Listed(list) : IsOurs(list[i], p)}
    IN  IF ours = {} THEN <<>>
        ELSE <<list[CHOOSE i \in ours : \A j \in ours : j <= i]>>

ListSummary(p) ==
    /\ pc[p] = "list_summary"
    /\ LET newest == Newest(summaries, p) IN
        /\ found' = [found EXCEPT ![p] = newest]
        /\ Goto(p, IF newest = <<>> THEN "post_summary" ELSE "patch")
    /\ settled' = settled \ Overlooked(summaries, p)
    /\ latest' = latest \ {q \in {p} : Overlooked(summaries, q) # {}}
    /\ UNCHANGED <<github, mode, scope, findings>>

Patched(p) ==
    [i \in DOMAIN summaries |->
        IF i \in PlacesIn(summaries, p)
        THEN [summaries[i] EXCEPT !.by = p, !.scope = scope[p]] ELSE summaries[i]]

PatchSummary(p) ==
    /\ pc[p] = "patch"
    /\ summaries' = Patched(p)
    /\ Goto(p, "check")
    /\ UNCHANGED <<inline, files, mode, scope, findings, found, settled, latest>>

PostSummary(p) ==
    /\ pc[p] = "post_summary"
    /\ summaries' = Append(summaries, NewComment(p, 1))
    /\ Goto(p, AfterSummary)
    /\ UNCHANGED <<inline, files, mode, scope, findings, found, settled, latest>>

CompleteCheckRun(p) ==
    /\ pc[p] = "check"
    /\ Goto(p, "done")
    /\ UNCHANGED <<github, mode, scope, findings, found, settled, latest>>

-----------------------------------------------------------------------------
(* Failing calls *)

\* Taking a failed summary comment for no reason to fail.
AfterErrorLenient(p) ==
    CASE pc[p] \in {"list_inline", "delete"} -> AfterCleanup(p)
      [] pc[p] = "post_inline"               -> BeforeSummary
      [] pc[p] \in {"list_summary", "patch", "post_summary"} -> AfterSummary
      [] pc[p] \in {"token", "check"}        -> "failed"

\* Where publish() goes on after a caught error: a failed cleanup or inline review
\* is given up, a failed lookup or PATCH of the summary leads to a new comment, and
\* the rest fails the publication.
AfterError(p) ==
    CASE pc[p] \in {"list_inline", "delete"}    -> AfterCleanup(p)
      [] pc[p] = "post_inline"                  -> BeforeSummary
      [] pc[p] \in {"list_summary", "patch"}    -> "post_summary"
      [] pc[p] \in {"token", "post_summary", "check"} -> "failed"

\* A failing call may have reached GitHub and been carried out there.
EffectOfCall(p) ==
    /\ inline' \in {inline} \cup
          (CASE pc[p] = "post_inline" -> {inline \o NewReview(p)}
             [] pc[p] = "delete" /\ PlacesIn(inline, p) # {} -> {Deleted(p)}
             [] OTHER -> {})
    /\ summaries' \in {summaries} \cup
          (CASE pc[p] = "patch" -> {Patched(p)}
             [] pc[p] = "post_summary" -> {Append(summaries, NewComment(p, 1))}
             [] OTHER -> {})
    /\ UNCHANGED files

Calling(p) == Busy(p) /\ pc[p] # "write" /\ ~ (pc[p] = "delete" /\ found[p] = <<>>)

\* The disk is full or the directory cannot be written: the file may be there in part.
WriteError(p) ==
    /\ pc[p] = "write"
    /\ files' \in {files, files \cup {p}}
    /\ Goto(p, "failed")
    /\ latest' = latest \ {p}
    /\ UNCHANGED <<inline, summaries, mode, scope, findings, found, settled>>

\* An error status, no connection, or an answer that is no JSON.
CaughtError(p) ==
    /\ "caught" \in Faults
    /\ Calling(p)
    /\ EffectOfCall(p)
    /\ Goto(p, AfterError(p))
    /\ found' = [found EXCEPT ![p] = <<>>]
    /\ settled' = settled \ {scope[p]}
    /\ latest' = latest \ {p}
    /\ UNCHANGED <<mode, scope, findings>>

\* No answer: the publisher raises whatever it was doing.
NoAnswer(p) ==
    /\ "uncaught" \in Faults
    /\ Calling(p)
    /\ EffectOfCall(p)
    /\ Goto(p, "failed")
    /\ found' = [found EXCEPT ![p] = <<>>]
    /\ settled' = settled \ {scope[p]}
    /\ latest' = latest \ {p}
    /\ UNCHANGED <<mode, scope, findings>>

-----------------------------------------------------------------------------
PublisherStep(p) ==
    \/ Start(p) \/ WriteFile(p) \/ WriteError(p) \/ GetToken(p) \/ ListInline(p)
    \/ DeleteInline(p) \/ DeleteGone(p) \/ EndCleanup(p) \/ PostInline(p) \/ ListSummary(p) \/ PatchSummary(p)
    \/ PostSummary(p) \/ CompleteCheckRun(p) \/ CaughtError(p) \/ NoAnswer(p)

Next ==
    \/ \E p \in Publishers : PublisherStep(p)
    \/ \E s \in Scopes : ForeignComment(s)

Spec == Init /\ [][Next]_vars

-----------------------------------------------------------------------------
(* Properties *)

SummariesOf(s) == {i \in DOMAIN summaries : Own(summaries[i]) /\ summaries[i].scope = s}
InlineOf(s) == {i \in DOMAIN inline : Own(inline[i]) /\ inline[i].scope = s}
\* The newest summary of our App and of the scope is the one this publisher wrote.
NewestSummaryBy(p) ==
    \E i \in SummariesOf(scope[p]) :
        summaries[i].by = p /\ \A j \in SummariesOf(scope[p]) : j <= i

\* Whatever overlapped, failed or was left behind earlier, a publication that overlapped
\* no other of its scope, none of whose calls failed and which no other of its scope has
\* followed is the review on the pull request: the inline comments of the scope are
\* exactly its own, and the newest summary is its own.  It is the only summary as well
\* when the scope has never seen an overlap, a failed call or a comment the listings did
\* not reach (publisher.py, publish: what the previous review left is deleted or updated).
ShowsLastReview ==
    mode = "github_app" =>
        \A p \in latest : pc[p] = "done" =>
            /\ {inline[i].id : i \in InlineOf(scope[p])} = {<<p, k>> : k \in 1 .. findings[p]}
            /\ NewestSummaryBy(p)
            /\ scope[p] \in settled => Cardinality(SummariesOf(scope[p])) = 1

\* A publisher of the scope of this comment of our App takes a step.
MayGo(comment) ==
    /\ Own(comment)
    /\ \E p \in Publishers :
          scope[p] = comment.scope /\ (pc'[p] # pc[p] \/ found'[p] # found[p])

\* A publisher replaces comments of our App and of its own scope only: those of other
\* people stay, even when they quote our marker, and a deep review leaves the automatic
\* one alone and the other way round, even when they overlap and calls fail
\* (publisher.py, _is_own_app_comment, _review_scope and the markers).
OthersUntouched ==
    [][ /\ \A i \in DOMAIN inline :
              MayGo(inline[i]) \/ \E j \in DOMAIN inline' : inline'[j] = inline[i]
        /\ \A i \in DOMAIN summaries :
              MayGo(summaries[i]) \/ \E j \in DOMAIN summaries' : summaries'[j] = summaries[i] ]_vars

\* Whatever fails and whoever overlaps, a publisher gets as far as completing the
\* check run as a success, or returns, only when a summary of its scope is on the pull
\* request, or its file is written (publisher.py, the order of the calls in publish).
SuccessIsVisible ==
    \A p \in Publishers :
        pc[p] \in {"check", "done"} =>
            IF mode = "local" THEN p \in files ELSE SummariesOf(scope[p]) # {}
=============================================================================
