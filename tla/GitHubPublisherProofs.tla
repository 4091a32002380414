------------------------ MODULE GitHubPublisherProofs ------------------------
(***************************************************************************)
(* What the publication of a review promises, for any number of            *)
(* publishers, scopes and findings, any limit of a listing and any faults. *)
(***************************************************************************)
EXTENDS GitHubPublisher, SequenceTheorems, FiniteSetTheorems, WellFoundedInduction, TLAPS

-----------------------------------------------------------------------------
(* The newest of some comments *)

LEMMA GreatestExists ==
  ASSUME NEW n \in Nat, NEW T \in SUBSET (1 .. n), T # {}
  PROVE  \E i \in T : \A j \in T : j <= i
<1> DEFINE R == OpToRel(<, Nat)
           M == {n - i : i \in T}
<1>1. M \subseteq Nat /\ M # {}
  <2>1. ASSUME NEW i \in T PROVE n - i \in Nat
    OBVIOUS
  <2> QED
    BY <2>1
<1>2. \E x \in M : \A y \in M : ~ (<<y, x>> \in R)
  <2> HIDE DEF M, R
  <2>1. IsWellFoundedOn(R, Nat)
    BY NatLessThanWellFounded DEF R
  <2> QED
    BY <1>1, <2>1, WFMin
<1>3. PICK x \in M : \A y \in M : ~ (<<y, x>> \in R)
  BY <1>2
<1>4. ASSUME NEW y \in M PROVE x <= y
  <2>1. x \in Nat /\ y \in Nat
    BY <1>1
  <2>2. ~ (<<y, x>> \in R)
    BY <1>3
  <2>3. <<y, x>> \in Nat \X Nat
    BY <2>1
  <2>4. ~ (y < x)
    BY <2>2, <2>3 DEF OpToRel
  <2> QED
    BY <2>1, <2>4
<1>5. PICK i \in T : x = n - i
  OBVIOUS
<1>6. ASSUME NEW j \in T PROVE j <= i
  <2>1. n - j \in M
    OBVIOUS
  <2>2. x <= n - j
    BY <1>4, <2>1
  <2> QED
    BY <1>5, <2>2
<1> QED
  BY <1>6

\* What a lookup finds is the summary of the publisher's scope and of our App.
LEMMA NewestIsOurs ==
  ASSUME NEW list \in Seq(Comments), NEW p \in Publishers, Newest(list, p) # <<>>
  PROVE  /\ Len(Newest(list, p)) = 1
         /\ \E i \in DOMAIN list : IsOurs(list[i], p) /\ Newest(list, p)[1] = list[i]
<1> DEFINE reach == IF Len(list) < PageLimit THEN Len(list) ELSE PageLimit
           ours == {i \in DOMAIN Listed(list) : IsOurs(list[i], p)}
           last == CHOOSE i \in ours : \A j \in ours : j <= i
<1>1. DOMAIN list = 1 .. Len(list) /\ Len(list) \in Nat /\ reach \in 0 .. Len(list)
  BY LenProperties, PublisherAssumption
<1>2. DOMAIN Listed(list) = 1 .. reach
  <2>1. \A i \in 1 .. reach : list[i] \in Comments
    BY <1>1, ElementOfSeq
  <2>2. Listed(list) \in Seq(Comments) /\ Len(Listed(list)) = reach
    BY <1>1, <2>1, SubSeqProperties DEF Listed
  <2> QED
    BY <2>2, LenProperties
<1>3. ours # {} /\ Newest(list, p) = <<list[last]>>
  BY DEF Newest
<1>4. ours \in SUBSET (1 .. reach)
  BY <1>2
<1>5. last \in ours
  <2> HIDE DEF ours
  <2>1. reach \in Nat
    BY <1>1
  <2>2. \E i \in ours : \A j \in ours : j <= i
    BY <1>3, <1>4, <2>1, GreatestExists
  <2> QED
    BY <2>2
<1>6. last \in DOMAIN list /\ IsOurs(list[last], p)
  <2>1. \A i \in ours : IsOurs(list[i], p)
    OBVIOUS
  <2> HIDE DEF ours, last
  <2> QED
    BY <1>1, <1>4, <1>5, <2>1
<1> HIDE DEF last
<1> QED
  BY <1>3, <1>6

-----------------------------------------------------------------------------
(* Lists of comments *)

LEMMA LeastExists ==
  ASSUME NEW T \in SUBSET Nat, T # {}
  PROVE  \E i \in T : \A j \in T : i <= j
<1> DEFINE R == OpToRel(<, Nat)
<1>1. PICK x \in T : \A y \in T : ~ (<<y, x>> \in R)
  <2> HIDE DEF R
  <2>1. IsWellFoundedOn(R, Nat)
    BY NatLessThanWellFounded DEF R
  <2> QED
    BY <2>1, WFMin
<1>2. ASSUME NEW y \in T PROVE x <= y
  <2>1. <<y, x>> \in Nat \X Nat /\ ~ (<<y, x>> \in R)
    BY <1>1
  <2> QED
    BY <2>1 DEF OpToRel
<1> QED
  BY <1>2

\* The rest of a listing from the next comment of ours.
LEMMA RestOfListing ==
  ASSUME NEW list \in Seq(Comments), NEW p \in Publishers
  PROVE  \/ FromOurs(list, p) = <<>> /\ \A i \in DOMAIN list : ~ IsOurs(list[i], p)
         \/ \E k \in 1 .. Len(list) :
               /\ FromOurs(list, p) \in Seq(Comments)
               /\ Len(FromOurs(list, p)) = Len(list) - k + 1
               /\ \A i \in 1 .. Len(list) - k + 1 : FromOurs(list, p)[i] = list[k + i - 1]
               /\ IsOurs(list[k], p)
               /\ \A j \in DOMAIN list : IsOurs(list[j], p) => k <= j
<1> DEFINE ours == {i \in DOMAIN list : IsOurs(list[i], p)}
           k == CHOOSE i \in ours : \A j \in ours : i <= j
<1>1. DOMAIN list = 1 .. Len(list) /\ Len(list) \in Nat
      /\ \A i \in 1 .. Len(list) : list[i] \in Comments
  BY LenProperties, ElementOfSeq
<1>2. CASE ours = {}
  BY <1>2 DEF FromOurs
<1>3. CASE ours # {}
  <2>1. FromOurs(list, p) = SubSeq(list, k, Len(list))
    BY <1>3 DEF FromOurs
  <2>2. k \in ours /\ \A j \in ours : k <= j
    <3> HIDE DEF ours
    <3>1. ours \in SUBSET Nat
      BY <1>1 DEF ours
    <3> QED
      BY <1>3, <3>1, LeastExists
  <2> HIDE DEF k
  <2>3. k \in 1 .. Len(list) /\ IsOurs(list[k], p)
    BY <1>1, <2>2
  <2>4. /\ SubSeq(list, k, Len(list)) \in Seq(Comments)
        /\ Len(SubSeq(list, k, Len(list))) = Len(list) - k + 1
        /\ \A i \in 1 .. Len(list) - k + 1 : SubSeq(list, k, Len(list))[i] = list[k + i - 1]
    <3>1. \A i \in k .. Len(list) : list[i] \in Comments
      BY <1>1, <2>3
    <3>2. k \in Int /\ Len(list) \in Int
      BY <1>1, <2>3
    <3> QED
      BY <1>1, <2>3, <3>1, <3>2, SubSeqProperties
  <2> QED
    BY <2>1, <2>2, <2>3, <2>4
<1> QED
  BY <1>2, <1>3

\* What is left when the comment at one place is deleted.
LEMMA RestOfList ==
  ASSUME NEW list \in Seq(Comments), NEW k \in DOMAIN list
  PROVE  /\ RemoveAt(list, k) \in Seq(Comments)
         /\ Len(RemoveAt(list, k)) = Len(list) - 1
         /\ \A i \in 1 .. Len(list) - 1 :
               RemoveAt(list, k)[i] = IF i < k THEN list[i] ELSE list[i + 1]
<1> DEFINE before == SubSeq(list, 1, k - 1)
           after == SubSeq(list, k + 1, Len(list))
<1>1. k \in 1 .. Len(list) /\ Len(list) \in Nat
      /\ \A i \in 1 .. Len(list) : list[i] \in Comments
  BY LenProperties, ElementOfSeq
<1>2. /\ before \in Seq(Comments) /\ Len(before) = k - 1
      /\ \A i \in 1 .. k - 1 : before[i] = list[i]
  <2>1. \A i \in 1 .. k - 1 : list[i] \in Comments
    BY <1>1
  <2>2. 1 \in Int /\ k - 1 \in Int
    BY <1>1
  <2> QED
    BY <1>1, <2>1, <2>2, SubSeqProperties
<1>3. /\ after \in Seq(Comments) /\ Len(after) = Len(list) - k
      /\ \A i \in 1 .. Len(list) - k : after[i] = list[k + i]
  <2>1. \A i \in k + 1 .. Len(list) : list[i] \in Comments
    BY <1>1
  <2>2. k + 1 \in Int /\ Len(list) \in Int
    BY <1>1
  <2> QED
    BY <1>1, <2>1, <2>2, SubSeqProperties
<1>4. RemoveAt(list, k) = before \o after
  BY DEF RemoveAt
<1> HIDE DEF before, after
<1>5. /\ before \o after \in Seq(Comments)
      /\ Len(before \o after) = Len(list) - 1
      /\ \A i \in 1 .. Len(list) - 1 :
            (before \o after)[i] = IF i <= k - 1 THEN before[i] ELSE after[i - (k - 1)]
  <2>1. Len(before) + Len(after) = Len(list) - 1
    BY <1>1, <1>2, <1>3
  <2>2. /\ before \o after \in Seq(Comments)
        /\ Len(before \o after) = Len(before) + Len(after)
        /\ \A i \in 1 .. Len(before) + Len(after) :
              (before \o after)[i] =
                  IF i <= Len(before) THEN before[i] ELSE after[i - Len(before)]
    BY <1>2, <1>3, ConcatProperties
  <2> QED
    BY <1>2, <2>1, <2>2
<1>6. ASSUME NEW i \in 1 .. Len(list) - 1
      PROVE  (before \o after)[i] = IF i < k THEN list[i] ELSE list[i + 1]
  <2>1. CASE i < k
    <3>1. i \in 1 .. k - 1
      BY <1>1, <2>1
    <3> QED
      BY <1>1, <1>2, <1>5, <2>1, <3>1
  <2>2. CASE ~ (i < k)
    <3>1. i - (k - 1) \in 1 .. Len(list) - k /\ k + (i - (k - 1)) = i + 1 /\ ~ (i <= k - 1)
      BY <1>1, <2>2
    <3> QED
      BY <1>3, <1>5, <2>2, <3>1
  <2> QED
    BY <2>1, <2>2
<1> QED
  BY <1>4, <1>5, <1>6

\* A listing is the beginning of the list.
LEMMA ListingIsPrefix ==
  ASSUME NEW list \in Seq(Comments)
  PROVE  /\ Listed(list) \in Seq(Comments)
         /\ Len(Listed(list)) = IF Len(list) < PageLimit THEN Len(list) ELSE PageLimit
         /\ \A i \in DOMAIN Listed(list) : i \in DOMAIN list /\ Listed(list)[i] = list[i]
<1> DEFINE reach == IF Len(list) < PageLimit THEN Len(list) ELSE PageLimit
<1>1. DOMAIN list = 1 .. Len(list) /\ Len(list) \in Nat /\ reach \in 0 .. Len(list)
  BY LenProperties, PublisherAssumption
<1>2. \A i \in 1 .. reach : list[i] \in Comments
  BY <1>1, ElementOfSeq
<1>3. /\ Listed(list) \in Seq(Comments) /\ Len(Listed(list)) = reach
      /\ \A i \in 1 .. reach : Listed(list)[i] = list[i]
  BY <1>1, <1>2, SubSeqProperties DEF Listed
<1>4. DOMAIN Listed(list) = 1 .. reach
  BY <1>3, LenProperties
<1> QED
  BY <1>1, <1>3, <1>4

-----------------------------------------------------------------------------
(* Types *)

LEMMA ReviewIsList ==
  ASSUME TypeOK, NEW p \in Publishers
  PROVE  /\ NewReview(p) \in Seq(Comments) /\ Len(NewReview(p)) = findings[p]
         /\ findings[p] \in Nat
         /\ \A i \in 1 .. findings[p] : NewReview(p)[i] = NewComment(p, i)
<1>1. findings[p] \in Nat
  BY PublisherAssumption DEF TypeOK
<1>2. \A i \in 1 .. findings[p] : NewComment(p, i) \in Comments
  BY <1>1 DEF NewComment, Comments, Ids, Authors, TypeOK
<1>3. NewReview(p) \in [1 .. findings[p] -> Comments]
  BY <1>2 DEF NewReview
<1>4. NewReview(p) \in Seq(Comments)
  BY <1>1, <1>3, SeqDef
<1>5. Len(NewReview(p)) = findings[p]
  BY <1>1, <1>3, <1>4, LenProperties
<1> QED
  BY <1>1, <1>4, <1>5 DEF NewReview

LEMMA NewCommentTypes ==
  ASSUME TypeOK, NEW p \in Publishers
  PROVE  NewComment(p, 1) \in Comments
BY DEF NewComment, Comments, Ids, Authors, TypeOK

LEMMA PatchedTypes ==
  ASSUME TypeOK, NEW p \in Publishers
  PROVE  Patched(p) \in Seq(Comments)
<1>1. /\ DOMAIN summaries = 1 .. Len(summaries) /\ Len(summaries) \in Nat
      /\ \A i \in DOMAIN summaries : summaries[i] \in Comments
  BY LenProperties, ElementOfSeq DEF TypeOK
<1>2. scope[p] \in Scopes /\ p \in Authors
  BY DEF TypeOK, Authors
<1>3. \A i \in DOMAIN summaries : [summaries[i] EXCEPT !.by = p, !.scope = scope[p]] \in Comments
  BY <1>1, <1>2 DEF Comments
<1>4. Patched(p) \in [1 .. Len(summaries) -> Comments]
  BY <1>1, <1>3 DEF Patched
<1> QED
  BY <1>1, <1>4, SeqDef

LEMMA DeletedTypes ==
  ASSUME TypeOK, NEW p \in Publishers, PlacesIn(inline, p) # {}
  PROVE  Deleted(p) \in Seq(Comments)
<1>1. (CHOOSE i \in PlacesIn(inline, p) : TRUE) \in DOMAIN inline
  BY DEF PlacesIn
<1> QED
  BY <1>1, RestOfList DEF Deleted, TypeOK

LEMMA FromOursTypes ==
  ASSUME NEW list \in Seq(Comments), NEW p \in Publishers
  PROVE  FromOurs(list, p) \in Seq(Comments)
BY RestOfListing, EmptySeq

LEMMA NewestTypes ==
  ASSUME NEW list \in Seq(Comments), NEW p \in Publishers
  PROVE  Newest(list, p) \in Seq(Comments)
<1>1. CASE Newest(list, p) = <<>>
  BY <1>1, EmptySeq
<1>2. CASE Newest(list, p) # <<>>
  <2>1. PICK i \in DOMAIN list : Newest(list, p)[1] = list[i]
    BY <1>2, NewestIsOurs
  <2>2. Newest(list, p) = <<Newest(list, p)[1]>>
    BY <1>2 DEF Newest
  <2>3. list[i] \in Comments
    BY LenProperties, ElementOfSeq
  <2>4. \A comment \in Comments : <<comment>> \in Seq(Comments)
    OBVIOUS
  <2>5. Newest(list, p)[1] \in Comments
    BY <2>1, <2>3
  <2> HIDE DEF Newest
  <2> QED
    BY <2>2, <2>4, <2>5
<1> QED
  BY <1>1, <1>2

\* What the calls of a publisher may make of the lists, answered or not.
CallTypes(p) ==
    /\ inline' \in {inline, inline \o NewReview(p)}
                     \cup {x \in {Deleted(p)} : PlacesIn(inline, p) # {}}
    /\ summaries' \in {summaries, Patched(p), Append(summaries, NewComment(p, 1))}

LEMMA ListTypes ==
  ASSUME TypeOK, NEW p \in Publishers, CallTypes(p)
  PROVE  inline' \in Seq(Comments) /\ summaries' \in Seq(Comments)
<1>1. inline' \in Seq(Comments)
  <2>1. inline \o NewReview(p) \in Seq(Comments)
    BY ReviewIsList, ConcatProperties DEF TypeOK
  <2> QED
    BY <2>1, DeletedTypes DEF CallTypes, TypeOK
<1>2. summaries' \in Seq(Comments)
  <2>1. Append(summaries, NewComment(p, 1)) \in Seq(Comments)
    BY NewCommentTypes, AppendProperties DEF TypeOK
  <2> QED
    BY <2>1, PatchedTypes DEF CallTypes, TypeOK
<1> QED
  BY <1>1, <1>2

\* The types of a publisher's own state after one of its steps.
OwnTypes(p) ==
    /\ files' \in {files, files \cup {p}}
    /\ UNCHANGED <<mode, scope, findings>>
    /\ settled' \subseteq settled
    /\ latest' \subseteq latest \cup {p}
    /\ \E step \in Steps : pc' = [pc EXCEPT ![p] = step]
    /\ \E rest \in Seq(Comments) : found' = [found EXCEPT ![p] = rest]

LEMMA TypesKept ==
  ASSUME TypeOK, NEW p \in Publishers, CallTypes(p), OwnTypes(p)
  PROVE  TypeOK'
<1>1. inline' \in Seq(Comments) /\ summaries' \in Seq(Comments)
  BY ListTypes
<1>2. pc' \in [Publishers -> Steps] /\ found' \in [Publishers -> Seq(Comments)]
  BY DEF OwnTypes, TypeOK
<1> QED
  BY <1>1, <1>2 DEF OwnTypes, TypeOK

LEMMA SameTypes ==
  ASSUME TypeOK, NEW p \in Publishers
  PROVE  /\ pc[p] \in Steps /\ pc = [pc EXCEPT ![p] = pc[p]]
         /\ found[p] \in Seq(Comments) /\ found = [found EXCEPT ![p] = found[p]]
         /\ AfterCleanup(p) \in Steps /\ BeforeSummary \in Steps /\ AfterSummary \in Steps
         /\ Calling(p) => AfterError(p) \in Steps
BY DEF TypeOK, Steps, AfterCleanup, BeforeSummary, AfterSummary, AfterError, Calling, Busy

LEMMA StepTypes ==
  ASSUME TypeOK, NEW p \in Publishers, PublisherStep(p)
  PROVE  CallTypes(p) /\ OwnTypes(p)
<1> USE SameTypes DEF CallTypes, OwnTypes, Goto, github
<1>0. <<>> \in Seq(Comments) /\ {"write", "token", "list_inline", "delete", "post_summary",
        "patch", "check", "done", "failed"} \subseteq Steps
  BY EmptySeq DEF Steps
<1>1. CASE Start(p)
  <2>1. (CASE mode = "local" -> "write" [] mode = "github_app" -> "token"
           [] mode = "github" -> AfterCleanup(p)) \in Steps
    BY <1>0, PublisherAssumption DEF TypeOK
  <2> QED
    BY <1>1, <2>1 DEF Start
<1>2. CASE WriteFile(p) \/ WriteError(p) \/ GetToken(p) \/ CompleteCheckRun(p)
  BY <1>0, <1>2 DEF WriteFile, WriteError, GetToken, CompleteCheckRun
<1>3. CASE ListInline(p)
  <2>1. FromOurs(Listed(inline), p) \in Seq(Comments)
    BY ListingIsPrefix, FromOursTypes DEF TypeOK
  <2> QED
    BY <1>0, <1>3, <2>1 DEF ListInline
<1>4. CASE DeleteInline(p)
  <2>1. Tail(found[p]) \in Seq(Comments)
    BY <1>4, HeadTailProperties DEF DeleteInline
  <2>2. FromOurs(Tail(found[p]), p) \in Seq(Comments)
    BY <2>1, FromOursTypes
  <2>3. found' = [found EXCEPT ![p] = FromOurs(Tail(found[p]), p)]
    BY <1>4 DEF DeleteInline, TypeOK
  <2> QED
    BY <1>4, <2>2, <2>3 DEF DeleteInline
<1>5. CASE DeleteGone(p) \/ EndCleanup(p) \/ PostInline(p)
  BY <1>0, <1>5 DEF DeleteGone, EndCleanup, PostInline
<1>6. CASE ListSummary(p)
  <2>1. Newest(summaries, p) \in Seq(Comments)
    BY NewestTypes DEF TypeOK
  <2> QED
    BY <1>0, <1>6, <2>1 DEF ListSummary
<1>7. CASE PatchSummary(p) \/ PostSummary(p)
  BY <1>0, <1>7 DEF PatchSummary, PostSummary
<1>8. CASE CaughtError(p) \/ NoAnswer(p)
  BY <1>0, <1>8 DEF CaughtError, NoAnswer, EffectOfCall
<1> QED
  BY <1>1, <1>2, <1>3, <1>4, <1>5, <1>6, <1>7, <1>8 DEF PublisherStep

LEMMA ForeignTypes ==
  ASSUME TypeOK, NEW s \in Scopes, ForeignComment(s)
  PROVE  TypeOK'
<1> DEFINE new(list) == [id |-> <<Nobody, Len(list) + 1>>, scope |-> s, by |-> Nobody]
<1>1. ASSUME NEW list \in Seq(Comments) PROVE Append(list, new(list)) \in Seq(Comments)
  <2>1. Len(list) + 1 \in Nat
    BY LenProperties
  <2>2. new(list) \in Comments
    BY <2>1 DEF Comments, Ids, Authors
  <2> QED
    BY <2>2, AppendProperties
<1>2. /\ UNCHANGED <<files, mode, scope, findings, pc, found, settled, latest>>
      /\ inline' \in {inline, Append(inline, new(inline))}
      /\ summaries' \in {summaries, Append(summaries, new(summaries))}
  BY DEF ForeignComment
<1> QED
  BY <1>1, <1>2 DEF TypeOK

LEMMA TypesInit == Init => TypeOK
BY EmptySeq DEF Init, TypeOK, Steps

LEMMA TypesNext == TypeOK /\ [Next]_vars => TypeOK'
<1> SUFFICES ASSUME TypeOK, [Next]_vars PROVE TypeOK'
  OBVIOUS
<1>1. ASSUME NEW p \in Publishers, PublisherStep(p) PROVE TypeOK'
  BY <1>1, StepTypes, TypesKept
<1>2. ASSUME NEW s \in Scopes, ForeignComment(s) PROVE TypeOK'
  BY <1>2, ForeignTypes
<1>3. CASE UNCHANGED vars
  BY <1>3 DEF vars, github, TypeOK
<1> QED
  BY <1>1, <1>2, <1>3 DEF Next

\* Whatever people write, whoever overlaps and whichever calls fail, every comment on the
\* pull request carries the marker of a scope and the name of its author, and every
\* publisher is at a step of publish with comments of a listing in hand (publisher.py,
\* publish and _post_pull_review).
THEOREM CommentsMarked == Spec => []TypeOK
BY TypesInit, TypesNext, PTL DEF Spec

-----------------------------------------------------------------------------
(* The invariant *)

\* The types of what the success of a publication depends on.
PublisherTypes ==
    /\ summaries \in Seq(Comments)
    /\ files \subseteq Publishers
    /\ mode \in Modes
    /\ scope \in [Publishers -> Scopes]
    /\ pc \in [Publishers -> Steps]
    /\ DOMAIN found = Publishers

\* A summary keeps the scope of the publisher that created it, whoever updates it.
ScopeOfCreator ==
    \A i \in DOMAIN summaries : Own(summaries[i]) =>
        summaries[i].scope = scope[summaries[i].id[1]]

\* The summary a publisher is about to update is on the pull request.
FoundIsThere(p) ==
    pc[p] = "patch" =>
        /\ found[p] # <<>>
        /\ \E i \in SummariesOf(scope[p]) : summaries[i].id = Head(found[p]).id

\* Only the local publisher writes a file, and it does nothing else.
ModeFollowed(p) ==
    /\ pc[p] = "write" => mode = "local"
    /\ pc[p] \notin {"idle", "write", "done", "failed"} => mode # "local"

Visible(p) ==
    pc[p] \in {"check", "done"} =>
        IF mode = "local" THEN p \in files ELSE SummariesOf(scope[p]) # {}

Sound(p) == FoundIsThere(p) /\ ModeFollowed(p) /\ Visible(p)

IInv ==
    /\ PublisherTypes
    /\ ScopeOfCreator
    /\ \A p \in Publishers : Sound(p)

\* What a step does to the summaries: none goes, one may be added or updated.
SummariesKept ==
    /\ summaries' \in Seq(Comments)
    /\ \A i \in DOMAIN summaries :
          /\ i \in DOMAIN summaries'
          /\ summaries'[i].id = summaries[i].id
          /\ Own(summaries[i]) => summaries'[i].scope = summaries[i].scope

LEMMA Kept ==
  ASSUME IInv, scope' = scope, SummariesKept
  PROVE  \A s : SummariesOf(s) \subseteq SummariesOf(s)'
         /\ \A i \in SummariesOf(s) : summaries'[i].id = summaries[i].id
BY DEF SummariesKept, SummariesOf, Own

\* A summary that is added has the scope of its creator.
LEMMA Appended ==
  ASSUME IInv, NEW new \in Comments, summaries' = Append(summaries, new), scope' = scope,
         Own(new) => new.scope = scope[new.id[1]]
  PROVE  /\ SummariesKept /\ ScopeOfCreator'
         /\ Own(new) => SummariesOf(new.scope)' # {}
<1>1. /\ summaries' \in Seq(Comments) /\ Len(summaries') = Len(summaries) + 1
      /\ Len(summaries) \in Nat
      /\ DOMAIN summaries = 1 .. Len(summaries) /\ DOMAIN summaries' = 1 .. Len(summaries) + 1
      /\ \A i \in 1 .. Len(summaries) : summaries'[i] = summaries[i]
      /\ summaries'[Len(summaries) + 1] = new
  BY AppendProperties, LenProperties DEF IInv, PublisherTypes
<1>2. SummariesKept
  BY <1>1 DEF SummariesKept
<1>3. ScopeOfCreator'
  BY <1>1 DEF IInv, ScopeOfCreator, Own
<1>4. Own(new) => SummariesOf(new.scope)' # {}
  <2>1. Len(summaries) + 1 \in DOMAIN summaries'
    BY <1>1
  <2> QED
    BY <1>1, <2>1 DEF SummariesOf, Own
<1> QED
  BY <1>2, <1>3, <1>4

LEMMA Posted ==
  ASSUME IInv, NEW p \in Publishers, summaries' = Append(summaries, NewComment(p, 1)),
         scope' = scope
  PROVE  SummariesKept /\ ScopeOfCreator' /\ SummariesOf(scope[p])' # {}
<1>1. NewComment(p, 1) \in Comments
  BY DEF NewComment, Comments, Ids, Authors, IInv, PublisherTypes
<1>2. Own(NewComment(p, 1))
  BY PublisherAssumption DEF Own, NewComment
<1>3. NewComment(p, 1).scope = scope[p] /\ NewComment(p, 1).id[1] = p
  BY DEF NewComment
<1> QED
  BY <1>1, <1>2, <1>3, Appended

\* An update leaves the scope of the summary as it is: it was the publisher's.
LEMMA Updated ==
  ASSUME IInv, NEW p \in Publishers, pc[p] = "patch", summaries' = Patched(p), scope' = scope
  PROVE  SummariesKept /\ ScopeOfCreator'
<1>1. PICK k \in SummariesOf(scope[p]) : summaries[k].id = Head(found[p]).id
  BY DEF IInv, Sound, FoundIsThere
<1>2. /\ scope[p] \in Scopes /\ p \in Authors
      /\ DOMAIN summaries = 1 .. Len(summaries) /\ Len(summaries) \in Nat
      /\ \A i \in DOMAIN summaries : summaries[i] \in Comments
  BY LenProperties, ElementOfSeq DEF IInv, PublisherTypes, Authors
<1>3. \A i \in DOMAIN summaries : summaries[i].id = Head(found[p]).id =>
          Own(summaries[i]) /\ summaries[i].scope = scope[p]
  BY <1>1 DEF IInv, ScopeOfCreator, SummariesOf, Own
<1>4. /\ DOMAIN summaries' = DOMAIN summaries
      /\ \A i \in DOMAIN summaries :
            /\ summaries'[i] \in Comments
            /\ summaries'[i].id = summaries[i].id
            /\ summaries'[i].scope = summaries[i].scope
  <2> SUFFICES ASSUME NEW i \in DOMAIN summaries
               PROVE  /\ summaries'[i] \in Comments
                      /\ summaries'[i].id = summaries[i].id
                      /\ summaries'[i].scope = summaries[i].scope
    BY DEF Patched
  <2>1. CASE summaries[i].id = Head(found[p]).id
    <3>1. summaries'[i] = [summaries[i] EXCEPT !.by = p, !.scope = scope[p]]
      BY <2>1 DEF Patched, PlacesIn
    <3> QED
      BY <1>2, <1>3, <2>1, <3>1 DEF Comments
  <2>2. CASE summaries[i].id # Head(found[p]).id
    BY <1>2, <2>2 DEF Patched, PlacesIn
  <2> QED
    BY <2>1, <2>2
<1>5. summaries' \in Seq(Comments)
  <2>1. summaries' \in [1 .. Len(summaries) -> Comments]
    BY <1>2, <1>4 DEF Patched
  <2> QED
    BY <1>2, <2>1, SeqDef
<1> QED
  BY <1>4, <1>5 DEF SummariesKept, ScopeOfCreator, IInv, Own

-----------------------------------------------------------------------------
(* Steps *)

\* What is true of a publisher stays true when it does nothing.
LEMMA OtherSound ==
  ASSUME IInv, SummariesKept, UNCHANGED <<mode, scope>>, files \subseteq files',
         NEW q \in Publishers, pc'[q] = pc[q], found'[q] = found[q]
  PROVE  Sound(q)'
<1>1. Sound(q) /\ SummariesOf(scope[q]) \subseteq SummariesOf(scope[q])'
      /\ \A i \in SummariesOf(scope[q]) : summaries'[i].id = summaries[i].id
  BY Kept DEF IInv
<1>2. FoundIsThere(q)'
  BY <1>1 DEF Sound, FoundIsThere
<1>3. ModeFollowed(q)'
  BY <1>1 DEF Sound, ModeFollowed
<1>4. Visible(q)'
  BY <1>1 DEF Sound, Visible
<1> QED
  BY <1>2, <1>3, <1>4 DEF Sound

\* What remains to be shown of a step of a publisher.
LEMMA StepInv ==
  ASSUME IInv, NEW p \in Publishers,
         SummariesKept, ScopeOfCreator', UNCHANGED <<mode, scope>>,
         files \subseteq files', files' \subseteq Publishers,
         pc' \in [Publishers -> Steps], DOMAIN found' = Publishers,
         \A q \in Publishers \ {p} : pc'[q] = pc[q] /\ found'[q] = found[q],
         Sound(p)'
  PROVE  IInv'
<1>1. PublisherTypes'
  BY DEF IInv, PublisherTypes, SummariesKept
<1>2. ASSUME NEW q \in Publishers PROVE Sound(q)'
  <2>1. CASE q = p
    BY <2>1
  <2>2. CASE q # p
    BY <2>2, OtherSound
  <2> QED
    BY <2>1, <2>2
<1> QED
  BY <1>1, <1>2 DEF IInv

\* Most steps leave the summaries alone.
LEMMA NothingPosted ==
  ASSUME IInv, UNCHANGED <<summaries, scope>>
  PROVE  SummariesKept /\ ScopeOfCreator'
BY DEF IInv, PublisherTypes, SummariesKept, ScopeOfCreator, Own

LEMMA InitInv == Init => IInv
<1> SUFFICES ASSUME Init PROVE IInv
  OBVIOUS
<1>1. PublisherTypes
  BY EmptySeq DEF Init, PublisherTypes, Steps
<1>2. ScopeOfCreator
  BY DEF Init, ScopeOfCreator
<1>3. \A p \in Publishers : Sound(p)
  BY DEF Init, Sound, FoundIsThere, ModeFollowed, Visible
<1> QED
  BY <1>1, <1>2, <1>3 DEF IInv

\* A publisher that calls nothing that changes a summary, and goes on.
LEMMA QuietStep ==
  ASSUME IInv, NEW p \in Publishers,
         \/ Start(p) \/ GetToken(p) \/ ListInline(p) \/ DeleteInline(p) \/ DeleteGone(p)
         \/ EndCleanup(p) \/ PostInline(p)
  PROVE  IInv'
<1> USE DEF Start, GetToken, ListInline, DeleteInline, DeleteGone, EndCleanup, PostInline, Goto,
            github, AfterCleanup, BeforeSummary
<1>1. /\ UNCHANGED <<summaries, files, mode, scope>>
      /\ pc[p] \notin {"write", "patch", "check", "done", "failed"}
      /\ pc' \in [Publishers -> Steps] /\ DOMAIN found' = Publishers
      /\ \A q \in Publishers \ {p} : pc'[q] = pc[q] /\ found'[q] = found[q]
      /\ pc'[p] \notin {"patch", "check", "done"}
  BY PublisherAssumption DEF IInv, PublisherTypes, Steps
<1>2. ModeFollowed(p)'
  BY <1>1, PublisherAssumption DEF IInv, PublisherTypes, Sound, ModeFollowed
<1>3. Sound(p)'
  BY <1>1, <1>2 DEF Sound, FoundIsThere, Visible
<1> HIDE DEF Start, GetToken, ListInline, DeleteInline, DeleteGone, EndCleanup, PostInline, Goto,
             github, AfterCleanup, BeforeSummary
<1>4. SummariesKept /\ ScopeOfCreator'
  BY <1>1, NothingPosted
<1>5. files' \subseteq Publishers
  BY <1>1 DEF IInv, PublisherTypes
<1> QED
  BY <1>1, <1>3, <1>4, <1>5, StepInv

LEMMA SummaryStep ==
  ASSUME IInv, NEW p \in Publishers, ListSummary(p) \/ PatchSummary(p) \/ PostSummary(p)
  PROVE  IInv'
<1> USE DEF ListSummary, PatchSummary, PostSummary, Goto, github, AfterSummary
<1>1. /\ UNCHANGED <<files, mode, scope>> /\ mode # "local"
      /\ pc' \in [Publishers -> Steps] /\ DOMAIN found' = Publishers
      /\ \A q \in Publishers \ {p} : pc'[q] = pc[q] /\ found'[q] = found[q]
  BY DEF IInv, PublisherTypes, Steps, Sound, ModeFollowed
<1>2. ModeFollowed(p)'
  <2>1. pc'[p] # "write"
    BY DEF IInv, PublisherTypes
  <2> QED
    BY <1>1, <2>1 DEF ModeFollowed
<1>3. SummariesKept /\ ScopeOfCreator'
  <2>1. CASE ListSummary(p)
    BY <2>1, NothingPosted
  <2>2. CASE PatchSummary(p)
    BY <2>2, Updated
  <2>3. CASE PostSummary(p)
    BY <2>3, Posted
  <2> QED
    BY <2>1, <2>2, <2>3
<1>4. FoundIsThere(p)'
  <2>1. CASE ListSummary(p)
    <3> DEFINE newest == Newest(summaries, p)
    <3>1. found'[p] = newest /\ UNCHANGED summaries
          /\ pc'[p] = IF newest = <<>> THEN "post_summary" ELSE "patch"
      BY <2>1 DEF IInv, PublisherTypes
    <3>2. newest # <<>> =>
            /\ Len(newest) = 1
            /\ \E i \in DOMAIN summaries : IsOurs(summaries[i], p) /\ newest[1] = summaries[i]
      BY NewestIsOurs DEF IInv, PublisherTypes
    <3> HIDE DEF newest
    <3>3. newest # <<>> => \E i \in SummariesOf(scope[p]) : summaries[i].id = Head(newest).id
      BY <3>2 DEF SummariesOf, IsOurs
    <3>4. SummariesOf(scope[p])' = SummariesOf(scope[p])
      BY <1>1, <3>1 DEF SummariesOf, Own
    <3> QED
      BY <1>1, <3>1, <3>3, <3>4 DEF FoundIsThere
  <2>2. CASE PatchSummary(p) \/ PostSummary(p)
    BY <2>2 DEF FoundIsThere, IInv, PublisherTypes
  <2> QED
    BY <2>1, <2>2
<1>5. Visible(p)'
  <2>1. CASE ListSummary(p)
    BY <2>1 DEF Visible, IInv, PublisherTypes
  <2>2. CASE PatchSummary(p)
    <3>1. SummariesOf(scope[p]) # {}
      BY <2>2 DEF IInv, Sound, FoundIsThere
    <3>2. SummariesOf(scope[p])' # {}
      BY <1>1, <1>3, <3>1, Kept
    <3> QED
      BY <1>1, <3>2 DEF Visible
  <2>3. CASE PostSummary(p)
    <3>1. SummariesOf(scope[p])' # {}
      BY <1>1, <2>3, Posted
    <3> QED
      BY <1>1, <3>1 DEF Visible
  <2> QED
    BY <2>1, <2>2, <2>3
<1>6. files' \subseteq Publishers
  BY <1>1 DEF IInv, PublisherTypes
<1> HIDE DEF ListSummary, PatchSummary, PostSummary, Goto, github, AfterSummary
<1> QED
  BY <1>1, <1>2, <1>3, <1>4, <1>5, <1>6, StepInv DEF Sound

LEMMA EndStep ==
  ASSUME IInv, NEW p \in Publishers, WriteFile(p) \/ WriteError(p) \/ CompleteCheckRun(p)
  PROVE  IInv'
<1> USE DEF WriteFile, WriteError, CompleteCheckRun, Goto, github
<1>1. /\ UNCHANGED <<summaries, mode, scope>>
      /\ files \subseteq files' /\ files' \subseteq Publishers
      /\ pc' \in [Publishers -> Steps] /\ DOMAIN found' = Publishers
      /\ \A q \in Publishers \ {p} : pc'[q] = pc[q] /\ found'[q] = found[q]
      /\ pc'[p] \in {"done", "failed"}
  BY DEF IInv, PublisherTypes, Steps
<1>2. SummariesKept /\ ScopeOfCreator'
  BY <1>1, NothingPosted
<1>3. Visible(p)'
  <2>1. CASE WriteFile(p) \/ WriteError(p)
    BY <2>1 DEF IInv, Sound, ModeFollowed, Visible, PublisherTypes
  <2>2. CASE CompleteCheckRun(p)
    <3>1. mode # "local" /\ SummariesOf(scope[p]) # {}
      BY <2>2 DEF IInv, Sound, ModeFollowed, Visible
    <3>2. SummariesOf(scope[p])' # {}
      BY <1>1, <1>2, <3>1, Kept
    <3> QED
      BY <1>1, <3>1, <3>2 DEF Visible
  <2> QED
    BY <2>1, <2>2
<1>4. Sound(p)'
  BY <1>1, <1>3 DEF Sound, FoundIsThere, ModeFollowed
<1> HIDE DEF WriteFile, WriteError, CompleteCheckRun, Goto, github
<1> QED
  BY <1>1, <1>2, <1>4, StepInv

\* A call that fails, whether or not GitHub has carried it out.
LEMMA ErrorStep ==
  ASSUME IInv, NEW p \in Publishers, CaughtError(p) \/ NoAnswer(p)
  PROVE  IInv'
<1> USE DEF CaughtError, NoAnswer, Goto
<1>1. /\ UNCHANGED <<files, mode, scope>> /\ Calling(p)
      /\ DOMAIN found' = Publishers
      /\ \A q \in Publishers \ {p} : pc'[q] = pc[q] /\ found'[q] = found[q]
      /\ \/ pc' = [pc EXCEPT ![p] = AfterError(p)]
         \/ pc' = [pc EXCEPT ![p] = "failed"]
  BY DEF EffectOfCall, IInv, PublisherTypes
<1>2. AfterError(p) \in Steps \ {"idle", "write", "patch", "check", "done"}
  BY <1>1 DEF AfterError, AfterCleanup, BeforeSummary, Calling, Busy, IInv, PublisherTypes, Steps
<1>3. /\ pc' \in [Publishers -> Steps]
      /\ pc'[p] \in Steps \ {"idle", "write", "patch", "check", "done"}
  BY <1>1, <1>2 DEF IInv, PublisherTypes, Steps
<1>4. mode # "local"
  BY <1>1 DEF Calling, Busy, IInv, Sound, ModeFollowed
<1>5. Sound(p)'
  BY <1>1, <1>3, <1>4 DEF Sound, FoundIsThere, ModeFollowed, Visible
<1>6. SummariesKept /\ ScopeOfCreator'
  <2>1. \/ UNCHANGED summaries
        \/ pc[p] = "patch" /\ summaries' = Patched(p)
        \/ summaries' = Append(summaries, NewComment(p, 1))
    BY DEF EffectOfCall
  <2> QED
    BY <1>1, <2>1, NothingPosted, Updated, Posted
<1>7. files' \subseteq Publishers
  BY <1>1 DEF IInv, PublisherTypes
<1> HIDE DEF CaughtError, NoAnswer, Goto
<1> QED
  BY <1>1, <1>3, <1>5, <1>6, <1>7, StepInv

LEMMA ForeignStep ==
  ASSUME IInv, NEW s \in Scopes, ForeignComment(s)
  PROVE  IInv'
<1>1. /\ UNCHANGED <<files, mode, scope, findings, pc, found, settled, latest>>
      /\ \/ UNCHANGED summaries
         \/ summaries' = Append(summaries,
                [id |-> <<Nobody, Len(summaries) + 1>>, scope |-> s, by |-> Nobody])
  BY DEF ForeignComment
<1>2. [id |-> <<Nobody, Len(summaries) + 1>>, scope |-> s, by |-> Nobody] \in Comments
  BY LenProperties DEF Comments, Ids, Authors, IInv, PublisherTypes
<1>3. ~ Own([id |-> <<Nobody, Len(summaries) + 1>>, scope |-> s, by |-> Nobody])
  BY DEF Own
<1>4. SummariesKept /\ ScopeOfCreator'
  BY <1>1, <1>2, <1>3, NothingPosted, Appended
<1>5. PublisherTypes'
  BY <1>1, <1>4 DEF IInv, PublisherTypes, SummariesKept
<1>6. ASSUME NEW q \in Publishers PROVE Sound(q)'
  BY <1>1, <1>4, OtherSound
<1> QED
  BY <1>4, <1>5, <1>6 DEF IInv

LEMMA NextInv == IInv /\ [Next]_vars => IInv'
<1> SUFFICES ASSUME IInv, [Next]_vars PROVE IInv'
  OBVIOUS
<1>1. ASSUME NEW p \in Publishers, PublisherStep(p) PROVE IInv'
  BY <1>1, QuietStep, SummaryStep, EndStep, ErrorStep DEF PublisherStep
<1>2. ASSUME NEW s \in Scopes, ForeignComment(s) PROVE IInv'
  BY <1>2, ForeignStep
<1>3. CASE UNCHANGED vars
  <2> USE <1>3 DEF vars, github
  <2>1. SummariesKept /\ ScopeOfCreator'
    BY NothingPosted
  <2>2. PublisherTypes'
    BY DEF IInv, PublisherTypes
  <2>3. ASSUME NEW q \in Publishers PROVE Sound(q)'
    BY <2>1, OtherSound
  <2> QED
    BY <2>1, <2>2, <2>3 DEF IInv
<1> QED
  BY <1>1, <1>2, <1>3 DEF Next

\* A check run is only completed as a success when a summary of the publisher's scope is
\* on the pull request, and a local publisher only returns with its file written: for
\* any publishers, however they overlap, whatever people write and whichever calls fail
\* (publisher.py, the order of the calls in publish).
THEOREM SuccessShown == Spec => []SuccessIsVisible
<1>1. IInv => SuccessIsVisible
  BY DEF IInv, Sound, Visible, SuccessIsVisible
<1> QED
  BY InitInv, NextInv, <1>1, PTL DEF Spec
-----------------------------------------------------------------------------
(* Other people's comments *)

\* The marker of a comment of ours has the scope of the publisher that created it.
ScopesFit(list, scopes) ==
    \A i \in DOMAIN list : Own(list[i]) => list[i].scope = scopes[list[i].id[1]]

\* The comment a publisher is about to delete or to update is one of its scope and ours.
NextIsOurs(p) == pc[p] \in {"delete", "patch"} /\ found[p] # <<>> => IsOurs(found[p][1], p)

MarkersInv ==
    /\ TypeOK
    /\ ScopesFit(inline, scope)
    /\ ScopesFit(summaries, scope)
    /\ \A p \in Publishers : ScopesFit(found[p], scope) /\ NextIsOurs(p)

\* One list has only comments of the other.
Part(rest, list) == \A i \in DOMAIN rest : \E j \in DOMAIN list : rest[i] = list[j]

LEMMA PartFits ==
  ASSUME NEW list, NEW rest, NEW scopes, ScopesFit(list, scopes), Part(rest, list)
  PROVE  ScopesFit(rest, scopes)
BY DEF ScopesFit, Part

LEMMA FromOursIsPart ==
  ASSUME NEW list \in Seq(Comments), NEW p \in Publishers
  PROVE  /\ Part(FromOurs(list, p), list)
         /\ FromOurs(list, p) # <<>> => IsOurs(FromOurs(list, p)[1], p)
         /\ Len(FromOurs(list, p)) <= Len(list)
<1>0. DOMAIN list = 1 .. Len(list) /\ Len(list) \in Nat
  BY LenProperties
<1>1. CASE FromOurs(list, p) = <<>>
  <2>1. Len(FromOurs(list, p)) = 0 /\ DOMAIN FromOurs(list, p) = {}
    BY <1>1, EmptySeq
  <2> QED
    BY <1>0, <1>1, <2>1 DEF Part
<1>2. CASE FromOurs(list, p) # <<>>
  <2> DEFINE rest == FromOurs(list, p)
  <2>1. PICK k \in 1 .. Len(list) :
           /\ rest \in Seq(Comments)
           /\ Len(rest) = Len(list) - k + 1
           /\ \A i \in 1 .. Len(list) - k + 1 : rest[i] = list[k + i - 1]
           /\ IsOurs(list[k], p)
    BY <1>2, RestOfListing
  <2> HIDE DEF rest
  <2>2. DOMAIN rest = 1 .. Len(list) - k + 1
    BY <2>1, LenProperties
  <2>3. rest[1] = list[k] /\ Len(rest) <= Len(list)
    BY <1>0, <2>1
  <2>4. \A i \in 1 .. Len(list) - k + 1 : k + i - 1 \in DOMAIN list
    BY <1>0
  <2>5. Part(rest, list)
    BY <2>1, <2>2, <2>4 DEF Part
  <2> QED
    BY <2>1, <2>3, <2>5 DEF rest
<1> QED
  BY <1>1, <1>2

LEMMA TailIsPart ==
  ASSUME NEW list \in Seq(Comments), list # <<>>
  PROVE  /\ Tail(list) \in Seq(Comments) /\ Part(Tail(list), list)
         /\ Len(Tail(list)) < Len(list) /\ Head(list) = list[1]
<1>1. DOMAIN list = 1 .. Len(list) /\ Len(list) \in Nat \ {0}
  BY LenProperties, EmptySeq
<1>2. /\ Tail(list) \in Seq(Comments) /\ Len(Tail(list)) = Len(list) - 1
      /\ \A i \in 1 .. Len(Tail(list)) : Tail(list)[i] = list[i + 1]
  BY HeadTailProperties
<1>3. DOMAIN Tail(list) = 1 .. Len(list) - 1
  BY <1>2, LenProperties
<1>4. \A i \in 1 .. Len(list) - 1 : i + 1 \in DOMAIN list
  BY <1>1
<1> QED
  BY <1>1, <1>2, <1>3, <1>4 DEF Part

\* A comment that is deleted has the id of the next one of ours, and the others stay.
LEMMA DeletedIsOurs ==
  ASSUME MarkersInv, NEW p \in Publishers, pc[p] = "delete", found[p] # <<>>,
         PlacesIn(inline, p) # {}
  PROVE  /\ Part(Deleted(p), inline)
         /\ \E k \in DOMAIN inline :
               /\ IsOurs(inline[k], p)
               /\ inline[k].id = found[p][1].id
               /\ \A i \in DOMAIN inline \ {k} :
                     \E j \in DOMAIN Deleted(p) : Deleted(p)[j] = inline[i]
               /\ \A j \in DOMAIN Deleted(p) :
                     \E i \in DOMAIN inline \ {k} : Deleted(p)[j] = inline[i]
<1> DEFINE k == CHOOSE i \in PlacesIn(inline, p) : TRUE
<1>1. k \in DOMAIN inline /\ inline[k].id = Head(found[p]).id
  BY DEF PlacesIn
<1>2. Deleted(p) = RemoveAt(inline, k)
  BY DEF Deleted
<1> HIDE DEF k
<1>3. /\ inline \in Seq(Comments) /\ DOMAIN inline = 1 .. Len(inline) /\ Len(inline) \in Nat
      /\ found[p] \in Seq(Comments)
  BY LenProperties DEF MarkersInv, TypeOK
<1>4. /\ Deleted(p) \in Seq(Comments) /\ Len(Deleted(p)) = Len(inline) - 1
      /\ \A i \in 1 .. Len(inline) - 1 :
            Deleted(p)[i] = IF i < k THEN inline[i] ELSE inline[i + 1]
  BY <1>1, <1>2, <1>3, RestOfList
<1>5. DOMAIN Deleted(p) = 1 .. Len(inline) - 1
  BY <1>4, LenProperties
<1>6. \A j \in DOMAIN Deleted(p) : \E i \in DOMAIN inline \ {k} : Deleted(p)[j] = inline[i]
  <2> SUFFICES ASSUME NEW j \in 1 .. Len(inline) - 1
               PROVE  \E i \in DOMAIN inline \ {k} : Deleted(p)[j] = inline[i]
    BY <1>5
  <2>1. CASE j < k
    BY <1>1, <1>3, <1>4, <2>1
  <2>2. CASE ~ (j < k)
    <3>1. j + 1 \in DOMAIN inline \ {k}
      BY <1>1, <1>3, <2>2
    <3> QED
      BY <1>4, <2>2, <3>1
  <2> QED
    BY <2>1, <2>2
<1>7. ASSUME NEW i \in DOMAIN inline \ {k}
      PROVE  \E j \in DOMAIN Deleted(p) : Deleted(p)[j] = inline[i]
  <2>1. CASE i < k
    <3>1. i \in 1 .. Len(inline) - 1
      BY <1>1, <1>3, <2>1
    <3> QED
      BY <1>4, <1>5, <2>1, <3>1
  <2>2. CASE ~ (i < k)
    <3>1. i - 1 \in 1 .. Len(inline) - 1 /\ ~ (i - 1 < k) /\ (i - 1) + 1 = i
      BY <1>1, <1>3, <2>2
    <3> QED
      BY <1>4, <1>5, <3>1
  <2> QED
    BY <2>1, <2>2
<1>8. IsOurs(inline[k], p)
  <2>1. Head(found[p]) = found[p][1] /\ IsOurs(found[p][1], p)
    BY <1>3, TailIsPart DEF MarkersInv, NextIsOurs
  <2>2. 1 \in DOMAIN found[p]
    BY <1>3, EmptySeq, LenProperties
  <2>3. found[p][1].scope = scope[found[p][1].id[1]]
    BY <2>1, <2>2 DEF MarkersInv, ScopesFit, IsOurs
  <2> QED
    BY <1>1, <2>1, <2>3 DEF MarkersInv, ScopesFit, IsOurs, Own
<1>9. inline[k].id = found[p][1].id
  BY <1>1, <1>3, TailIsPart
<1> QED
  BY <1>1, <1>6, <1>7, <1>8, <1>9 DEF Part

LEMMA ReviewAdded ==
  ASSUME TypeOK, NEW p \in Publishers
  PROVE  /\ \A i \in DOMAIN inline : i \in DOMAIN (inline \o NewReview(p))
                /\ (inline \o NewReview(p))[i] = inline[i]
         /\ \A i \in DOMAIN (inline \o NewReview(p)) :
               \/ i \in DOMAIN inline /\ (inline \o NewReview(p))[i] = inline[i]
               \/ \E k \in 1 .. findings[p] :
                     i = Len(inline) + k /\ (inline \o NewReview(p))[i] = NewComment(p, k)
         /\ \A k \in 1 .. findings[p] : \E i \in DOMAIN (inline \o NewReview(p)) :
               (inline \o NewReview(p))[i] = NewComment(p, k)
<1> DEFINE all == inline \o NewReview(p)
<1>1. /\ inline \in Seq(Comments) /\ DOMAIN inline = 1 .. Len(inline) /\ Len(inline) \in Nat
      /\ NewReview(p) \in Seq(Comments) /\ Len(NewReview(p)) = findings[p]
      /\ findings[p] \in Nat
      /\ \A i \in 1 .. findings[p] : NewReview(p)[i] = NewComment(p, i)
  BY ReviewIsList, LenProperties DEF TypeOK
<1>2. /\ all \in Seq(Comments) /\ Len(all) = Len(inline) + Len(NewReview(p))
      /\ \A i \in 1 .. Len(inline) + Len(NewReview(p)) :
            all[i] = IF i <= Len(inline) THEN inline[i] ELSE NewReview(p)[i - Len(inline)]
  BY <1>1, ConcatProperties
<1>3. DOMAIN all = 1 .. Len(inline) + findings[p]
  BY <1>1, <1>2, LenProperties
<1> HIDE DEF all
<1>4. ASSUME NEW i \in DOMAIN inline PROVE i \in DOMAIN all /\ all[i] = inline[i]
  BY <1>1, <1>2, <1>3
<1>5. ASSUME NEW i \in DOMAIN all, i \notin DOMAIN inline
      PROVE  \E k \in 1 .. findings[p] : i = Len(inline) + k /\ all[i] = NewComment(p, k)
  <2>1. i - Len(inline) \in 1 .. findings[p] /\ ~ (i <= Len(inline))
        /\ i = Len(inline) + (i - Len(inline))
    BY <1>1, <1>3, <1>5
  <2>2. all[i] = NewReview(p)[i - Len(inline)]
    BY <1>1, <1>2, <1>3, <2>1
  <2> QED
    BY <1>1, <2>1, <2>2
<1>6. ASSUME NEW k \in 1 .. findings[p] PROVE \E i \in DOMAIN all : all[i] = NewComment(p, k)
  <2>1. /\ Len(inline) + k \in DOMAIN all /\ ~ (Len(inline) + k <= Len(inline))
        /\ Len(inline) + k - Len(inline) = k
    BY <1>1, <1>3
  <2>2. all[Len(inline) + k] = NewReview(p)[k]
    BY <1>1, <1>2, <1>3, <2>1
  <2> QED
    BY <1>1, <2>1, <2>2
<1> QED
  BY <1>4, <1>5, <1>6 DEF all

\* What a call of a publisher does to the lists leaves them with fitting markers.
LEMMA ListsFit ==
  ASSUME MarkersInv, NEW p \in Publishers,
         \/ inline' \in {inline, inline \o NewReview(p)}
         \/ /\ inline' = Deleted(p)
            /\ pc[p] = "delete" /\ found[p] # <<>> /\ PlacesIn(inline, p) # {},
         \/ summaries' \in {summaries, Append(summaries, NewComment(p, 1))}
         \/ summaries' = Patched(p) /\ pc[p] = "patch" /\ found[p] # <<>>
  PROVE  ScopesFit(inline', scope) /\ ScopesFit(summaries', scope)
<1>1. NewComment(p, 1).scope = scope[p] /\ NewComment(p, 1).id[1] = p
  BY DEF NewComment
<1>2. ScopesFit(inline', scope)
  <2>1. CASE inline' = inline
    BY <2>1 DEF MarkersInv
  <2>2. CASE inline' = inline \o NewReview(p)
    <3>1. \A k \in 1 .. findings[p] :
             NewComment(p, k).scope = scope[p] /\ NewComment(p, k).id[1] = p
      BY DEF NewComment
    <3> QED
      BY <2>2, <3>1, ReviewAdded DEF MarkersInv, ScopesFit
  <2>3. CASE /\ inline' = Deleted(p)
             /\ pc[p] = "delete" /\ found[p] # <<>> /\ PlacesIn(inline, p) # {}
    BY <2>3, DeletedIsOurs, PartFits DEF MarkersInv
  <2> QED
    BY <2>1, <2>2, <2>3
<1>3. ScopesFit(summaries', scope)
  <2>0. DOMAIN summaries = 1 .. Len(summaries) /\ Len(summaries) \in Nat
    BY LenProperties DEF MarkersInv, TypeOK
  <2>1. CASE summaries' = summaries
    BY <2>1 DEF MarkersInv
  <2>2. CASE summaries' = Append(summaries, NewComment(p, 1))
    <3> DEFINE all == Append(summaries, NewComment(p, 1))
    <3>1. /\ all \in Seq(Comments) /\ Len(all) = Len(summaries) + 1
          /\ \A i \in 1 .. Len(summaries) : all[i] = summaries[i]
          /\ all[Len(summaries) + 1] = NewComment(p, 1)
      BY NewCommentTypes, AppendProperties DEF MarkersInv, TypeOK
    <3>2. DOMAIN all = 1 .. Len(summaries) + 1
      BY <3>1, LenProperties
    <3> HIDE DEF all
    <3>3. ScopesFit(all, scope)
      BY <1>1, <2>0, <3>1, <3>2 DEF MarkersInv, ScopesFit
    <3> QED
      BY <2>2, <3>3 DEF all
  <2>3. CASE summaries' = Patched(p) /\ pc[p] = "patch" /\ found[p] # <<>>
    <3>1. Head(found[p]) = found[p][1] /\ IsOurs(found[p][1], p) /\ 1 \in DOMAIN found[p]
      BY <2>3, TailIsPart, LenProperties, EmptySeq DEF MarkersInv, NextIsOurs, TypeOK
    <3>2. scope[found[p][1].id[1]] = scope[p]
      BY <3>1 DEF MarkersInv, ScopesFit, IsOurs
    <3>3. \A i \in DOMAIN summaries : summaries[i] \in Comments
      BY <2>0, ElementOfSeq DEF MarkersInv, TypeOK
    <3>4. ASSUME NEW i \in DOMAIN summaries, Own(Patched(p)[i])
          PROVE  Patched(p)[i].scope = scope[Patched(p)[i].id[1]]
      <4>1. CASE i \in PlacesIn(summaries, p)
        <5>1. Patched(p)[i] = [summaries[i] EXCEPT !.by = p, !.scope = scope[p]]
              /\ summaries[i].id = found[p][1].id
          BY <3>1, <4>1 DEF Patched, PlacesIn
        <5> QED
          BY <3>2, <3>3, <5>1 DEF Comments
      <4>2. CASE i \notin PlacesIn(summaries, p)
        <5>1. Patched(p)[i] = summaries[i]
          BY <4>2 DEF Patched
        <5> QED
          BY <3>4, <5>1 DEF MarkersInv, ScopesFit
      <4> QED
        BY <4>1, <4>2
    <3> QED
      BY <2>3, <3>4 DEF ScopesFit, Patched
  <2> QED
    BY <2>1, <2>2, <2>3
<1> QED
  BY <1>2, <1>3

\* What a publisher has in hand after its step.
LEMMA HandFits ==
  ASSUME MarkersInv, NEW p \in Publishers, PublisherStep(p)
  PROVE  /\ ScopesFit(found'[p], scope)
         /\ pc'[p] \in {"delete", "patch"} /\ found'[p] # <<>> => IsOurs(found'[p][1], p)
<1>0. /\ inline \in Seq(Comments) /\ summaries \in Seq(Comments) /\ found[p] \in Seq(Comments)
      /\ p \in DOMAIN found /\ p \in DOMAIN pc /\ pc[p] \in Steps
      /\ ScopesFit(inline, scope) /\ ScopesFit(summaries, scope) /\ ScopesFit(found[p], scope)
      /\ ScopesFit(<<>>, scope)
  BY EmptySeq DEF MarkersInv, TypeOK, ScopesFit
<1> USE DEF Goto
<1>1. CASE ListInline(p)
  <2>1. found'[p] = FromOurs(Listed(inline), p)
    BY <1>0, <1>1 DEF ListInline
  <2>2. Listed(inline) \in Seq(Comments) /\ Part(Listed(inline), inline)
    BY <1>0, ListingIsPrefix DEF Part
  <2>3. ScopesFit(Listed(inline), scope)
    BY <1>0, <2>2, PartFits
  <2> QED
    BY <2>1, <2>2, <2>3, FromOursIsPart, PartFits
<1>2. CASE DeleteInline(p)
  <2>1. found'[p] = FromOurs(Tail(found[p]), p) /\ found[p] # <<>>
    BY <1>0, <1>2 DEF DeleteInline
  <2>2. Tail(found[p]) \in Seq(Comments) /\ ScopesFit(Tail(found[p]), scope)
    BY <1>0, <2>1, TailIsPart, PartFits
  <2> QED
    BY <2>1, <2>2, FromOursIsPart, PartFits
<1>3. CASE ListSummary(p)
  <2>1. found'[p] = Newest(summaries, p)
    BY <1>0, <1>3 DEF ListSummary
  <2>2. CASE Newest(summaries, p) = <<>>
    BY <1>0, <2>1, <2>2
  <2>3. CASE Newest(summaries, p) # <<>>
    <3>1. /\ Len(Newest(summaries, p)) = 1
          /\ \E i \in DOMAIN summaries :
                IsOurs(summaries[i], p) /\ Newest(summaries, p)[1] = summaries[i]
      BY <1>0, <2>3, NewestIsOurs
    <3>2. DOMAIN Newest(summaries, p) = {1}
      BY <1>0, <3>1, NewestTypes, LenProperties
    <3>3. Part(Newest(summaries, p), summaries)
      BY <3>1, <3>2 DEF Part
    <3> QED
      BY <1>0, <2>1, <3>1, <3>3, PartFits
  <2> QED
    BY <2>2, <2>3
<1>4. CASE \/ Start(p) \/ WriteFile(p) \/ WriteError(p) \/ GetToken(p) \/ EndCleanup(p)
           \/ PostInline(p) \/ PatchSummary(p) \/ PostSummary(p) \/ CompleteCheckRun(p)
  <2>1. found'[p] = found[p]
    BY <1>4 DEF Start, WriteFile, WriteError, GetToken, EndCleanup, PostInline, PatchSummary,
                PostSummary, CompleteCheckRun
  <2>2. pc'[p] \notin {"delete", "patch"}
    BY <1>0, <1>4, PublisherAssumption
       DEF Start, WriteFile, WriteError, GetToken, EndCleanup, PostInline, PatchSummary,
           PostSummary, CompleteCheckRun, AfterCleanup, BeforeSummary, AfterSummary,
           MarkersInv, TypeOK
  <2> QED
    BY <1>0, <2>1, <2>2
<1>5. CASE DeleteGone(p) \/ CaughtError(p) \/ NoAnswer(p)
  BY <1>0, <1>5 DEF DeleteGone, CaughtError, NoAnswer
<1> QED
  BY <1>1, <1>2, <1>3, <1>4, <1>5 DEF PublisherStep

\* Which of a publisher's steps changes which list.
LEMMA ListsChange ==
  ASSUME TypeOK, IInv, NEW p \in Publishers, PublisherStep(p)
  PROVE  /\ \/ inline' \in {inline, inline \o NewReview(p)}
            \/ /\ inline' = Deleted(p)
               /\ pc[p] = "delete" /\ found[p] # <<>> /\ PlacesIn(inline, p) # {}
         /\ \/ summaries' \in {summaries, Append(summaries, NewComment(p, 1))}
            \/ summaries' = Patched(p) /\ pc[p] = "patch" /\ found[p] # <<>>
<1>1. CASE \/ Start(p) \/ WriteFile(p) \/ WriteError(p) \/ GetToken(p) \/ ListInline(p)
           \/ DeleteGone(p) \/ EndCleanup(p) \/ PostInline(p) \/ ListSummary(p)
           \/ PostSummary(p) \/ CompleteCheckRun(p) \/ DeleteInline(p)
  BY <1>1 DEF Start, WriteFile, WriteError, GetToken, ListInline, DeleteGone, EndCleanup,
              PostInline, ListSummary, PostSummary, CompleteCheckRun, DeleteInline, github
<1>2. CASE PatchSummary(p)
  BY <1>2 DEF PatchSummary, IInv, Sound, FoundIsThere
<1>3. CASE CaughtError(p) \/ NoAnswer(p)
  <2>1. EffectOfCall(p) /\ Calling(p)
    BY <1>3 DEF CaughtError, NoAnswer
  <2>2. pc[p] = "patch" => found[p] # <<>>
    BY DEF IInv, Sound, FoundIsThere
  <2>3. pc[p] = "delete" => found[p] # <<>>
    BY <2>1 DEF Calling
  <2> QED
    BY <2>1, <2>2, <2>3 DEF EffectOfCall
<1> QED
  BY <1>1, <1>2, <1>3 DEF PublisherStep

LEMMA OthersStay ==
  ASSUME TypeOK, NEW p \in Publishers, PublisherStep(p)
  PROVE  /\ scope' = scope
         /\ \A q \in Publishers \ {p} : pc'[q] = pc[q] /\ found'[q] = found[q]
<1>1. CallTypes(p) /\ OwnTypes(p)
  BY StepTypes
<1> QED
  BY <1>1 DEF OwnTypes, TypeOK

LEMMA MarkersStep ==
  ASSUME MarkersInv, IInv, TypeOK', NEW p \in Publishers, PublisherStep(p)
  PROVE  MarkersInv'
<1>1. /\ scope' = scope
      /\ \A q \in Publishers \ {p} : pc'[q] = pc[q] /\ found'[q] = found[q]
  BY OthersStay DEF MarkersInv
<1>2. ScopesFit(inline', scope) /\ ScopesFit(summaries', scope)
  <2>1. TypeOK
    BY DEF MarkersInv
  <2> QED
    BY <2>1, ListsChange, ListsFit
<1>3. ASSUME NEW q \in Publishers
      PROVE  ScopesFit(found'[q], scope') /\ NextIsOurs(q)'
  <2>1. CASE q = p
    BY <1>1, <2>1, HandFits DEF NextIsOurs, IsOurs, Own
  <2>2. CASE q # p
    BY <1>1, <2>2 DEF MarkersInv, NextIsOurs, IsOurs, Own
  <2> QED
    BY <2>1, <2>2
<1> QED
  BY <1>1, <1>2, <1>3 DEF MarkersInv

\* A comment of somebody else fits: it is not ours.
LEMMA MarkersForeign ==
  ASSUME MarkersInv, TypeOK', NEW s \in Scopes, ForeignComment(s)
  PROVE  /\ MarkersInv'
         /\ \A i \in DOMAIN inline : i \in DOMAIN inline' /\ inline'[i] = inline[i]
         /\ \A i \in DOMAIN summaries : i \in DOMAIN summaries' /\ summaries'[i] = summaries[i]
         /\ \A i \in DOMAIN inline' \ DOMAIN inline : ~ Own(inline'[i])
         /\ \A i \in DOMAIN summaries' \ DOMAIN summaries : ~ Own(summaries'[i])
<1> DEFINE new(list) == [id |-> <<Nobody, Len(list) + 1>>, scope |-> s, by |-> Nobody]
<1>1. ASSUME NEW list \in Seq(Comments), NEW after \in {list, Append(list, new(list))}
      PROVE  /\ \A i \in DOMAIN list : i \in DOMAIN after /\ after[i] = list[i]
             /\ \A i \in DOMAIN after \ DOMAIN list : ~ Own(after[i])
             /\ ScopesFit(list, scope) => ScopesFit(after, scope)
  <2>1. DOMAIN list = 1 .. Len(list) /\ Len(list) \in Nat
    BY LenProperties
  <2>2. new(list) \in Comments
    BY <2>1 DEF Comments, Ids, Authors
  <2>3. ~ Own(new(list))
    BY DEF Own
  <2> HIDE DEF new
  <2>4. CASE after = Append(list, new(list))
    <3>1. /\ after \in Seq(Comments) /\ Len(after) = Len(list) + 1
          /\ \A i \in 1 .. Len(list) : after[i] = list[i]
          /\ after[Len(list) + 1] = new(list)
      BY <2>2, <2>4, AppendProperties
    <3>2. DOMAIN after = 1 .. Len(list) + 1
      BY <3>1, LenProperties
    <3>3. /\ \A i \in DOMAIN list : i \in DOMAIN after /\ after[i] = list[i]
          /\ \A i \in DOMAIN after \ DOMAIN list : ~ Own(after[i])
      BY <2>1, <2>3, <3>1, <3>2
    <3> QED
      BY <3>3 DEF ScopesFit
  <2>5. CASE after = list
    BY <2>5
  <2> QED
    BY <2>4, <2>5
<1>2. /\ UNCHANGED <<files, mode, scope, findings, pc, found, settled, latest>>
      /\ inline' \in {inline, Append(inline, new(inline))}
      /\ summaries' \in {summaries, Append(summaries, new(summaries))}
  BY DEF ForeignComment
<1> HIDE DEF new
<1>3. inline \in Seq(Comments) /\ summaries \in Seq(Comments)
  BY DEF MarkersInv, TypeOK
<1>4. ASSUME NEW q \in Publishers PROVE ScopesFit(found'[q], scope') /\ NextIsOurs(q)'
  BY <1>2 DEF MarkersInv, NextIsOurs, IsOurs, Own
<1>5. MarkersInv'
  <2>1. ScopesFit(inline', scope') /\ ScopesFit(summaries', scope')
    BY <1>1, <1>2, <1>3 DEF MarkersInv
  <2> QED
    BY <1>4, <2>1 DEF MarkersInv
<1> QED
  BY <1>1, <1>2, <1>3, <1>5

LEMMA MarkersInit == Init => MarkersInv
BY TypesInit DEF Init, MarkersInv, ScopesFit, NextIsOurs

LEMMA MarkersNext == MarkersInv /\ IInv /\ [Next]_vars => MarkersInv'
<1> SUFFICES ASSUME MarkersInv, IInv, [Next]_vars PROVE MarkersInv'
  OBVIOUS
<1>1. TypeOK'
  BY TypesNext DEF MarkersInv
<1>2. ASSUME NEW p \in Publishers, PublisherStep(p) PROVE MarkersInv'
  BY <1>1, <1>2, MarkersStep
<1>3. ASSUME NEW s \in Scopes, ForeignComment(s) PROVE MarkersInv'
  BY <1>1, <1>3, MarkersForeign
<1>4. CASE UNCHANGED vars
  BY <1>1, <1>4 DEF vars, github, MarkersInv, ScopesFit, NextIsOurs, IsOurs, Own
<1> QED
  BY <1>2, <1>3, <1>4 DEF Next

LEMMA OthersStep ==
  ASSUME MarkersInv, IInv, NEW p \in Publishers, PublisherStep(p)
  PROVE  /\ \A i \in DOMAIN inline :
               MayGo(inline[i]) \/ \E j \in DOMAIN inline' : inline'[j] = inline[i]
         /\ \A i \in DOMAIN summaries :
               MayGo(summaries[i]) \/ \E j \in DOMAIN summaries' : summaries'[j] = summaries[i]
<1>0. /\ p \in DOMAIN pc /\ p \in DOMAIN found /\ found[p] \in Seq(Comments) /\ TypeOK
      /\ \A c : IsOurs(c, p) /\ (pc'[p] # pc[p] \/ found'[p] # found[p]) => MayGo(c)
  BY DEF MarkersInv, TypeOK, IsOurs, MayGo
<1>1. \/ inline' \in {inline, inline \o NewReview(p)}
      \/ /\ inline' = Deleted(p)
         /\ pc[p] = "delete" /\ found[p] # <<>> /\ PlacesIn(inline, p) # {}
  BY <1>0, ListsChange
<1>2. ASSUME NEW i \in DOMAIN inline
      PROVE  MayGo(inline[i]) \/ \E j \in DOMAIN inline' : inline'[j] = inline[i]
  <2>1. CASE inline' = inline
    BY <2>1
  <2>2. CASE inline' = inline \o NewReview(p)
    BY <1>0, <2>2, ReviewAdded
  <2>3. CASE inline' = Deleted(p) /\ pc[p] = "delete" /\ found[p] # <<>>
             /\ PlacesIn(inline, p) # {} /\ inline' # inline /\ inline' # inline \o NewReview(p)
    <3>1. PICK k \in DOMAIN inline :
             /\ IsOurs(inline[k], p)
             /\ \A x \in DOMAIN inline \ {k} :
                   \E j \in DOMAIN Deleted(p) : Deleted(p)[j] = inline[x]
      BY <2>3, DeletedIsOurs
    <3>2. found'[p] # found[p]
      <4>1. CASE DeleteInline(p)
        <5>1. found'[p] = FromOurs(Tail(found[p]), p)
          BY <1>0, <4>1 DEF DeleteInline
        <5>2. Tail(found[p]) \in Seq(Comments) /\ Len(Tail(found[p])) < Len(found[p])
          BY <1>0, <2>3, TailIsPart
        <5>3. found'[p] \in Seq(Comments) /\ Len(found'[p]) <= Len(Tail(found[p]))
          BY <5>1, <5>2, FromOursTypes, FromOursIsPart
        <5>4. /\ Len(found[p]) \in Nat /\ Len(Tail(found[p])) \in Nat
              /\ Len(found'[p]) \in Nat
          BY <1>0, <5>2, <5>3, LenProperties
        <5>5. Len(found'[p]) # Len(found[p])
          BY <5>2, <5>3, <5>4
        <5> QED
          BY <5>5
      <4>2. CASE CaughtError(p) \/ NoAnswer(p)
        BY <1>0, <2>3, <4>2 DEF CaughtError, NoAnswer
      <4>3. ~ DeleteInline(p) /\ ~ CaughtError(p) /\ ~ NoAnswer(p) =>
               inline' \in {inline, inline \o NewReview(p)}
        BY DEF PublisherStep, Start, WriteFile, WriteError, GetToken, ListInline, DeleteGone,
               EndCleanup, PostInline, ListSummary, PatchSummary, PostSummary,
               CompleteCheckRun, github
      <4> QED
        BY <2>3, <4>1, <4>2, <4>3
    <3>3. CASE i = k
      BY <1>0, <3>1, <3>2, <3>3
    <3>4. CASE i # k
      BY <2>3, <3>1, <3>4
    <3> QED
      BY <3>3, <3>4
  <2> QED
    BY <1>1, <2>1, <2>2, <2>3
<1>3. ASSUME NEW i \in DOMAIN summaries
      PROVE  MayGo(summaries[i])
             \/ \E j \in DOMAIN summaries' : summaries'[j] = summaries[i]
  <2>0. DOMAIN summaries = 1 .. Len(summaries) /\ Len(summaries) \in Nat
    BY LenProperties DEF MarkersInv, TypeOK
  <2>1. CASE summaries' = summaries
    BY <2>1
  <2>2. CASE summaries' = Append(summaries, NewComment(p, 1))
    <3>1. /\ summaries' \in Seq(Comments) /\ Len(summaries') = Len(summaries) + 1
          /\ \A j \in 1 .. Len(summaries) : summaries'[j] = summaries[j]
      BY <1>0, <2>2, NewCommentTypes, AppendProperties DEF TypeOK
    <3>2. DOMAIN summaries' = 1 .. Len(summaries) + 1
      BY <3>1, LenProperties
    <3> QED
      BY <2>0, <3>1, <3>2
  <2>3. CASE summaries' = Patched(p) /\ summaries' # summaries
             /\ pc[p] = "patch" /\ found[p] # <<>>
    <3>1. CASE i \notin PlacesIn(summaries, p)
      BY <2>3, <3>1 DEF Patched
    <3>2. CASE i \in PlacesIn(summaries, p)
      <4>1. /\ summaries[i].id = found[p][1].id /\ IsOurs(found[p][1], p)
            /\ 1 \in DOMAIN found[p]
        BY <1>0, <2>3, <3>2, TailIsPart, LenProperties, EmptySeq
           DEF MarkersInv, NextIsOurs, PlacesIn
      <4>2. IsOurs(summaries[i], p)
        BY <4>1 DEF MarkersInv, ScopesFit, IsOurs, Own
      <4>3. pc'[p] # pc[p]
        <5>1. CASE PatchSummary(p)
          BY <1>0, <2>3, <5>1 DEF PatchSummary, Goto
        <5>2. CASE CaughtError(p) \/ NoAnswer(p)
          BY <1>0, <2>3, <5>2 DEF CaughtError, NoAnswer, Goto, AfterError
        <5>3. ~ PatchSummary(p) /\ ~ CaughtError(p) /\ ~ NoAnswer(p) =>
                 summaries' = summaries \/ pc[p] # "patch"
          BY DEF PublisherStep, Start, WriteFile, WriteError, GetToken, ListInline,
                 DeleteInline, DeleteGone, EndCleanup, PostInline, ListSummary, PostSummary,
                 CompleteCheckRun, github
        <5> QED
          BY <2>3, <5>1, <5>2, <5>3
      <4> QED
        BY <1>0, <4>2, <4>3
    <3> QED
      BY <3>1, <3>2
  <2> QED
    BY <1>0, <2>1, <2>2, <2>3, ListsChange
<1> QED
  BY <1>2, <1>3

\* A publisher deletes and updates comments of our App and of its own scope only, whatever
\* people write, however publishers overlap and whichever calls fail: the comment it is
\* about to touch has the scope of the publisher that created it, and that is its own
\* (publisher.py, _is_own_app_comment, _review_scope and the markers).
THEOREM OthersLeftAlone == Spec => OthersUntouched
<1> DEFINE Untouched ==
      /\ \A i \in DOMAIN inline :
            MayGo(inline[i]) \/ \E j \in DOMAIN inline' : inline'[j] = inline[i]
      /\ \A i \in DOMAIN summaries :
            MayGo(summaries[i]) \/ \E j \in DOMAIN summaries' : summaries'[j] = summaries[i]
<1>1. MarkersInv /\ IInv /\ [Next]_vars => [Untouched]_vars
  <2> SUFFICES ASSUME MarkersInv, IInv, [Next]_vars PROVE [Untouched]_vars
    OBVIOUS
  <2>1. ASSUME NEW p \in Publishers, PublisherStep(p) PROVE Untouched
    BY <2>1, OthersStep
  <2>2. ASSUME NEW s \in Scopes, ForeignComment(s) PROVE Untouched
    <3>1. TypeOK'
      BY TypesNext DEF MarkersInv
    <3> QED
      BY <2>2, <3>1, MarkersForeign
  <2> QED
    BY <2>1, <2>2 DEF Next
<1>2. Spec => [](MarkersInv /\ IInv)
  BY InitInv, NextInv, MarkersInit, MarkersNext, PTL DEF Spec
<1> QED
  BY <1>1, <1>2, PTL DEF Spec, OthersUntouched

-----------------------------------------------------------------------------
(* The comments of a review are told apart *)

\* No two comments of ours in a list have the same id.
OwnOnce(list) ==
    \A i, j \in DOMAIN list : Own(list[i]) /\ list[i].id = list[j].id => i = j

\* Inline comments are never updated.
ByCreator == \A i \in DOMAIN inline : Own(inline[i]) => inline[i].by = inline[i].id[1]

\* A publisher posts its review once.
NotPosted(p) ==
    pc[p] \in {"idle", "token", "list_inline", "delete", "post_inline"} =>
        \A i \in DOMAIN inline : inline[i].id[1] # p

IdsInv == OwnOnce(inline) /\ ByCreator /\ \A p \in Publishers : NotPosted(p)

LEMMA OnceAfterDelete ==
  ASSUME NEW list \in Seq(Comments), NEW k \in DOMAIN list, OwnOnce(list)
  PROVE  OwnOnce(RemoveAt(list, k))
<1>1. DOMAIN list = 1 .. Len(list) /\ Len(list) \in Nat
  BY LenProperties
<1>2. /\ RemoveAt(list, k) \in Seq(Comments) /\ Len(RemoveAt(list, k)) = Len(list) - 1
      /\ \A i \in 1 .. Len(list) - 1 :
            RemoveAt(list, k)[i] = IF i < k THEN list[i] ELSE list[i + 1]
  BY RestOfList
<1>3. DOMAIN RemoveAt(list, k) = 1 .. Len(list) - 1
  BY <1>2, LenProperties
<1> DEFINE old(i) == IF i < k THEN i ELSE i + 1
<1>4. \A i \in 1 .. Len(list) - 1 : old(i) \in DOMAIN list /\ RemoveAt(list, k)[i] = list[old(i)]
  BY <1>1, <1>2
<1>5. \A i, j \in 1 .. Len(list) - 1 : old(i) = old(j) => i = j
  BY <1>1
<1> HIDE DEF old
<1> QED
  BY <1>3, <1>4, <1>5 DEF OwnOnce

\* The steps before the inline comments are posted follow each other, and only the last
\* of them posts.
LEMMA PostingStep ==
  ASSUME TypeOK, NEW p \in Publishers, PublisherStep(p)
  PROVE  LET before == {"idle", "token", "list_inline", "delete", "post_inline"}
         IN  /\ pc'[p] \in before => pc[p] \in before
             /\ \/ inline' = inline
                \/ /\ inline' = Deleted(p)
                   /\ pc[p] = "delete" /\ found[p] # <<>> /\ PlacesIn(inline, p) # {}
                \/ /\ inline' = inline \o NewReview(p)
                   /\ pc[p] = "post_inline" /\ pc'[p] \notin before
<1>0. p \in DOMAIN pc /\ pc[p] \in Steps /\ mode \in {"github_app", "github", "local"}
  BY PublisherAssumption DEF TypeOK
<1> USE <1>0 DEF Goto, github, AfterCleanup, BeforeSummary, AfterSummary
<1>1. CASE Start(p) \/ WriteFile(p) \/ WriteError(p) \/ GetToken(p) \/ ListInline(p)
           \/ DeleteInline(p) \/ DeleteGone(p) \/ EndCleanup(p)
  BY <1>1 DEF Start, WriteFile, WriteError, GetToken, ListInline, DeleteInline, DeleteGone,
              EndCleanup
<1>2. CASE \/ PostInline(p) \/ ListSummary(p) \/ PatchSummary(p) \/ PostSummary(p)
           \/ CompleteCheckRun(p)
  BY <1>2 DEF PostInline, ListSummary, PatchSummary, PostSummary, CompleteCheckRun
<1>3. CASE CaughtError(p)
  BY <1>3 DEF CaughtError, EffectOfCall, Calling, Busy, AfterError, Steps
<1>4. CASE NoAnswer(p)
  BY <1>4 DEF NoAnswer, EffectOfCall, Calling, Busy, Steps
<1> QED
  BY <1>1, <1>2, <1>3, <1>4 DEF PublisherStep

LEMMA IdsStep ==
  ASSUME IdsInv, MarkersInv, IInv, NEW p \in Publishers, PublisherStep(p)
  PROVE  IdsInv'
<1> DEFINE before == {"idle", "token", "list_inline", "delete", "post_inline"}
<1>0. /\ TypeOK /\ inline \in Seq(Comments)
      /\ \A q \in Publishers \ {p} : pc'[q] = pc[q]
      /\ \A c : Own(c)' <=> Own(c)
  BY OthersStay DEF MarkersInv, TypeOK, Own
<1>1. /\ pc'[p] \in before => pc[p] \in before
      /\ \/ inline' = inline
         \/ /\ inline' = Deleted(p)
            /\ pc[p] = "delete" /\ found[p] # <<>> /\ PlacesIn(inline, p) # {}
         \/ /\ inline' = inline \o NewReview(p)
            /\ pc[p] = "post_inline" /\ pc'[p] \notin before
  BY <1>0, PostingStep
<1>2. CASE inline' = inline
  <2>1. \A q \in Publishers : NotPosted(q)'
    BY <1>0, <1>1, <1>2 DEF IdsInv, NotPosted
  <2> QED
    BY <1>0, <1>2, <2>1 DEF IdsInv, OwnOnce, ByCreator
<1>3. CASE /\ inline' = Deleted(p)
           /\ pc[p] = "delete" /\ found[p] # <<>> /\ PlacesIn(inline, p) # {}
  <2>1. OwnOnce(Deleted(p))
    <3>1. (CHOOSE i \in PlacesIn(inline, p) : TRUE) \in DOMAIN inline
      BY <1>3 DEF PlacesIn
    <3> QED
      BY <1>0, <3>1, OnceAfterDelete DEF Deleted, IdsInv
  <2>2. Part(Deleted(p), inline)
    BY <1>3, DeletedIsOurs
  <2>3. ByCreator'
    BY <1>0, <1>3, <2>2 DEF IdsInv, ByCreator, Part
  <2>4. ASSUME NEW q \in Publishers, pc'[q] \in before, NEW i \in DOMAIN inline'
        PROVE  inline'[i].id[1] # q
    <3>1. PICK j \in DOMAIN inline : inline'[i] = inline[j]
      BY <1>3, <2>2 DEF Part
    <3>2. pc[q] \in before
      BY <1>0, <1>1, <2>4
    <3> QED
      BY <3>1, <3>2 DEF IdsInv, NotPosted
  <2> QED
    BY <1>0, <1>3, <2>1, <2>3, <2>4 DEF IdsInv, OwnOnce, NotPosted
<1>4. CASE inline' = inline \o NewReview(p) /\ pc[p] = "post_inline" /\ pc'[p] \notin before
  <2>1. /\ \A i \in DOMAIN inline : i \in DOMAIN inline' /\ inline'[i] = inline[i]
        /\ \A i \in DOMAIN inline' :
               \/ i \in DOMAIN inline /\ inline'[i] = inline[i]
               \/ \E k \in 1 .. findings[p] :
                     i = Len(inline) + k /\ inline'[i] = NewComment(p, k)
    BY <1>0, <1>4, ReviewAdded
  <2>2. \A k \in 1 .. findings[p] :
            /\ NewComment(p, k).id = <<p, k>> /\ NewComment(p, k).by = p
    BY DEF NewComment
  <2>3. \A i \in DOMAIN inline : inline[i].id[1] # p
    BY <1>4 DEF IdsInv, NotPosted
  <2>4. OwnOnce(inline')
    <3> SUFFICES ASSUME NEW i \in DOMAIN inline', NEW j \in DOMAIN inline',
                        Own(inline'[i]), inline'[i].id = inline'[j].id
                 PROVE  i = j
      BY DEF OwnOnce
    <3>1. CASE i \in DOMAIN inline /\ j \in DOMAIN inline
      BY <2>1, <3>1 DEF IdsInv, OwnOnce
    <3>2. CASE i \notin DOMAIN inline /\ j \notin DOMAIN inline
      BY <2>1, <2>2, <3>2
    <3>3. CASE i \in DOMAIN inline /\ j \notin DOMAIN inline
      BY <2>1, <2>2, <2>3, <3>3
    <3>4. CASE i \notin DOMAIN inline /\ j \in DOMAIN inline
      BY <2>1, <2>2, <2>3, <3>4
    <3> QED
      BY <3>1, <3>2, <3>3, <3>4
  <2>5. ByCreator'
    <3> SUFFICES ASSUME NEW i \in DOMAIN inline', Own(inline'[i])
                 PROVE  inline'[i].by = inline'[i].id[1]
      BY <1>0 DEF ByCreator
    <3>1. CASE i \in DOMAIN inline
      BY <2>1, <3>1 DEF IdsInv, ByCreator
    <3>2. CASE i \notin DOMAIN inline
      BY <2>1, <2>2, <3>2
    <3> QED
      BY <3>1, <3>2
  <2>6. ASSUME NEW q \in Publishers PROVE NotPosted(q)'
    <3>1. CASE q = p
      BY <1>4, <3>1 DEF NotPosted
    <3>2. CASE q # p
      BY <1>0, <2>1, <2>2, <3>2 DEF IdsInv, NotPosted
    <3> QED
      BY <3>1, <3>2
  <2> QED
    BY <1>0, <2>4, <2>5, <2>6 DEF IdsInv, OwnOnce
<1> QED
  BY <1>1, <1>2, <1>3, <1>4

LEMMA IdsNext == IdsInv /\ MarkersInv /\ IInv /\ [Next]_vars => IdsInv'
<1> SUFFICES ASSUME IdsInv, MarkersInv, IInv, [Next]_vars PROVE IdsInv'
  OBVIOUS
<1>1. ASSUME NEW p \in Publishers, PublisherStep(p) PROVE IdsInv'
  BY <1>1, IdsStep
<1>2. ASSUME NEW s \in Scopes, ForeignComment(s) PROVE IdsInv'
  <2>1. TypeOK'
    BY TypesNext DEF MarkersInv
  <2>2. /\ \A i \in DOMAIN inline : i \in DOMAIN inline' /\ inline'[i] = inline[i]
        /\ \A i \in DOMAIN inline' \ DOMAIN inline : inline'[i].id[1] = Nobody
    BY <1>2, <2>1, MarkersForeign DEF Own
  <2>3. pc' = pc
    BY <1>2 DEF ForeignComment
  <2>4. OwnOnce(inline') /\ ByCreator'
    BY <2>2 DEF IdsInv, OwnOnce, ByCreator, Own
  <2>5. \A q \in Publishers : NotPosted(q)'
    BY <2>2, <2>3, PublisherAssumption DEF IdsInv, NotPosted
  <2> QED
    BY <2>4, <2>5 DEF IdsInv, OwnOnce, Own
<1>3. CASE UNCHANGED vars
  BY <1>3 DEF vars, github, IdsInv, OwnOnce, ByCreator, NotPosted, Own
<1> QED
  BY <1>1, <1>2, <1>3 DEF Next

LEMMA IdsInit == Init => IdsInv
BY DEF Init, IdsInv, OwnOnce, ByCreator, NotPosted

-----------------------------------------------------------------------------
(* What the pull request shows of a scope *)

OursIn(list, s) == {c \in {list[i] : i \in DOMAIN list} : Own(c) /\ c.scope = s}

LEMMA FromOursKeepsOurs ==
  ASSUME NEW list \in Seq(Comments), NEW p \in Publishers
  PROVE  /\ OursIn(FromOurs(list, p), scope[p]) = OursIn(list, scope[p])
         /\ OwnOnce(list) => OwnOnce(FromOurs(list, p))
<1>0. DOMAIN list = 1 .. Len(list) /\ Len(list) \in Nat
  BY LenProperties
<1>1. CASE FromOurs(list, p) = <<>> /\ \A i \in DOMAIN list : ~ IsOurs(list[i], p)
  BY <1>1 DEF OursIn, IsOurs, OwnOnce
<1>2. CASE \E k \in 1 .. Len(list) :
               /\ FromOurs(list, p) \in Seq(Comments)
               /\ Len(FromOurs(list, p)) = Len(list) - k + 1
               /\ \A i \in 1 .. Len(list) - k + 1 : FromOurs(list, p)[i] = list[k + i - 1]
               /\ IsOurs(list[k], p)
               /\ \A j \in DOMAIN list : IsOurs(list[j], p) => k <= j
  <2> DEFINE rest == FromOurs(list, p)
  <2>1. PICK k \in 1 .. Len(list) :
               /\ rest \in Seq(Comments)
               /\ Len(rest) = Len(list) - k + 1
               /\ \A i \in 1 .. Len(list) - k + 1 : rest[i] = list[k + i - 1]
               /\ \A j \in DOMAIN list : IsOurs(list[j], p) => k <= j
    BY <1>2
  <2> HIDE DEF rest
  <2>2. DOMAIN rest = 1 .. Len(list) - k + 1
    BY <2>1, LenProperties
  <2>3. \A i \in 1 .. Len(list) - k + 1 : k + i - 1 \in DOMAIN list
    BY <1>0
  <2>4. OursIn(rest, scope[p]) \subseteq OursIn(list, scope[p])
    BY <2>1, <2>2, <2>3 DEF OursIn
  <2>5. ASSUME NEW j \in DOMAIN list, Own(list[j]), list[j].scope = scope[p]
        PROVE  list[j] \in OursIn(rest, scope[p])
    <3>1. k <= j
      BY <2>1, <2>5 DEF IsOurs
    <3>2. j - k + 1 \in DOMAIN rest /\ k + (j - k + 1) - 1 = j
      BY <1>0, <2>2, <3>1
    <3>3. rest[j - k + 1] = list[j]
      BY <2>1, <2>2, <3>2
    <3> QED
      BY <2>5, <3>2, <3>3 DEF OursIn
  <2>6. OursIn(list, scope[p]) \subseteq OursIn(rest, scope[p])
    BY <2>5 DEF OursIn
  <2>7. OwnOnce(list) => OwnOnce(rest)
    <3> SUFFICES ASSUME OwnOnce(list), NEW i \in DOMAIN rest, NEW j \in DOMAIN rest,
                        Own(rest[i]), rest[i].id = rest[j].id
                 PROVE  i = j
      BY DEF OwnOnce
    <3>1. k + i - 1 = k + j - 1
      BY <2>1, <2>2, <2>3 DEF OwnOnce
    <3> QED
      BY <2>2, <3>1
  <2> QED
    BY <2>4, <2>6, <2>7 DEF rest
<1> QED
  BY <1>1, <1>2, RestOfListing

\* A listing that overlooks nothing of ours has all of it.
LEMMA ListingHasOurs ==
  ASSUME NEW list \in Seq(Comments), NEW p \in Publishers, Overlooked(list, p) = {}
  PROVE  /\ OursIn(Listed(list), scope[p]) = OursIn(list, scope[p])
         /\ OwnOnce(list) => OwnOnce(Listed(list))
         /\ \A i \in DOMAIN list : IsOurs(list[i], p) => i \in DOMAIN Listed(list)
<1>1. DOMAIN list = 1 .. Len(list) /\ Len(list) \in Nat /\ PageLimit \in Nat
  BY LenProperties, PublisherAssumption
<1>2. /\ Listed(list) \in Seq(Comments)
      /\ Len(Listed(list)) = IF Len(list) < PageLimit THEN Len(list) ELSE PageLimit
      /\ \A i \in DOMAIN Listed(list) : i \in DOMAIN list /\ Listed(list)[i] = list[i]
  BY ListingIsPrefix
<1>3. DOMAIN Listed(list) = 1 .. Len(Listed(list))
  BY <1>2, LenProperties
<1>4. ASSUME NEW i \in DOMAIN list, IsOurs(list[i], p) PROVE i \in DOMAIN Listed(list)
  <2>1. ~ (i > PageLimit)
    BY <1>4 DEF Overlooked
  <2> QED
    BY <1>1, <1>2, <1>3, <2>1
<1> QED
  BY <1>2, <1>4 DEF OursIn, OwnOnce, IsOurs

LEMMA TailKeepsOurs ==
  ASSUME NEW list \in Seq(Comments), list # <<>>, OwnOnce(list), Own(list[1]), NEW s
  PROVE  OursIn(Tail(list), s) = OursIn(list, s) \ {list[1]} /\ OwnOnce(Tail(list))
<1>1. DOMAIN list = 1 .. Len(list) /\ Len(list) \in Nat \ {0}
  BY LenProperties, EmptySeq
<1>2. /\ Tail(list) \in Seq(Comments) /\ Len(Tail(list)) = Len(list) - 1
      /\ \A i \in 1 .. Len(Tail(list)) : Tail(list)[i] = list[i + 1]
  BY HeadTailProperties
<1>3. DOMAIN Tail(list) = 1 .. Len(list) - 1
  BY <1>2, LenProperties
<1> DEFINE rest == Tail(list)
<1>4. \A i \in DOMAIN rest : rest[i] = list[i + 1] /\ i + 1 \in DOMAIN list /\ i + 1 # 1
  BY <1>1, <1>2, <1>3
<1>5. \A i \in DOMAIN list \ {1} : i - 1 \in DOMAIN rest /\ rest[i - 1] = list[i]
  BY <1>1, <1>2, <1>3
<1>6. \A i, j \in DOMAIN rest : i + 1 = j + 1 => i = j
  BY <1>3
<1>7. 1 \in DOMAIN list
  BY <1>1
<1> HIDE DEF rest
<1>8. \A i \in DOMAIN list \ {1} : list[i] # list[1]
  BY <1>7 DEF OwnOnce
<1>9. OursIn(rest, s) = OursIn(list, s) \ {list[1]}
  BY <1>4, <1>5, <1>8 DEF OursIn
<1>10. OwnOnce(rest)
  BY <1>4, <1>6 DEF OwnOnce
<1> QED
  BY <1>9, <1>10 DEF rest

\* What a deletion takes away is the comment at the head of the listing in hand.
LEMMA DeletedKeepsOurs ==
  ASSUME MarkersInv, IdsInv, NEW p \in Publishers, pc[p] = "delete", found[p] # <<>>,
         PlacesIn(inline, p) # {}
  PROVE  \E c \in OursIn(inline, scope[p]) :
            c.id = found[p][1].id /\ \A s : OursIn(Deleted(p), s) = OursIn(inline, s) \ {c}
<1>1. PICK k \in DOMAIN inline :
         /\ IsOurs(inline[k], p)
         /\ inline[k].id = found[p][1].id
         /\ \A i \in DOMAIN inline \ {k} :
               \E j \in DOMAIN Deleted(p) : Deleted(p)[j] = inline[i]
         /\ \A j \in DOMAIN Deleted(p) :
               \E i \in DOMAIN inline \ {k} : Deleted(p)[j] = inline[i]
  BY DeletedIsOurs
<1>2. \A i \in DOMAIN inline \ {k} : inline[i] # inline[k]
  BY <1>1 DEF IdsInv, OwnOnce, IsOurs
<1>3. inline[k] \in OursIn(inline, scope[p])
  BY <1>1 DEF OursIn, IsOurs
<1>4. \A s : OursIn(Deleted(p), s) = OursIn(inline, s) \ {inline[k]}
  BY <1>1, <1>2 DEF OursIn
<1> QED
  BY <1>1, <1>3, <1>4

LEMMA ReviewKeepsOurs ==
  ASSUME TypeOK, NEW p \in Publishers
  PROVE  /\ \A s : s # scope[p] => OursIn(inline \o NewReview(p), s) = OursIn(inline, s)
         /\ OursIn(inline, scope[p]) = {} =>
               {c.id : c \in OursIn(inline \o NewReview(p), scope[p])}
                   = {<<p, k>> : k \in 1 .. findings[p]}
<1> DEFINE all == inline \o NewReview(p)
<1>1. /\ \A i \in DOMAIN inline : i \in DOMAIN all /\ all[i] = inline[i]
      /\ \A i \in DOMAIN all :
            \/ i \in DOMAIN inline /\ all[i] = inline[i]
            \/ \E k \in 1 .. findings[p] : all[i] = NewComment(p, k)
      /\ \A k \in 1 .. findings[p] : \E i \in DOMAIN all : all[i] = NewComment(p, k)
  BY ReviewAdded
<1>2. \A k \in 1 .. findings[p] :
         /\ NewComment(p, k).scope = scope[p] /\ NewComment(p, k).id = <<p, k>>
         /\ Own(NewComment(p, k))
  BY PublisherAssumption DEF NewComment, Own
<1> HIDE DEF all
<1>3. \A s : s # scope[p] => OursIn(all, s) = OursIn(inline, s)
  BY <1>1, <1>2 DEF OursIn
<1>4. ASSUME OursIn(inline, scope[p]) = {}
      PROVE  {c.id : c \in OursIn(all, scope[p])} = {<<p, k>> : k \in 1 .. findings[p]}
  <2>1. \A c \in OursIn(all, scope[p]) : \E k \in 1 .. findings[p] : c = NewComment(p, k)
    BY <1>1, <1>4 DEF OursIn
  <2>2. \A k \in 1 .. findings[p] : NewComment(p, k) \in OursIn(all, scope[p])
    BY <1>1, <1>2 DEF OursIn
  <2> QED
    BY <1>2, <2>1, <2>2
<1> QED
  BY <1>3, <1>4 DEF all

LEMMA SummaryAdded ==
  ASSUME TypeOK, NEW p \in Publishers, summaries' = Append(summaries, NewComment(p, 1))
  PROVE  /\ \A s : SummariesOf(s)' =
               SummariesOf(s) \cup (IF s = scope[p] THEN {Len(summaries) + 1} ELSE {})
         /\ summaries'[Len(summaries) + 1].by = p
         /\ \A i \in DOMAIN summaries : summaries'[i] = summaries[i] /\ i <= Len(summaries) + 1
<1>1. /\ DOMAIN summaries = 1 .. Len(summaries) /\ Len(summaries) \in Nat
      /\ summaries' \in Seq(Comments) /\ Len(summaries') = Len(summaries) + 1
      /\ \A i \in 1 .. Len(summaries) : summaries'[i] = summaries[i]
      /\ summaries'[Len(summaries) + 1] = NewComment(p, 1)
  BY NewCommentTypes, AppendProperties, LenProperties DEF TypeOK
<1>2. DOMAIN summaries' = DOMAIN summaries \cup {Len(summaries) + 1}
  BY <1>1, LenProperties
<1>3. /\ NewComment(p, 1).by = p /\ NewComment(p, 1).scope = scope[p]
      /\ NewComment(p, 1).id[1] # Nobody
  BY PublisherAssumption DEF NewComment
<1>4. ASSUME NEW s
      PROVE  SummariesOf(s)' =
                SummariesOf(s) \cup (IF s = scope[p] THEN {Len(summaries) + 1} ELSE {})
  BY <1>1, <1>2, <1>3 DEF SummariesOf, Own
<1>5. \A i \in DOMAIN summaries : i <= Len(summaries) + 1
  BY <1>1
<1> QED
  BY <1>1, <1>3, <1>4, <1>5

LEMMA SummaryUpdated ==
  ASSUME MarkersInv, IInv, NEW p \in Publishers, pc[p] = "patch", summaries' = Patched(p)
  PROVE  /\ \A s : SummariesOf(s)' = SummariesOf(s)
         /\ \A s : s # scope[p] => \A i \in SummariesOf(s) : summaries'[i] = summaries[i]
         /\ \A i \in SummariesOf(scope[p]) :
               summaries[i].id = Head(found[p]).id => summaries'[i].by = p
<1>1. PICK k \in SummariesOf(scope[p]) : summaries[k].id = Head(found[p]).id
  BY DEF IInv, Sound, FoundIsThere
<1>2. /\ DOMAIN summaries' = DOMAIN summaries
      /\ \A i \in DOMAIN summaries : summaries[i] \in Comments
      /\ \A i \in PlacesIn(summaries, p) :
            /\ i \in DOMAIN summaries
            /\ summaries'[i] = [summaries[i] EXCEPT !.by = p, !.scope = scope[p]]
      /\ \A i \in DOMAIN summaries \ PlacesIn(summaries, p) : summaries'[i] = summaries[i]
  BY LenProperties, ElementOfSeq DEF MarkersInv, TypeOK, Patched, PlacesIn
<1>3. \A i \in PlacesIn(summaries, p) :
         /\ Own(summaries[i]) /\ summaries[i].scope = scope[p]
         /\ summaries'[i].id = summaries[i].id
         /\ summaries'[i].by = p /\ summaries'[i].scope = scope[p]
  <2>1. scope[summaries[k].id[1]] = scope[p] /\ Own(summaries[k])
    BY <1>1 DEF MarkersInv, ScopesFit, SummariesOf
  <2>2. \A i \in PlacesIn(summaries, p) : summaries[i].id = summaries[k].id
    BY <1>1 DEF PlacesIn
  <2> QED
    <3> SUFFICES ASSUME NEW i \in PlacesIn(summaries, p)
                 PROVE  /\ Own(summaries[i]) /\ summaries[i].scope = scope[p]
                        /\ summaries'[i].id = summaries[i].id
                        /\ summaries'[i].by = p /\ summaries'[i].scope = scope[p]
      OBVIOUS
    <3>1. i \in DOMAIN summaries /\ summaries[i] \in Comments
          /\ summaries'[i] = [summaries[i] EXCEPT !.by = p, !.scope = scope[p]]
      BY <1>2
    <3>2. /\ summaries'[i].id = summaries[i].id
          /\ summaries'[i].by = p /\ summaries'[i].scope = scope[p]
      BY <3>1 DEF Comments
    <3>3. Own(summaries[i]) /\ summaries[i].scope = scope[p]
      BY <2>1, <2>2, <3>1 DEF MarkersInv, ScopesFit, Own
    <3> QED
      BY <3>2, <3>3
<1>4. ASSUME NEW s PROVE SummariesOf(s)' = SummariesOf(s)
  <2>1. \A i \in DOMAIN summaries :
           summaries'[i].id = summaries[i].id /\ summaries'[i].scope = summaries[i].scope
    BY <1>2, <1>3
  <2> QED
    BY <1>2, <2>1 DEF SummariesOf, Own
<1>5. ASSUME NEW s, s # scope[p], NEW i \in SummariesOf(s) PROVE summaries'[i] = summaries[i]
  BY <1>2, <1>3, <1>5 DEF SummariesOf
<1>6. \A i \in SummariesOf(scope[p]) :
         summaries[i].id = Head(found[p]).id => i \in PlacesIn(summaries, p)
  BY DEF PlacesIn, SummariesOf
<1> QED
  BY <1>3, <1>4, <1>5, <1>6

\* A step of a publisher, seen from another scope.
LEMMA OtherScopeStays ==
  ASSUME MarkersInv, IInv, IdsInv, NEW p \in Publishers, PublisherStep(p), NEW s, s # scope[p]
  PROVE  /\ OursIn(inline', s) = OursIn(inline, s)
         /\ SummariesOf(s)' = SummariesOf(s)
         /\ \A i \in SummariesOf(s) : summaries'[i] = summaries[i]
<1>0. TypeOK
  BY DEF MarkersInv
<1>1. /\ \/ inline' \in {inline, inline \o NewReview(p)}
         \/ /\ inline' = Deleted(p)
            /\ pc[p] = "delete" /\ found[p] # <<>> /\ PlacesIn(inline, p) # {}
      /\ \/ summaries' \in {summaries, Append(summaries, NewComment(p, 1))}
         \/ summaries' = Patched(p) /\ pc[p] = "patch" /\ found[p] # <<>>
  BY <1>0, ListsChange
<1>2. OursIn(inline', s) = OursIn(inline, s)
  <2>1. CASE inline' = inline
    BY <2>1
  <2>2. CASE inline' = inline \o NewReview(p)
    BY <1>0, <2>2, ReviewKeepsOurs
  <2>3. CASE /\ inline' = Deleted(p)
             /\ pc[p] = "delete" /\ found[p] # <<>> /\ PlacesIn(inline, p) # {}
    <3>1. PICK c \in OursIn(inline, scope[p]) :
             \A x : OursIn(Deleted(p), x) = OursIn(inline, x) \ {c}
      BY <2>3, DeletedKeepsOurs
    <3>2. c \notin OursIn(inline, s)
      BY DEF OursIn
    <3> QED
      BY <2>3, <3>1, <3>2
  <2> QED
    BY <1>1, <2>1, <2>2, <2>3
<1>3. /\ SummariesOf(s)' = SummariesOf(s)
      /\ \A i \in SummariesOf(s) : summaries'[i] = summaries[i]
  <2>1. CASE summaries' = summaries
    BY <2>1 DEF SummariesOf, Own
  <2>2. CASE summaries' = Append(summaries, NewComment(p, 1))
    <3>1. /\ \A x : SummariesOf(x)' =
                SummariesOf(x) \cup (IF x = scope[p] THEN {Len(summaries) + 1} ELSE {})
          /\ \A i \in DOMAIN summaries : summaries'[i] = summaries[i]
      BY <1>0, <2>2, SummaryAdded
    <3>2. SummariesOf(s) \subseteq DOMAIN summaries
      BY DEF SummariesOf
    <3> HIDE DEF SummariesOf
    <3> QED
      BY <3>1, <3>2
  <2>3. CASE summaries' = Patched(p) /\ pc[p] = "patch"
    BY <2>3, SummaryUpdated
  <2> QED
    BY <1>1, <2>1, <2>2, <2>3
<1> QED
  BY <1>2, <1>3

\* A comment of somebody else shows in no scope.
LEMMA ForeignStays ==
  ASSUME MarkersInv, TypeOK', NEW f \in Scopes, ForeignComment(f), NEW s
  PROVE  /\ OursIn(inline', s) = OursIn(inline, s)
         /\ SummariesOf(s)' = SummariesOf(s)
         /\ \A i \in SummariesOf(s) : summaries'[i] = summaries[i]
<1>1. /\ \A i \in DOMAIN inline : i \in DOMAIN inline' /\ inline'[i] = inline[i]
      /\ \A i \in DOMAIN summaries : i \in DOMAIN summaries' /\ summaries'[i] = summaries[i]
      /\ \A i \in DOMAIN inline' \ DOMAIN inline : ~ Own(inline'[i])
      /\ \A i \in DOMAIN summaries' \ DOMAIN summaries : ~ Own(summaries'[i])
  BY MarkersForeign
<1>2. OursIn(inline', s) = OursIn(inline, s)
  BY <1>1 DEF OursIn
<1>3. SummariesOf(s)' = SummariesOf(s)
  BY <1>1 DEF SummariesOf, Own
<1>4. \A i \in SummariesOf(s) : summaries'[i] = summaries[i]
  BY <1>1 DEF SummariesOf
<1> QED
  BY <1>2, <1>3, <1>4

-----------------------------------------------------------------------------
(* Scopes where nothing ever went wrong have one summary *)

OneSummary(s) == \A i, j \in SummariesOf(s) : i = j

\* Its publishers come one after the other, and one adds a summary when there is none.
ScopeSettled(s) ==
    /\ \A p, q \in Publishers :
          scope[p] = s /\ scope[q] = s /\ Busy(p) /\ Busy(q) => p = q
    /\ mode = "github_app" =>
          /\ OneSummary(s)
          /\ \A p \in Publishers :
                scope[p] = s /\ pc[p] = "post_summary" => SummariesOf(s) = {}

SettledInv == \A s \in settled : ScopeSettled(s)

LEMMA ScopeStays ==
  ASSUME NEW s, ScopeSettled(s), UNCHANGED <<mode, scope>>, SummariesOf(s)' = SummariesOf(s),
         \A q \in Publishers : scope[q] = s => pc'[q] = pc[q]
  PROVE  ScopeSettled(s)'
<1>1. \A q \in Publishers : scope[q] = s => (Busy(q)' <=> Busy(q))
  BY DEF Busy
<1>2. OneSummary(s)' <=> OneSummary(s)
  BY DEF OneSummary
<1> HIDE DEF OneSummary, SummariesOf, Busy
<1> QED
  BY <1>1, <1>2 DEF ScopeSettled

\* The summaries of a publisher's own scope, when nothing goes wrong.
LEMMA OwnSummaries ==
  ASSUME MarkersInv, IInv, mode = "github_app", NEW p \in Publishers, PublisherStep(p),
         ~ CaughtError(p), ~ NoAnswer(p), Overlooked(summaries, p) = {} \/ ~ ListSummary(p),
         NEW s, s = scope[p], OneSummary(s), pc[p] = "post_summary" => SummariesOf(s) = {}
  PROVE  OneSummary(s)' /\ (pc'[p] = "post_summary" => SummariesOf(s)' = {})
<1>0. p \in DOMAIN pc /\ summaries \in Seq(Comments) /\ TypeOK
  BY DEF MarkersInv, TypeOK
<1> USE DEF Goto, github, BeforeSummary, AfterSummary
<1>1. CASE \/ Start(p) \/ WriteFile(p) \/ WriteError(p) \/ GetToken(p) \/ ListInline(p)
           \/ DeleteInline(p) \/ DeleteGone(p) \/ EndCleanup(p) \/ PostInline(p)
           \/ CompleteCheckRun(p)
  <2>1. summaries' = summaries /\ pc'[p] # "post_summary"
    BY <1>0, <1>1 DEF Start, WriteFile, WriteError, GetToken, ListInline, DeleteInline,
                      DeleteGone, EndCleanup, PostInline, CompleteCheckRun, AfterCleanup
  <2> QED
    BY <2>1 DEF OneSummary, SummariesOf, Own
<1>2. CASE ListSummary(p)
  <2>1. /\ UNCHANGED summaries
        /\ pc'[p] = IF Newest(summaries, p) = <<>> THEN "post_summary" ELSE "patch"
    BY <1>0, <1>2 DEF ListSummary
  <2>2. \A i \in DOMAIN summaries : IsOurs(summaries[i], p) => i \in DOMAIN Listed(summaries)
    BY <1>0, <1>2, ListingHasOurs
  <2>3. Newest(summaries, p) = <<>> => SummariesOf(s) = {}
    BY <2>2 DEF Newest, SummariesOf, IsOurs
  <2> QED
    BY <2>1, <2>3 DEF OneSummary, SummariesOf, Own
<1>3. CASE PatchSummary(p)
  <2>1. pc[p] = "patch" /\ pc'[p] = "check" /\ summaries' = Patched(p)
    BY <1>0, <1>3 DEF PatchSummary
  <2>2. SummariesOf(s)' = SummariesOf(s)
    BY <2>1, SummaryUpdated
  <2> QED
    BY <2>1, <2>2 DEF OneSummary
<1>4. CASE PostSummary(p)
  <2>1. /\ pc[p] = "post_summary" /\ pc'[p] = "check"
        /\ summaries' = Append(summaries, NewComment(p, 1))
    BY <1>0, <1>4 DEF PostSummary
  <2>2. SummariesOf(s)' = {Len(summaries) + 1}
    <3>1. SummariesOf(s)' = SummariesOf(s) \cup {Len(summaries) + 1}
      BY <1>0, <2>1, SummaryAdded
    <3> QED
      BY <2>1, <3>1
  <2> QED
    BY <2>1, <2>2 DEF OneSummary
<1> QED
  BY <1>1, <1>2, <1>3, <1>4 DEF PublisherStep

\* The scope of the publisher that takes a step, when it stays settled.
LEMMA OwnScopeStep ==
  ASSUME SettledInv, MarkersInv, IInv, NEW p \in Publishers, PublisherStep(p),
         NEW s, s = scope[p], s \in settled'
  PROVE  ScopeSettled(s)'
<1>0. /\ UNCHANGED <<mode, scope>> /\ settled' \subseteq settled
      /\ \A q \in Publishers \ {p} : pc'[q] = pc[q]
  BY StepTypes, OthersStay DEF OwnTypes, MarkersInv
<1>1. ScopeSettled(s)
  BY <1>0 DEF SettledInv
<1>2. Busy(p) \/ Start(p)
  BY DEF PublisherStep, WriteFile, WriteError, GetToken, ListInline, DeleteInline, DeleteGone,
         EndCleanup, PostInline, ListSummary, PatchSummary, PostSummary, CompleteCheckRun,
         CaughtError, NoAnswer, Calling, Busy
<1>3. ASSUME NEW q \in Publishers \ {p}, scope[q] = s PROVE ~ Busy(q) /\ ~ Busy(q)'
  <2>1. CASE Busy(p)
    BY <1>0, <1>1, <1>3, <2>1 DEF ScopeSettled, Busy
  <2>2. CASE Start(p)
    BY <1>0, <1>3, <2>2 DEF Start, Busy
  <2> QED
    BY <1>2, <2>1, <2>2
<1>4. \A q, r \in Publishers : scope'[q] = s /\ scope'[r] = s /\ Busy(q)' /\ Busy(r)' => q = r
  BY <1>0, <1>3
<1>5. ASSUME mode = "github_app"
      PROVE  OneSummary(s)' /\ (pc'[p] = "post_summary" => SummariesOf(s)' = {})
  <2>1. ~ CaughtError(p) /\ ~ NoAnswer(p) /\ (Overlooked(summaries, p) = {} \/ ~ ListSummary(p))
    BY DEF CaughtError, NoAnswer, ListSummary, Overlooked
  <2> QED
    BY <1>1, <1>5, <2>1, OwnSummaries DEF ScopeSettled
<1>6. ASSUME NEW q \in Publishers \ {p}, scope[q] = s PROVE pc'[q] # "post_summary"
  BY <1>3, <1>6 DEF Busy
<1> HIDE DEF OneSummary, SummariesOf, Busy
<1> QED
  BY <1>0, <1>4, <1>5, <1>6 DEF ScopeSettled

LEMMA SettledNext == SettledInv /\ MarkersInv /\ IInv /\ IdsInv /\ [Next]_vars => SettledInv'
<1> SUFFICES ASSUME SettledInv, MarkersInv, IInv, IdsInv, [Next]_vars PROVE SettledInv'
  OBVIOUS
<1>1. ASSUME NEW p \in Publishers, PublisherStep(p) PROVE SettledInv'
  <2> SUFFICES ASSUME NEW s \in settled' PROVE ScopeSettled(s)'
    BY DEF SettledInv
  <2>1. settled' \subseteq settled /\ UNCHANGED <<mode, scope>>
        /\ \A q \in Publishers \ {p} : pc'[q] = pc[q]
    BY <1>1, StepTypes, OthersStay DEF OwnTypes, MarkersInv
  <2>2. CASE s = scope[p]
    BY <1>1, <2>2, OwnScopeStep
  <2>3. CASE s # scope[p]
    <3>1. ScopeSettled(s)
      BY <2>1 DEF SettledInv
    <3>2. SummariesOf(s)' = SummariesOf(s)
      BY <1>1, <2>3, OtherScopeStays
    <3> QED
      BY <2>1, <2>3, <3>1, <3>2, ScopeStays
  <2> QED
    BY <2>2, <2>3
<1>2. ASSUME NEW f \in Scopes, ForeignComment(f) PROVE SettledInv'
  <2>1. TypeOK'
    BY TypesNext DEF MarkersInv
  <2>2. UNCHANGED <<mode, scope, pc, settled>>
    BY <1>2 DEF ForeignComment
  <2>3. ASSUME NEW s \in settled PROVE ScopeSettled(s)'
    <3>1. SummariesOf(s)' = SummariesOf(s)
      BY <1>2, <2>1, ForeignStays
    <3> QED
      BY <2>2, <3>1, ScopeStays DEF SettledInv
  <2> QED
    BY <2>2, <2>3 DEF SettledInv
<1>3. CASE UNCHANGED vars
  <2>1. UNCHANGED <<summaries, mode, scope, pc, settled>>
    BY <1>3 DEF vars, github
  <2>2. ASSUME NEW s \in settled PROVE ScopeSettled(s)'
    BY <2>1, ScopeStays DEF SettledInv, SummariesOf, Own
  <2> QED
    BY <2>1, <2>2 DEF SettledInv
<1> QED
  BY <1>1, <1>2, <1>3 DEF Next

LEMMA SettledInit == Init => SettledInv
<1> SUFFICES ASSUME Init PROVE SettledInv
  OBVIOUS
<1>1. \A p \in Publishers : pc[p] = "idle"
  BY DEF Init
<1>2. \A s : SummariesOf(s) = {}
  BY DEF Init, SummariesOf
<1> QED
  BY <1>1, <1>2 DEF SettledInv, ScopeSettled, OneSummary, Busy

-----------------------------------------------------------------------------
(* What the latest publication of a scope has replaced so far *)

IdsOfReview(p) == {<<p, k>> : k \in 1 .. findings[p]}

Replaced(p) ==
    /\ pc[p] = "delete" =>
          OursIn(found[p], scope[p]) = OursIn(inline, scope[p]) /\ OwnOnce(found[p])
    /\ pc[p] = "post_inline" => OursIn(inline, scope[p]) = {}
    /\ pc[p] \in {"list_summary", "patch", "post_summary", "check", "done"} =>
          {c.id : c \in OursIn(inline, scope[p])} = IdsOfReview(p)
    /\ pc[p] = "patch" => \E i \in SummariesOf(scope[p]) :
          summaries[i].id = Head(found[p]).id /\ \A j \in SummariesOf(scope[p]) : j <= i
    /\ pc[p] \in {"check", "done"} => NewestSummaryBy(p)

LatestInv ==
    /\ \A p \in latest, q \in Publishers : scope[q] = scope[p] /\ q # p => ~ Busy(q)
    /\ \A p \in latest : pc[p] \notin {"idle", "failed"}
    /\ mode = "github_app" => \A p \in latest : Replaced(p)

LEMMA ReplacedStays ==
  ASSUME NEW p \in Publishers, Replaced(p), UNCHANGED <<scope, findings>>,
         pc'[p] = pc[p], found'[p] = found[p], NEW s, s = scope[p],
         OursIn(inline', s) = OursIn(inline, s), SummariesOf(s)' = SummariesOf(s),
         \A i \in SummariesOf(s) : summaries'[i] = summaries[i]
  PROVE  Replaced(p)'
<1>1. /\ OursIn(inline, scope[p])' = OursIn(inline, scope[p])
      /\ OursIn(found[p], scope[p])' = OursIn(found[p], scope[p])
      /\ OwnOnce(found[p])' <=> OwnOnce(found[p])
      /\ IdsOfReview(p)' = IdsOfReview(p)
  BY DEF OursIn, OwnOnce, Own, IdsOfReview
<1>2. SummariesOf(scope[p])' = SummariesOf(scope[p])
  BY DEF SummariesOf, Own
<1>3. NewestSummaryBy(p)' <=> NewestSummaryBy(p)
  <2> HIDE DEF SummariesOf
  <2> QED
    BY <1>2 DEF NewestSummaryBy
<1> HIDE DEF SummariesOf, OursIn, OwnOnce, NewestSummaryBy, IdsOfReview
<1> QED
  BY <1>1, <1>2, <1>3 DEF Replaced

\* The newest summary is found when the listing overlooks none of ours.
LEMMA NewestIsLast ==
  ASSUME TypeOK, NEW p \in Publishers, Overlooked(summaries, p) = {},
         Newest(summaries, p) # <<>>
  PROVE  \E i \in SummariesOf(scope[p]) :
            /\ summaries[i].id = Head(Newest(summaries, p)).id
            /\ \A j \in SummariesOf(scope[p]) : j <= i
<1> DEFINE ours == {i \in DOMAIN Listed(summaries) : IsOurs(summaries[i], p)}
           last == CHOOSE i \in ours : \A j \in ours : j <= i
<1>1. DOMAIN summaries = 1 .. Len(summaries) /\ Len(summaries) \in Nat
      /\ summaries \in Seq(Comments)
  BY LenProperties DEF TypeOK
<1>2. ours = SummariesOf(scope[p])
  <2>1. \A i \in DOMAIN summaries : IsOurs(summaries[i], p) => i \in DOMAIN Listed(summaries)
    BY <1>1, ListingHasOurs
  <2>2. \A i \in DOMAIN Listed(summaries) : i \in DOMAIN summaries
    BY <1>1, ListingIsPrefix
  <2> QED
    BY <2>1, <2>2 DEF SummariesOf, IsOurs
<1>3. ours # {} /\ Newest(summaries, p) = <<summaries[last]>>
  BY DEF Newest
<1>4. \E i \in ours : \A j \in ours : j <= i
  <2>1. ours \subseteq 1 .. Len(summaries)
    BY <1>1, <1>2 DEF SummariesOf
  <2> HIDE DEF ours
  <2> QED
    BY <1>1, <1>3, <2>1, GreatestExists
<1>5. last \in ours /\ \A j \in ours : j <= last
  <2> HIDE DEF ours
  <2> QED
    BY <1>4
<1>6. Head(Newest(summaries, p)) = summaries[last]
  <2> HIDE DEF last
  <2> QED
    BY <1>3
<1> HIDE DEF ours, last
<1> QED
  BY <1>2, <1>5, <1>6

\* Nobody deletes a comment before the latest publication does.
LEMMA NothingGone ==
  ASSUME MarkersInv, NEW p \in Publishers, Replaced(p), DeleteGone(p)
  PROVE  FALSE
<1>0. found[p] \in Seq(Comments)
  BY DEF MarkersInv, TypeOK
<1>1. pc[p] = "delete" /\ found[p] # <<>> /\ PlacesIn(inline, p) = {}
  BY DEF DeleteGone
<1>2. found[p][1] \in OursIn(found[p], scope[p]) /\ Head(found[p]) = found[p][1]
  BY <1>0, <1>1, TailIsPart, LenProperties, EmptySeq
     DEF MarkersInv, NextIsOurs, IsOurs, OursIn
<1>3. PICK i \in DOMAIN inline : inline[i] = found[p][1]
  BY <1>1, <1>2 DEF Replaced, OursIn
<1> QED
  BY <1>1, <1>2, <1>3 DEF PlacesIn

\* It deletes what the review before it left, and nothing else is there.
LEMMA CleanupReplaces ==
  ASSUME MarkersInv, IInv, IdsInv, mode = "github_app", NEW p \in Publishers, Replaced(p),
         ListInline(p) => Overlooked(inline, p) = {},
         ListInline(p) \/ DeleteInline(p) \/ EndCleanup(p)
  PROVE  Replaced(p)'
<1>0. /\ p \in DOMAIN pc /\ p \in DOMAIN found /\ found[p] \in Seq(Comments)
      /\ inline \in Seq(Comments) /\ TypeOK /\ findings[p] \in Nat
  BY DEF MarkersInv, TypeOK
<1> USE DEF Goto, github, BeforeSummary
<1>1. CASE ListInline(p)
  <2>1. /\ UNCHANGED <<inline, summaries, scope>> /\ pc'[p] = "delete"
        /\ found'[p] = FromOurs(Listed(inline), p)
    BY <1>0, <1>1 DEF ListInline
  <2>2. Listed(inline) \in Seq(Comments)
        /\ OursIn(Listed(inline), scope[p]) = OursIn(inline, scope[p])
        /\ OwnOnce(Listed(inline))
    BY <1>0, <1>1, ListingIsPrefix, ListingHasOurs DEF IdsInv
  <2>3. OursIn(found'[p], scope[p]) = OursIn(inline, scope[p]) /\ OwnOnce(found'[p])
    BY <2>1, <2>2, FromOursKeepsOurs
  <2>4. /\ OursIn(found[p], scope[p])' = OursIn(found'[p], scope[p])
        /\ OursIn(inline, scope[p])' = OursIn(inline, scope[p])
        /\ OwnOnce(found[p])' <=> OwnOnce(found'[p])
    BY <2>1 DEF OursIn, OwnOnce, Own
  <2> QED
    BY <2>1, <2>3, <2>4 DEF Replaced
<1>2. CASE DeleteInline(p)
  <2>1. /\ pc[p] = "delete" /\ found[p] # <<>> /\ PlacesIn(inline, p) # {}
        /\ inline' = Deleted(p) /\ found'[p] = FromOurs(Tail(found[p]), p)
        /\ UNCHANGED <<summaries, scope, pc>>
    BY <1>0, <1>2 DEF DeleteInline
  <2>2. OursIn(found[p], scope[p]) = OursIn(inline, scope[p]) /\ OwnOnce(found[p])
    BY <2>1 DEF Replaced
  <2>3. PICK c \in OursIn(inline, scope[p]) :
           c.id = found[p][1].id /\ OursIn(Deleted(p), scope[p]) = OursIn(inline, scope[p]) \ {c}
    BY <2>1, DeletedKeepsOurs
  <2>4. Own(found[p][1]) /\ 1 \in DOMAIN found[p]
    BY <1>0, <2>1, LenProperties, EmptySeq DEF MarkersInv, NextIsOurs, IsOurs
  <2>5. c = found[p][1]
    <3>1. PICK i \in DOMAIN found[p] : found[p][i] = c
      BY <2>2, <2>3 DEF OursIn
    <3>2. Own(c)
      BY <2>3 DEF OursIn
    <3> QED
      BY <2>2, <2>3, <2>4, <3>1, <3>2 DEF OwnOnce
  <2>6. OursIn(Tail(found[p]), scope[p]) = OursIn(found[p], scope[p]) \ {c}
        /\ OwnOnce(Tail(found[p])) /\ Tail(found[p]) \in Seq(Comments)
    BY <1>0, <2>1, <2>2, <2>4, <2>5, TailKeepsOurs, TailIsPart
  <2>7. OursIn(found'[p], scope[p]) = OursIn(inline', scope[p]) /\ OwnOnce(found'[p])
    BY <2>1, <2>2, <2>3, <2>6, FromOursKeepsOurs
  <2>8. /\ OursIn(found[p], scope[p])' = OursIn(found'[p], scope[p])
        /\ OursIn(inline, scope[p])' = OursIn(inline', scope[p])
        /\ OwnOnce(found[p])' <=> OwnOnce(found'[p])
    BY <2>1 DEF OursIn, OwnOnce, Own
  <2> QED
    BY <2>1, <2>7, <2>8 DEF Replaced
<1>3. CASE EndCleanup(p)
  <2>1. /\ UNCHANGED <<inline, summaries, scope, findings>> /\ found[p] = <<>>
        /\ pc'[p] = IF findings[p] = 0 THEN "list_summary" ELSE "post_inline"
        /\ OursIn(found[p], scope[p]) = OursIn(inline, scope[p])
    BY <1>0, <1>3 DEF EndCleanup, AfterCleanup, Replaced
  <2>2. OursIn(inline, scope[p])' = {}
    BY <2>1 DEF OursIn, Own
  <2>3. {c.id : c \in OursIn(inline, scope[p])'} = {}
    BY <2>2
  <2>4. findings[p] = 0 => IdsOfReview(p)' = {}
    BY <2>1 DEF IdsOfReview
  <2> HIDE DEF OursIn, IdsOfReview
  <2> QED
    BY <1>0, <2>1, <2>2, <2>3, <2>4 DEF Replaced
<1> QED
  BY <1>1, <1>2, <1>3

\* Its own comments follow, and its summary.
LEMMA PostReplaces ==
  ASSUME MarkersInv, IInv, IdsInv, mode = "github_app", NEW p \in Publishers, Replaced(p),
         ListSummary(p) => Overlooked(summaries, p) = {},
         PostInline(p) \/ ListSummary(p) \/ PatchSummary(p) \/ PostSummary(p)
         \/ CompleteCheckRun(p)
  PROVE  Replaced(p)'
<1>0. /\ p \in DOMAIN pc /\ p \in DOMAIN found /\ inline \in Seq(Comments)
      /\ summaries \in Seq(Comments) /\ TypeOK
  BY DEF MarkersInv, TypeOK
<1>s. PICK s : s = scope[p]
  OBVIOUS
<1> USE DEF Goto, github, BeforeSummary, AfterSummary
<1>1. CASE PostInline(p)
  <2>1. /\ UNCHANGED <<summaries, scope, findings>> /\ pc[p] = "post_inline"
        /\ pc'[p] = "list_summary" /\ inline' = inline \o NewReview(p)
    BY <1>0, <1>1 DEF PostInline
  <2>2. {c.id : c \in OursIn(inline', scope[p])} = IdsOfReview(p)
    BY <1>0, <2>1, ReviewKeepsOurs DEF Replaced, IdsOfReview
  <2>3. /\ OursIn(inline, scope[p])' = OursIn(inline', scope[p])
        /\ IdsOfReview(p)' = IdsOfReview(p)
    BY <2>1 DEF OursIn, Own, IdsOfReview
  <2> HIDE DEF OursIn, IdsOfReview
  <2> QED
    BY <2>1, <2>2, <2>3 DEF Replaced
<1>2. ASSUME UNCHANGED <<inline, scope, findings>>,
             pc[p] \in {"list_summary", "patch", "post_summary", "check"},
             pc'[p] \in {"patch", "post_summary", "check", "done"},
             pc'[p] = "patch" => (\E i \in SummariesOf(scope[p]) :
                summaries[i].id = Head(found[p]).id /\ \A j \in SummariesOf(scope[p]) : j <= i)',
             pc'[p] \in {"check", "done"} => NewestSummaryBy(p)'
      PROVE  Replaced(p)'
  <2>1. {c.id : c \in OursIn(inline, scope[p])} = IdsOfReview(p)
    BY <1>2 DEF Replaced
  <2>2. OursIn(inline, scope[p])' = OursIn(inline, scope[p]) /\ IdsOfReview(p)' = IdsOfReview(p)
    BY <1>2 DEF OursIn, Own, IdsOfReview
  <2> HIDE DEF OursIn, IdsOfReview, SummariesOf, NewestSummaryBy
  <2> QED
    BY <1>2, <2>1, <2>2 DEF Replaced
<1>3. CASE ListSummary(p)
  <2>1. /\ UNCHANGED <<inline, summaries, scope, findings>> /\ pc[p] = "list_summary"
        /\ pc'[p] = IF Newest(summaries, p) = <<>> THEN "post_summary" ELSE "patch"
        /\ found'[p] = Newest(summaries, p)
    BY <1>0, <1>3 DEF ListSummary
  <2>2. pc'[p] = "patch" => \E i \in SummariesOf(scope[p]) :
            summaries[i].id = Head(found'[p]).id /\ \A j \in SummariesOf(scope[p]) : j <= i
    BY <1>0, <1>3, <2>1, NewestIsLast
  <2>3. SummariesOf(scope[p])' = SummariesOf(scope[p])
    BY <2>1 DEF SummariesOf, Own
  <2> HIDE DEF SummariesOf
  <2>4. pc'[p] = "patch" => (\E i \in SummariesOf(scope[p]) :
            summaries[i].id = Head(found[p]).id /\ \A j \in SummariesOf(scope[p]) : j <= i)'
    BY <2>1, <2>2, <2>3
  <2> QED
    BY <1>2, <2>1, <2>4
<1>4. CASE PatchSummary(p)
  <2>1. /\ UNCHANGED <<inline, scope, findings>> /\ pc[p] = "patch" /\ pc'[p] = "check"
        /\ summaries' = Patched(p)
    BY <1>0, <1>4 DEF PatchSummary
  <2>2. PICK i \in SummariesOf(scope[p]) :
           summaries[i].id = Head(found[p]).id /\ \A j \in SummariesOf(scope[p]) : j <= i
    BY <2>1 DEF Replaced
  <2>3. /\ \A x : SummariesOf(x)' = SummariesOf(x)
        /\ summaries'[i].by = p
    BY <2>1, <2>2, SummaryUpdated
  <2>4. SummariesOf(scope[p])' = SummariesOf(scope[p])
    BY <2>1, <2>3 DEF SummariesOf, Own
  <2> HIDE DEF SummariesOf
  <2>5. NewestSummaryBy(p)'
    BY <2>2, <2>3, <2>4 DEF NewestSummaryBy
  <2> QED
    BY <1>2, <2>1, <2>5
<1>5. CASE PostSummary(p)
  <2>1. /\ UNCHANGED <<inline, scope, findings>> /\ pc[p] = "post_summary" /\ pc'[p] = "check"
        /\ summaries' = Append(summaries, NewComment(p, 1))
    BY <1>0, <1>5 DEF PostSummary
  <2>2. /\ \A x : SummariesOf(x)' =
              SummariesOf(x) \cup (IF x = scope[p] THEN {Len(summaries) + 1} ELSE {})
        /\ summaries'[Len(summaries) + 1].by = p
        /\ \A i \in DOMAIN summaries : i <= Len(summaries) + 1
    BY <1>0, <2>1, SummaryAdded
  <2>3. SummariesOf(scope[p])' = SummariesOf(scope[p]) \cup {Len(summaries) + 1}
    BY <2>1, <2>2 DEF SummariesOf, Own
  <2>4. \A j \in SummariesOf(scope[p]) : j <= Len(summaries) + 1
    BY <2>2 DEF SummariesOf
  <2>5. Len(summaries) + 1 <= Len(summaries) + 1
    BY <1>0, LenProperties
  <2> HIDE DEF SummariesOf
  <2>6. NewestSummaryBy(p)'
    BY <2>2, <2>3, <2>4, <2>5 DEF NewestSummaryBy
  <2> QED
    BY <1>2, <2>1, <2>6
<1>6. CASE CompleteCheckRun(p)
  <2>1. /\ UNCHANGED <<inline, summaries, scope, findings>> /\ pc[p] = "check"
        /\ pc'[p] = "done"
    BY <1>0, <1>6 DEF CompleteCheckRun
  <2>2. NewestSummaryBy(p)'
    BY <2>1 DEF Replaced, NewestSummaryBy, SummariesOf, Own
  <2> QED
    BY <1>2, <2>1, <2>2
<1> QED
  BY <1>1, <1>3, <1>4, <1>5, <1>6

\* The publisher that takes a step and stays the latest of its scope.
LEMMA LatestStep ==
  ASSUME LatestInv, MarkersInv, IInv, IdsInv, NEW p \in Publishers, PublisherStep(p),
         p \in latest'
  PROVE  /\ \A q \in Publishers : scope[q] = scope[p] /\ q # p => ~ Busy(q)
         /\ pc'[p] \notin {"idle", "failed"}
         /\ mode = "github_app" => Replaced(p)'
<1>0. p \in DOMAIN pc
  BY DEF MarkersInv, TypeOK
<1>1. CASE Start(p)
  <2>1. pc'[p] \in {"write", "token", "post_inline"} \cup {BeforeSummary}
    BY <1>0, <1>1, PublisherAssumption DEF Start, Goto, AfterCleanup, MarkersInv, TypeOK
  <2>2. mode = "github_app" => pc'[p] = "token"
    BY <1>0, <1>1 DEF Start, Goto
  <2>3. p \notin latest
    BY <1>1 DEF Start, LatestInv
  <2>4. Quiet(scope[p])
    BY <1>1, <2>3 DEF Start
  <2> QED
    BY <2>1, <2>2, <2>4 DEF Quiet, Replaced, BeforeSummary
<1>2. CASE ~ Start(p)
  <2>1. /\ ~ CaughtError(p) /\ ~ NoAnswer(p) /\ ~ WriteError(p)
        /\ ListInline(p) => Overlooked(inline, p) = {}
        /\ ListSummary(p) => Overlooked(summaries, p) = {}
    BY DEF CaughtError, NoAnswer, WriteError, ListInline, ListSummary
  <2>2. p \in latest
    BY <1>2, <2>1 DEF PublisherStep, WriteFile, GetToken, ListInline, DeleteInline, DeleteGone,
                      EndCleanup, PostInline, ListSummary, PatchSummary, PostSummary,
                      CompleteCheckRun
  <2>3. pc'[p] \notin {"idle", "failed"}
    BY <1>0, <1>2, <2>1, <2>2
       DEF PublisherStep, WriteFile, GetToken, ListInline, DeleteInline, DeleteGone,
           EndCleanup, PostInline, ListSummary, PatchSummary, PostSummary, CompleteCheckRun,
           Goto, AfterCleanup, AfterSummary, BeforeSummary, LatestInv
  <2>4. ASSUME mode = "github_app" PROVE Replaced(p)'
    <3>1. Replaced(p)
      BY <2>2, <2>4 DEF LatestInv
    <3>2. ~ WriteFile(p) /\ ~ DeleteGone(p)
      BY <2>4, <3>1, NothingGone DEF WriteFile, IInv, Sound, ModeFollowed
    <3>3. CASE GetToken(p)
      BY <1>0, <3>3 DEF GetToken, Goto, Replaced
    <3>4. CASE ListInline(p) \/ DeleteInline(p) \/ EndCleanup(p)
      BY <2>1, <2>4, <3>1, <3>4, CleanupReplaces
    <3>5. CASE PostInline(p) \/ ListSummary(p) \/ PatchSummary(p) \/ PostSummary(p)
               \/ CompleteCheckRun(p)
      BY <2>1, <2>4, <3>1, <3>5, PostReplaces
    <3> QED
      BY <1>2, <2>1, <3>2, <3>3, <3>4, <3>5 DEF PublisherStep
  <2> QED
    BY <2>2, <2>3, <2>4 DEF LatestInv
<1> QED
  BY <1>1, <1>2

\* Another publisher that stays the latest of its scope is of another scope.
LEMMA OtherLatest ==
  ASSUME LatestInv, TypeOK, NEW p \in Publishers, PublisherStep(p),
         NEW q \in latest' \ {p}, q \in Publishers
  PROVE  q \in latest /\ scope[q] # scope[p]
<1>1. q \in latest
  BY StepTypes DEF OwnTypes
<1>2. Busy(p) \/ Start(p)
  BY DEF PublisherStep, WriteFile, WriteError, GetToken, ListInline, DeleteInline, DeleteGone,
         EndCleanup, PostInline, ListSummary, PatchSummary, PostSummary, CompleteCheckRun,
         CaughtError, NoAnswer, Calling, Busy
<1>3. Start(p) => scope[q] # scope[p]
  BY DEF Start
<1>4. Busy(p) => scope[q] # scope[p]
  BY <1>1 DEF LatestInv
<1> QED
  BY <1>1, <1>2, <1>3, <1>4

LEMMA LatestNext == LatestInv /\ MarkersInv /\ IInv /\ IdsInv /\ [Next]_vars => LatestInv'
<1> SUFFICES ASSUME LatestInv, MarkersInv, IInv, IdsInv, [Next]_vars PROVE LatestInv'
  OBVIOUS
<1>0. TypeOK /\ TypeOK'
  BY TypesNext DEF MarkersInv
<1>1. ASSUME NEW p \in Publishers, PublisherStep(p) PROVE LatestInv'
  <2>1. /\ UNCHANGED <<mode, scope, findings>>
        /\ \A q \in Publishers \ {p} : pc'[q] = pc[q] /\ found'[q] = found[q]
    BY <1>0, <1>1, StepTypes, OthersStay DEF OwnTypes
  <2>2. ASSUME NEW x \in latest'
        PROVE  /\ \A q \in Publishers : scope'[q] = scope'[x] /\ q # x => ~ Busy(q)'
               /\ pc'[x] \notin {"idle", "failed"}
               /\ mode' = "github_app" => Replaced(x)'
    <3>1. x \in Publishers
      BY <1>0, <2>2 DEF TypeOK
    <3>2. CASE x = p
      BY <1>1, <2>1, <2>2, <3>2, LatestStep DEF Busy
    <3>3. CASE x # p
      <4>1. x \in latest /\ scope[x] # scope[p]
        BY <1>0, <1>1, <2>2, <3>1, <3>3, OtherLatest
      <4>2. \A q \in Publishers : scope'[q] = scope'[x] /\ q # x => ~ Busy(q)'
        BY <2>1, <4>1 DEF LatestInv, Busy
      <4>3. PICK s : s = scope[x]
        OBVIOUS
      <4>4. /\ OursIn(inline', s) = OursIn(inline, s)
            /\ SummariesOf(s)' = SummariesOf(s)
            /\ \A i \in SummariesOf(s) : summaries'[i] = summaries[i]
        BY <1>1, <4>1, <4>3, OtherScopeStays
      <4>5. mode' = "github_app" => Replaced(x)'
        BY <2>1, <3>1, <3>3, <4>1, <4>3, <4>4, ReplacedStays DEF LatestInv
      <4> QED
        BY <2>1, <3>1, <3>3, <4>1, <4>2, <4>5 DEF LatestInv
    <3> QED
      BY <3>2, <3>3
  <2> QED
    BY <2>2 DEF LatestInv
<1>2. ASSUME UNCHANGED <<mode, scope, findings, pc, found, latest>>,
             \A s : /\ OursIn(inline', s) = OursIn(inline, s)
                    /\ SummariesOf(s)' = SummariesOf(s)
                    /\ \A i \in SummariesOf(s) : summaries'[i] = summaries[i]
      PROVE  LatestInv'
  <2>1. ASSUME NEW x \in latest', mode' = "github_app" PROVE Replaced(x)'
    <3>1. Replaced(x) /\ x \in Publishers
      BY <1>0, <1>2, <2>1 DEF LatestInv, TypeOK
    <3>2. PICK s : s = scope[x]
      OBVIOUS
    <3> QED
      BY <1>2, <3>1, <3>2, ReplacedStays
  <2>2. \A q \in Publishers : Busy(q)' <=> Busy(q)
    BY <1>2 DEF Busy
  <2> HIDE DEF Replaced, Busy
  <2> QED
    BY <1>2, <2>1, <2>2 DEF LatestInv
<1>3. ASSUME NEW f \in Scopes, ForeignComment(f) PROVE LatestInv'
  <2>1. UNCHANGED <<mode, scope, findings, pc, found, latest>>
    BY <1>3 DEF ForeignComment
  <2>2. ASSUME NEW s
        PROVE  /\ OursIn(inline', s) = OursIn(inline, s)
               /\ SummariesOf(s)' = SummariesOf(s)
               /\ \A i \in SummariesOf(s) : summaries'[i] = summaries[i]
    BY <1>0, <1>3, ForeignStays
  <2> QED
    BY <1>2, <2>1, <2>2
<1>4. CASE UNCHANGED vars
  <2>1. UNCHANGED <<inline, summaries, mode, scope, findings, pc, found, latest>>
    BY <1>4 DEF vars, github
  <2>2. ASSUME NEW s
        PROVE  /\ OursIn(inline', s) = OursIn(inline, s)
               /\ SummariesOf(s)' = SummariesOf(s)
               /\ \A i \in SummariesOf(s) : summaries'[i] = summaries[i]
    BY <2>1 DEF SummariesOf, Own
  <2> QED
    BY <1>2, <2>1, <2>2
<1> QED
  BY <1>1, <1>3, <1>4 DEF Next

LEMMA ShownIsLast ==
  ASSUME LatestInv, SettledInv, TypeOK
  PROVE  ShowsLastReview
<1> SUFFICES ASSUME mode = "github_app", NEW p \in latest, pc[p] = "done"
             PROVE  /\ {inline[i].id : i \in InlineOf(scope[p])}
                           = {<<p, k>> : k \in 1 .. findings[p]}
                    /\ NewestSummaryBy(p)
                    /\ scope[p] \in settled => Cardinality(SummariesOf(scope[p])) = 1
  BY DEF ShowsLastReview
<1>1. Replaced(p) /\ p \in Publishers
  BY DEF LatestInv, TypeOK
<1>2. {inline[i].id : i \in InlineOf(scope[p])} = {c.id : c \in OursIn(inline, scope[p])}
  <2>1. \A i \in InlineOf(scope[p]) : inline[i] \in OursIn(inline, scope[p])
    BY DEF InlineOf, OursIn
  <2>2. \A c \in OursIn(inline, scope[p]) : \E i \in InlineOf(scope[p]) : inline[i] = c
    BY DEF InlineOf, OursIn
  <2> QED
    BY <2>1, <2>2
<1>3. {inline[i].id : i \in InlineOf(scope[p])} = {<<p, k>> : k \in 1 .. findings[p]}
  BY <1>1, <1>2 DEF Replaced, IdsOfReview
<1>4. NewestSummaryBy(p)
  BY <1>1 DEF Replaced
<1>5. ASSUME scope[p] \in settled PROVE Cardinality(SummariesOf(scope[p])) = 1
  <2>1. OneSummary(scope[p])
    BY <1>5 DEF SettledInv, ScopeSettled
  <2>2. PICK i \in SummariesOf(scope[p]) : TRUE
    BY <1>4 DEF NewestSummaryBy
  <2>3. SummariesOf(scope[p]) = {i}
    BY <2>1, <2>2 DEF OneSummary
  <2> QED
    BY <2>3, FS_Singleton
<1> QED
  BY <1>3, <1>4, <1>5

\* A publication that no other of its scope overlapped or followed, none of whose calls
\* failed and whose listings reached all our comments ends with the inline comments of its
\* scope being exactly its own and with its own text in the newest summary, whatever
\* earlier publications left and whoever else publishes or writes meanwhile.  Where the
\* scope has seen no overlap or failure at all, that summary is the only one
\* (publisher.py, publish).
THEOREM LastReviewShown == Spec => []ShowsLastReview
<1> DEFINE Invs == LatestInv /\ SettledInv /\ MarkersInv /\ IInv /\ IdsInv
<1>1. Init => Invs
  <2>1. Init => LatestInv
    BY DEF Init, LatestInv
  <2> QED
    BY <2>1, SettledInit, MarkersInit, InitInv, IdsInit
<1>2. Invs /\ [Next]_vars => Invs'
  BY LatestNext, SettledNext, MarkersNext, NextInv, IdsNext
<1>3. Invs => ShowsLastReview
  BY ShownIsLast DEF MarkersInv
<1> HIDE DEF Invs
<1> QED
  BY <1>1, <1>2, <1>3, PTL DEF Spec

=============================================================================
