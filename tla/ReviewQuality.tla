--------------------------- MODULE ReviewQuality ---------------------------
(***************************************************************************)
(* What becomes of the findings the model returned                         *)
(* (backend/app/services/review_quality.py, validate_and_rank_findings):   *)
(* each is dropped and counted, or brought into a canonical form and kept, *)
(* and the best of those kept are the findings of the review.              *)
(*                                                                         *)
(* A step is one turn of the loop over the findings; the last one ranks    *)
(* and cuts.  Which finding comes next, and whether one does, is decided   *)
(* when the loop gets to it.  What the findings are judged by is given and *)
(* stays.                                                                  *)
(***************************************************************************)
EXTENDS Sequences, Routing, Complexity

CONSTANTS
    Answers,      \* findings a model may return
    MaxAnswers,   \* bound: findings of one review
    Patches,      \* of each file, the lines of its patch
    Cards,        \* of each knowledge card, its severity cap, the claims it forbids
                  \* and whether it is the complexity card
    None,         \* no source, card or function; a line that is not given is 0
    Limits        \* ROUTE_MAX_FINDINGS

Severities == 0 .. 2     \* high, medium (also any unknown word), low
Texts == {"korean", "english", "empty"}

\* A line of a patch: the header of a hunk with the line it starts at on the right
\* side, a line of the file, or the remark that there is no newline.  A line is dashed
\* when its text begins with two dashes.
PatchLines ==
    [kind : {"hunk"}, start : Nat]
    \cup [kind : {"added", "kept", "removed", "no_newline"}, dashed : BOOLEAN]

ASSUME AnswersAssumption ==
    \A f \in Answers :
        /\ f = [file |-> f.file, text |-> f.text, severity |-> f.severity,
                source |-> f.source, card |-> f.card, claim |-> f.claim,
                symbol |-> f.symbol, start |-> f.start, end |-> f.end,
                message |-> f.message, confidence |-> f.confidence]
        /\ f.text \in Texts /\ f.severity \in Severities
        /\ {f.file, f.start, f.end, f.confidence} \subseteq Nat
ASSUME QualityAssumption ==
    /\ MaxAnswers \in Nat
    /\ Limits \in [RouteNames -> Nat]
    /\ \A file \in DOMAIN Patches : \A i \in DOMAIN Patches[file] :
          Patches[file][i] \in PatchLines
    /\ \A card \in DOMAIN Cards : Cards[card].cap \in Severities
    /\ None \notin DOMAIN Cards

VARIABLES
    given,     \* the arguments beside the findings: the changed files, the route's
               \*   name, the ids of the cards, the measurements, and the policies
    phase,     \* "validate" or "done"
    received,  \* the findings looked at
    valid,     \* accepted, before it is ranked and cut
    accepted,  \* what is returned
    report     \* the counters of the report

vars == <<given, phase, received, valid, accepted, report>>

\* The checks a finding must pass, in their order, named for their counters.
Checks == <<"unknown_file_dropped", "empty_finding_dropped", "non_korean_finding_dropped",
            "missing_knowledge_card_dropped", "invalid_knowledge_card_dropped",
            "knowledge_card_guard_dropped", "invalid_complexity_evidence_dropped">>
Counters ==
    {"accepted", "unknown_file_dropped", "empty_finding_dropped",
     "non_korean_finding_dropped", "missing_knowledge_card_dropped",
     "invalid_knowledge_card_dropped", "knowledge_card_guard_dropped",
     "invalid_complexity_evidence_dropped", "duplicate_dropped", "over_limit_dropped",
     "invalid_policy_source_removed", "severity_capped_by_card", "invalid_line_removed"}

Elements(list) == {list[i] : i \in DOMAIN list}

\* A policy_source, path#section; a section None is left out.
Citation(policy) == [source |-> policy.source, section |-> policy.section]
NoSource == [source |-> None, section |-> None]
Fields == {"file", "text", "severity", "source", "card", "claim", "symbol", "start",
           "end", "message", "confidence"}

\* The arguments the code can pass: files and cards that exist.
GivenOK ==
    /\ given = [files |-> given.files, route |-> given.route, cards |-> given.cards,
               metrics |-> given.metrics, policies |-> given.policies]
    /\ given.files \subseteq DOMAIN Patches
    /\ given.route \in RouteNames
    /\ given.cards \subseteq DOMAIN Cards
    /\ given.policies \in Seq([source : {p.source : p \in Elements(given.policies)},
                              section : {p.section : p \in Elements(given.policies)}])

TypeOK ==
    /\ GivenOK
    /\ phase \in {"validate", "done"}
    /\ received \in 0 .. MaxAnswers
    /\ \A f \in Elements(valid) \cup Elements(accepted) :
        /\ DOMAIN f = Fields
        /\ f.severity \in Severities /\ f.confidence \in 0 .. 1
        /\ f.file \in given.files
        /\ f.source = NoSource \/ \E p \in Elements(given.policies) : f.source = Citation(p)
    /\ report \in [Counters -> Nat]

Init ==
    /\ GivenOK
    /\ phase = "validate"
    /\ received = 0
    /\ valid = <<>>
    /\ accepted = <<>>
    /\ report = [c \in Counters |-> 0]

-----------------------------------------------------------------------------
(* One finding *)

Lower(s, t) == IF s >= t THEN s ELSE t
KnownCard(f) == f.card \in given.cards

\* _canonical_policy_sources: a path alone stands for its first section.
Matching(f) ==
    {i \in DOMAIN given.policies :
        /\ given.policies[i].source = f.source.source
        /\ f.source.section \in {None, given.policies[i].section}}
Source(f) ==
    IF Matching(f) = {} THEN NoSource
    ELSE Citation(given.policies[CHOOSE i \in Matching(f) : \A j \in Matching(f) : i <= j])

\* A function that is above the threshold, whether or not it was before.
MeasuredAbove(f) ==
    \E m \in given.metrics : m.symbol = f.symbol /\ m.file = f.file /\ Exceeded(m)

\* Radon measured the function in the file of the finding, above the threshold and
\* increased.
Measured(f) ==
    \E m \in given.metrics : m.symbol = f.symbol /\ m.file = f.file /\ Regressed(m)

Fails(f, check) ==
    CASE check = "unknown_file_dropped" -> f.file \notin given.files
      [] check = "empty_finding_dropped" -> f.text = "empty"
      [] check = "non_korean_finding_dropped" -> f.text = "english"
      [] check = "missing_knowledge_card_dropped" -> given.cards # {} /\ f.card = None
      [] check = "invalid_knowledge_card_dropped" -> f.card # None /\ ~KnownCard(f)
      [] check = "knowledge_card_guard_dropped" ->
            KnownCard(f) /\ f.claim \in Cards[f.card].forbidden
      [] check = "invalid_complexity_evidence_dropped" ->
            KnownCard(f) /\ Cards[f.card].complexity /\ ~Measured(f)

Passes(f) == \A i \in DOMAIN Checks : ~Fails(f, Checks[i])

\* The finding gets as far as the i-th check: it has passed all before it.
Reaches(f, i) == \A j \in 1 .. i - 1 : ~Fails(f, Checks[j])

\* The lines a patch numbers: the place of a line in its hunk after those that count.
LinesOf(patch, Counts(_)) ==
    LET hunks(i) == {h \in 1 .. i - 1 : patch[h].kind = "hunk"}
        hunk(i) == CHOOSE h \in hunks(i) : \A other \in hunks(i) : other <= h
        numbered == {i \in DOMAIN patch : Counts(patch[i]) /\ hunks(i) # {}}
    IN  {patch[hunk(i)].start + Cardinality({j \in numbered : hunk(i) < j /\ j < i}) :
            i \in numbered}

\* _right_side_diff_lines takes a removed line whose text begins with two dashes for
\* the header of a file, and counts it.
Counted(line) ==
    line.kind \in {"added", "kept"} \/ (line.kind = "removed" /\ line.dashed)
RightSideDiffLines(file) == LinesOf(Patches[file], Counted)

\* What is corrected on the way, whether or not the finding is dropped later.
CitesUnknownSource(f) == f.source # NoSource /\ Source(f) = NoSource
AboveCap(f) == KnownCard(f) /\ f.severity < Cards[f.card].cap
OffDiff(f) == f.start # 0 /\ f.start \notin RightSideDiffLines(f.file)

LineStart(f) == IF OffDiff(f) THEN 0 ELSE f.start

LineEnd(f) ==
    IF OffDiff(f) THEN 0
    ELSE IF f.start # 0 /\ (f.end < f.start \/ f.end \notin RightSideDiffLines(f.file))
    THEN f.start ELSE f.end

Severity(f) == IF KnownCard(f) THEN Lower(f.severity, Cards[f.card].cap) ELSE f.severity

\* A confidence that is taken as it comes.
NormalizedUnclamped(f) ==
    [f EXCEPT !.severity = Severity(f),
              !.source = Source(f),
              !.start = LineStart(f),
              !.end = LineEnd(f)]

Normalized(f) ==
    [f EXCEPT !.severity = Severity(f),
              !.source = Source(f),
              !.start = LineStart(f),
              !.end = LineEnd(f),
              !.confidence = IF f.confidence > 1 THEN 1 ELSE f.confidence]

\* _finding_key; message stands for category and text.
FindingKey(f) == <<f.file, f.start, f.message>>

\* Two findings that differ in their severity only.
SeenAlike(f) ==
    \E g \in Elements(valid) : FindingKey(g) = FindingKey(f) /\ g.severity = f.severity

Seen(f) == \E g \in Elements(valid) : FindingKey(g) = FindingKey(f)

\* The counters of the corrections made to a finding that gets past the cards or is
\* dropped at check i.
Noted(f, i, counter) ==
    CASE counter = "invalid_policy_source_removed" -> i > 3 /\ CitesUnknownSource(f)
      [] counter = "severity_capped_by_card" -> i > 6 /\ AboveCap(f)
      [] counter = "invalid_line_removed" -> i > 7 /\ OffDiff(f)
      [] OTHER -> FALSE

\* Duplicates that are not counted.
ReportedUnlessTwin(f, i, outcome) ==
    [c \in Counters |-> IF (c = outcome /\ i <= Len(Checks)) \/ Noted(f, i, c)
                        THEN report[c] + 1 ELSE report[c]]

\* The report after a finding that ends at check i and is counted under outcome.
Reported(f, i, outcome) ==
    [c \in Counters |-> IF c = outcome \/ Noted(f, i, c) THEN report[c] + 1 ELSE report[c]]

\* The loop gets to another finding.
Take ==
    /\ phase = "validate"
    /\ received < MaxAnswers
    /\ received' = received + 1
    /\ UNCHANGED <<given, phase, accepted>>

Drop(f) ==
    /\ Take
    /\ \E i \in DOMAIN Checks :
        /\ Reaches(f, i) /\ Fails(f, Checks[i])
        /\ report' = Reported(f, i, Checks[i])
    /\ UNCHANGED valid

DropDuplicate(f) ==
    /\ Take
    /\ Passes(f)
    /\ Seen(Normalized(f))
    /\ report' = Reported(f, Len(Checks) + 1, "duplicate_dropped")
    /\ UNCHANGED valid

Accept(f) ==
    /\ Take
    /\ Passes(f)
    /\ ~Seen(Normalized(f))
    /\ valid' = Append(valid, Normalized(f))
    /\ report' = Reported(f, Len(Checks) + 1, "none")

-----------------------------------------------------------------------------
(* All of them *)

\* The sort key: severity, confidence, path, line.
Better(f, g) ==
    \/ f.severity < g.severity
    \/ f.severity = g.severity /\ f.confidence > g.confidence
    \/ /\ f.severity = g.severity /\ f.confidence = g.confidence
       /\ f.file < g.file \/ (f.file = g.file /\ f.start < g.start)

\* sort() keeps the order of equals, so that there is one order only.
Orders(list) ==
    {order \in [DOMAIN list -> DOMAIN list] :
        \A i, j \in DOMAIN list : i < j =>
            LET f == list[order[i]]  g == list[order[j]] IN
            Better(f, g) \/ (~Better(g, f) /\ order[i] < order[j])}

Rank ==
    /\ phase = "validate"
    /\ LET limit == Limits[given.route]
           kept == IF Len(valid) > limit THEN limit ELSE Len(valid) IN
        /\ \E order \in Orders(valid) : accepted' = [i \in 1 .. kept |-> valid[order[i]]]
        /\ report' = [report EXCEPT !["over_limit_dropped"] = Len(valid) - kept,
                                    !["accepted"] = kept]
    /\ phase' = "done"
    /\ UNCHANGED <<given, received, valid>>

Next == \/ \E f \in Answers : Drop(f) \/ DropDuplicate(f) \/ Accept(f)
        \/ Rank

Spec == Init /\ [][Next]_vars

-----------------------------------------------------------------------------
(* Properties *)

Dropped ==
    report["unknown_file_dropped"] + report["empty_finding_dropped"]
    + report["non_korean_finding_dropped"] + report["missing_knowledge_card_dropped"]
    + report["invalid_knowledge_card_dropped"] + report["knowledge_card_guard_dropped"]
    + report["invalid_complexity_evidence_dropped"] + report["duplicate_dropped"]

\* The report accounts for every finding: what was received is what was accepted and
\* what was dropped, each once (the counters of validate_and_rank_findings).
Accounted ==
    /\ phase = "validate" => Dropped + Len(valid) = received
    /\ phase = "done" =>
        Dropped + report["over_limit_dropped"] + report["accepted"] = received

\* The review never says the same thing twice at one place, also when the places only
\* became the same because a line was removed (_finding_key of the normalized finding).
NoTwins ==
    \A i, j \in DOMAIN accepted :
        FindingKey(accepted[i]) = FindingKey(accepted[j]) => i = j

\* The lines that are on the right side of a diff: those added and those kept.
OnRightSide(line) == line.kind \in {"added", "kept"}

\* Every line a finding names is on the right side of the diff of its file: GitHub
\* refuses the whole inline review for a single line that is not (the publisher posts
\* one review with all of them).  review_quality.py:75 says that removed lines are left
\* out because they are not in the changed file.
LinesInDiff ==
    \A f \in Elements(accepted) :
        f.start # 0 => {f.start, f.end} \subseteq LinesOf(Patches[f.file], OnRightSide)

\* No finding is reported as more severe than the card it rests on allows, and
\* those left out for the limit are none better than those reported.
BestWithinCaps ==
    /\ \A f \in Elements(accepted) : KnownCard(f) => f.severity >= Cards[f.card].cap
    /\ phase = "done" =>
        \A f \in Elements(valid) \ Elements(accepted), g \in Elements(accepted) : ~Better(f, g)
=============================================================================
