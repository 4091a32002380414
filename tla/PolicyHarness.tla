---------------------------- MODULE PolicyHarness ----------------------------
(***************************************************************************)
(* What a reviewer model is told to look for                               *)
(* (backend/app/services/policy_harness.py and the signals of              *)
(* review_harness/scripts/diff_signals.py): skills are enabled by signals  *)
(* in the changed files, the best of them are taken, and each brings the   *)
(* knowledge cards whose markers occur in the files.                       *)
(*                                                                         *)
(* A text is the set of the words in it.  A marker of letters only must be *)
(* a word of its own; any other marker, and every marker of a signal, may  *)
(* also stand inside a word.  An id is a number that stands for its place  *)
(* in the order of the strings.                                            *)
(***************************************************************************)
EXTENDS Ordering, Routing, Complexity

CONSTANTS
    SignalRules,   \* SIGNAL_RULES: of each signal, its markers and require_patch
    Within,        \* of each word, the markers that occur in it
    WordMarkers    \* the markers a card finds as whole words only

Elements(list) == {list[i] : i \in DOMAIN list}
Distinct(list) == \A i, j \in DOMAIN list : list[i].id = list[j].id => i = j

-----------------------------------------------------------------------------
(* __init__: a manifest with any mistake in it is refused. *)

Acceptable(manifest) ==
    LET known == {source.id : source \in Elements(manifest.sources)} IN
    /\ manifest.well_formed
    /\ Distinct(manifest.sources) /\ Distinct(manifest.skills) /\ Distinct(manifest.cards)
    /\ \A source \in Elements(manifest.sources) : source.complete /\ source.https
    /\ \A skill \in Elements(manifest.skills) :
          /\ skill.readable
          /\ skill.sources # {} /\ skill.sources \subseteq known
    /\ manifest.design_sources \subseteq known
    /\ \A card \in Elements(manifest.cards) :
          /\ card.complete
          /\ \E skill \in Elements(manifest.skills) : skill.id = card.skill
          /\ card.sources # {} /\ card.sources \subseteq known

-----------------------------------------------------------------------------
(* analyze_diff *)

Occurs(marker, text) == \E word \in text : marker \in Within[word]

\* What a patch adds or keeps; lines it removes are no signal.
Reviewable(file) == file.patch

Shows(signal, file) ==
    LET rule == SignalRules[signal]
        inPatch == \E marker \in rule.patch : Occurs(marker, Reviewable(file))
        inPath == \E marker \in rule.paths : Occurs(marker, file.path)
    IN  inPatch \/ (inPath /\ ~rule.require_patch)

\* What the files and the measurements of their functions are signs of.
SignalsOf(files, checks, metrics) ==
    {signal \in DOMAIN SignalRules : \E file \in files : Shows(signal, file)}
    \cup (IF \E c \in checks : c.result = "failed" THEN {"ci_failure"} ELSE {})
    \cup (IF metrics # {} THEN {"complexity_measured"} ELSE {})
    \cup (IF \E m \in metrics : Regressed(m) THEN {"complexity_regression"} ELSE {})

-----------------------------------------------------------------------------
(* select: the skills *)

Always(skill, route) == skill.always \/ route \in skill.always_routes

Enabled(manifest, signals, route) ==
    {skill \in Elements(manifest.skills) :
        /\ route \in skill.routes
        /\ Always(skill, route) \/ skill.signals \cap signals # {}}

SkillScore(skill, signals, route) ==
    (IF Always(skill, route) THEN 100 ELSE 0)
    + skill.priority + 20 * Cardinality(skill.signals \cap signals)

\* sorted(items, key=(-score, id)), for the score of each item.
Ranked(score) ==
    LET ahead(a, b) == score[a] > score[b] \/ (score[a] = score[b] /\ a.id < b.id)
    IN  InOrder([a \in DOMAIN score |-> {b \in DOMAIN score : ahead(b, a)}])

RankedSkills(manifest, signals, route) ==
    Ranked([skill \in Enabled(manifest, signals, route) |->
               SkillScore(skill, signals, route)])

-----------------------------------------------------------------------------
(* select: the cards *)

Finds(marker, text) == IF marker \in WordMarkers THEN marker \in text ELSE Occurs(marker, text)
InPath(card, files) == \E f \in files, m \in card.path_markers : Finds(m, f.path)
InPatch(card, files) == \E f \in files, m \in card.patch_markers : Finds(m, Reviewable(f))
InOneFile(card, files) == \E f \in files : InPath(card, {f}) /\ InPatch(card, {f})

\* Markers of the path and of the patch that may be those of two files.
MarkedAnywhere(card, files) ==
    /\ card.require_patch => InPatch(card, files)
    /\ card.require_path_and_patch => InPath(card, files) /\ InPatch(card, files)
    /\ \/ card.path_markers \cup card.patch_markers = {}
       \/ InPath(card, files) \/ InPatch(card, files) \/ card.always

Marked(card, files) ==
    /\ card.require_patch => InPatch(card, files)
    /\ card.require_path_and_patch => InOneFile(card, files)
    /\ \/ card.path_markers \cup card.patch_markers = {}
       \/ InPath(card, files) \/ InPatch(card, files) \/ card.always

Candidates(manifest, skills, files, signals, route) ==
    {card \in Elements(manifest.cards) :
        /\ \E skill \in Elements(skills) : skill.id = card.skill
        /\ card.routes = {} \/ route \in card.routes
        /\ card.signals = {} \/ card.signals \cap signals # {} \/ card.always
        /\ Marked(card, files)}

CardScore(card, files, signals) ==
    20 * Cardinality(card.signals \cap signals)
    + (IF InPath(card, files) THEN 10 ELSE 0) + (IF InPatch(card, files) THEN 10 ELSE 0)
    + (IF card.always THEN 5 ELSE 0)

\* Where the best card of a skill stands.
BestAt(ranked, skill) ==
    CHOOSE i \in DOMAIN ranked :
        ranked[i].skill = skill.id /\ \A j \in 1 .. i - 1 : ranked[j].skill # skill.id

\* Every skill that has a card puts its best one on the list in turn.  The list is
\* looked at after a card has been put on it, so that one always is.
BestOfEachSkill(ranked, skills, limit) ==
    LET having == {s \in DOMAIN skills :
                      \E i \in DOMAIN ranked : ranked[i].skill = skills[s].id}
        taken == FirstOf(Ascending(having), IF limit < 1 THEN 1 ELSE limit)
    IN  [k \in DOMAIN taken |-> ranked[BestAt(ranked, skills[taken[k]])]]

\* Filling the list by score alone.
FilledByScore(ranked, first, limit) == FirstOf(ranked, limit)

\* The cards with the best scores take the places that are left.
Filled(ranked, first, limit) ==
    LET rest == Ascending({i \in DOMAIN ranked : ranked[i] \notin Elements(first)})
        taken == FirstOf(rest, limit - Len(first))
    IN  first \o [k \in DOMAIN taken |-> ranked[taken[k]]]

-----------------------------------------------------------------------------
PolicyTypes(skills) == UNION {skill.policy_types : skill \in skills}

\* The whole of select for some files of a request.
Select(manifest, files, checks, metrics, route) ==
    LET signals == SignalsOf(files, checks, metrics)
        enabled == RankedSkills(manifest, signals, route)
        skills == FirstOf(enabled, manifest.max_skills[route])
        ranked == Ranked([card \in Candidates(manifest, skills, files, signals, route) |->
                             CardScore(card, files, signals)])
        limit == manifest.max_cards[route]
    IN  [signals |-> signals,
         skills |-> skills,
         cards |-> Filled(ranked, BestOfEachSkill(ranked, skills, limit), limit),
         policy_types |-> PolicyTypes(Elements(skills)),
         candidate_policy_types |-> PolicyTypes(Elements(enabled))]
=============================================================================
