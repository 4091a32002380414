-------------------------- MODULE MCGroundedReview --------------------------
(* Requests of up to two files in which a signal, the marker of a path and that *)
(* of a patch stand in one file, in two, or in removed lines; all routes, with  *)
(* and without policies.  One good manifest and one for each mistake it may     *)
(* have.  Findings fail each check, are corrected in each way, and become equal *)
(* by a correction.                                                             *)
EXTENDS GroundedReview

MCSignalRules ==
    [s \in {"security", "input_boundary"} |->
        IF s = "security"
          THEN [paths |-> {"auth"}, patch |-> {"token"}, require_patch |-> FALSE]
          ELSE [paths |-> {"api"}, patch |-> {"execute("}, require_patch |-> TRUE]]
MCWords == {"api", "auth", "docs", "execute(", "token", "tokenizer", "text", "title"}
MCWithin == [w \in MCWords |-> IF w = "tokenizer" THEN {"token", w} ELSE {w}]

\* Ids: skill 1 is always taken, 2 needs security, 3 needs input_boundary, 4 is for
\* failed checks.
Skill ==
    [id |-> 1, routes |-> {Standard, Deep}, signals |-> {}, always |-> TRUE,
     always_routes |-> {}, priority |-> 10, policy_types |-> {"test"}, sources |-> {"s1"},
     readable |-> TRUE]
MCSkills ==
    <<[Skill EXCEPT !.id = 4, !.routes = {Failure}, !.signals = {"ci_failure"}],
      Skill,
      [Skill EXCEPT !.id = 2, !.signals = {"security"}, !.always = FALSE,
                    !.always_routes = {Deep}, !.priority = 50, !.policy_types = {"security"}],
      [Skill EXCEPT !.id = 3, !.signals = {"input_boundary"}, !.always = FALSE,
                    !.priority = 40, !.policy_types = {"security"}]>>

Card ==
    [id |-> 1, skill |-> 1, routes |-> {Deep}, signals |-> {}, always |-> TRUE,
     path_markers |-> {}, patch_markers |-> {}, require_patch |-> FALSE,
     require_path_and_patch |-> FALSE, sources |-> {"s1"}, complete |-> TRUE]
MCCardList ==
    <<Card,
      [Card EXCEPT !.id = 2, !.skill = 2, !.routes = {}, !.signals = {"security"},
                   !.always = FALSE, !.path_markers = {"auth"}, !.patch_markers = {"token"}],
      [Card EXCEPT !.id = 3, !.skill = 2, !.routes = {}, !.signals = {"security"},
                   !.always = FALSE, !.patch_markers = {"token"}, !.require_patch = TRUE],
      [Card EXCEPT !.id = 4, !.skill = 3, !.routes = {}, !.signals = {"input_boundary"},
                   !.always = FALSE, !.path_markers = {"api"}, !.patch_markers = {"execute("},
                   !.require_path_and_patch = TRUE],
      [Card EXCEPT !.id = 5, !.signals = {"complexity_regression"}, !.always = FALSE],
      [Card EXCEPT !.id = 6, !.skill = 4, !.routes = {Failure}]>>

Good ==
    [well_formed |-> TRUE,
     sources |-> <<[id |-> "s1", complete |-> TRUE, https |-> TRUE]>>,
     design_sources |-> {"s1"},
     skills |-> MCSkills,
     cards |-> MCCardList,
     max_skills |-> [r \in RouteNames |-> IF r = Failure THEN 1 ELSE 3],
     max_cards |-> [r \in RouteNames |-> IF r = Failure THEN 1 ELSE 2],
     max_policies_per_batch |-> 1]

MCManifests ==
    {Good,
     [Good EXCEPT !.well_formed = FALSE],
     [Good EXCEPT !.sources = @ \o @],
     [Good EXCEPT !.sources[1].https = FALSE],
     [Good EXCEPT !.design_sources = {"s2"}],
     [Good EXCEPT !.skills[2].sources = {}],
     [Good EXCEPT !.skills[2].readable = FALSE],
     [Good EXCEPT !.skills[2].id = 4],
     [Good EXCEPT !.cards[2].sources = {"s2"}],
     [Good EXCEPT !.cards[2].skill = 9],
     [Good EXCEPT !.cards[2].complete = FALSE],
     [Good EXCEPT !.cards[2].id = 1]}

NoSourceText == [readable |-> FALSE, functions |-> [s \in {} |-> 0]]
File(path, patch) ==
    [path |-> path, patch |-> patch, removed |-> {}, python |-> FALSE, control_flow |-> 0,
     changed |-> 0, base |-> NoSourceText, head |-> NoSourceText]
\* The first function has grown across the threshold, the second has come down to a
\* value above it, the third is new.
PythonFile(path, patch, flow, readable) ==
    [File(path, patch) EXCEPT
        !.python = TRUE, !.control_flow = flow,
        !.base = [readable |-> readable, functions |-> [grown |-> 1, down |-> 4]],
        !.head = [readable |-> TRUE, functions |-> [grown |-> 3, down |-> 3, new |-> 2]]]
Chunk(source, section, type, words) ==
    [source |-> source, section |-> section, type |-> type, words |-> words]
Own == Chunk("own.md", "Rules", "general", {"token", "auth"})
MCIndexed ==
    <<Chunk("a.md", "Intro", "security", {"token", "title", "text"}),
      Chunk("a.md", "Rules", "security", {"token"}),
      Chunk("b.md", "Rules", "test", {"execute("})>>

Review ==
    [files |-> <<File({"api"}, {"execute("}), File({"auth"}, {"token"})>>,
     checks |-> {}, mode |-> "auto", words |-> {"title"},
     policies |-> <<>>, indexed |-> MCIndexed, has_policy |-> TRUE]

MCRequests ==
    {Review,
     [Review EXCEPT !.files = <<>>],
     \* The markers in two files; in a longer word; in a removed line.
     [Review EXCEPT !.files = <<File({"api"}, {"text"}), File({"docs"}, {"execute("})>>],
     [Review EXCEPT !.files = <<File({"auth"}, {"tokenizer"})>>, !.policies = <<Own>>],
     [Review EXCEPT !.files = <<[File({"api"}, {"text"}) EXCEPT !.removed = {"execute("}]>>],
     \* The policy of the repository with, and without, those of the service.
     [Review EXCEPT !.policies = <<Own>>],
     \* The same with a section that scores more, and a patch of two words.
     [Review EXCEPT !.files = <<File({"api"}, {"execute(", "text"})>>,
                    !.policies = <<[Own EXCEPT !.words = {"api", "rules"}]>>,
                    !.indexed = <<Chunk("a.md", "Long", "security",
                                        {"api", "title", "text", "execute("})>>],
     [Review EXCEPT !.policies = <<Own, [Own EXCEPT !.section = "More"]>>,
                    !.indexed = <<>>, !.has_policy = FALSE],
     \* A deep review, with measurements of the file with more control flow, or with more
     \* changed lines; failed checks.
     [Review EXCEPT !.mode = Deep,
                    !.files = <<PythonFile({"api"}, {"text"}, 1, TRUE),
                                PythonFile({"auth"}, {"token"}, 0, TRUE)>>],
     [Review EXCEPT !.mode = Deep,
                    !.files = <<PythonFile({"api"}, {"text"}, 0, TRUE),
                                [PythonFile({"auth"}, {"token"}, 0, FALSE) EXCEPT
                                    !.changed = 1]>>],
     [Review EXCEPT !.mode = Deep, !.checks = {[kinds |-> {"test"}, result |-> "failed"],
                                              [kinds |-> {"lint"}, result |-> "passed"]}]}

Hunk(start) == [kind |-> "hunk", start |-> start]
Line(kind) == [kind |-> kind, dashed |-> FALSE]
MCPatches ==
    <<<<Line("kept"), Hunk(3), Line("kept"), Line("removed"), Line("added"),
        Line("no_newline")>>,
      <<Hunk(2), Line("removed"), Hunk(7), Line("added")>>>>
\* A removed line whose text begins with two dashes.
MCDashedPatches == [MCPatches EXCEPT ![1][4].dashed = TRUE]
MCCards ==
    [c \in 1 .. 6 |-> [cap |-> IF c \in {3, 5} THEN 1 ELSE 0,
                       forbidden |-> IF c = 3 THEN {"claim"} ELSE {},
                       complexity |-> c = 5]]
MCLimits == [r \in RouteNames |-> IF r = Failure THEN 1 ELSE 2]

Cites(source, section) == [source |-> source, section |-> section]
Plain ==
    [file |-> 1, text |-> "korean", severity |-> 0, source |-> NoSource, card |-> 2,
     claim |-> "fair", symbol |-> None, start |-> 3, end |-> 4, message |-> "m",
     confidence |-> 1]

MCAnswers ==
    {Plain,
     [Plain EXCEPT !.file = 3],
     [Plain EXCEPT !.text = "empty"],
     [Plain EXCEPT !.text = "english", !.source = Cites("c.md", None)],
     [Plain EXCEPT !.card = None, !.source = Cites("c.md", None)],
     [Plain EXCEPT !.card = 99],
     [Plain EXCEPT !.card = 3, !.message = "n"],
     [Plain EXCEPT !.card = 3, !.claim = "claim"],
     [Plain EXCEPT !.card = 5, !.symbol = "grown", !.message = "n", !.start = 9],
     [Plain EXCEPT !.card = 5, !.symbol = "down"],
     [Plain EXCEPT !.card = 4, !.start = 5, !.end = 5],
     [Plain EXCEPT !.start = 0, !.end = 0, !.source = Cites("a.md", None), !.confidence = 2],
     [Plain EXCEPT !.severity = 2, !.confidence = 0, !.end = 9,
                   !.source = Cites("a.md", "Rules")],
     [Plain EXCEPT !.file = 2, !.start = 7, !.end = 3, !.severity = 1]}
=============================================================================
