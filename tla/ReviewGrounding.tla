--------------------------- MODULE ReviewGrounding ---------------------------
(***************************************************************************)
(* What a review rests on: the nodes of the review graph from the start of *)
(* the service to the prompt (backend/app/services/review_graph.py) with   *)
(* the batches of prompt_builder.py.  Skills, knowledge cards and policies *)
(* are chosen once for the whole pull request and again for the files of   *)
(* each batch; what the batches were given is put together for the review. *)
(*                                                                         *)
(* A step is a node of the graph, or one batch.  Which files share a       *)
(* batch, in which order, and which lose their patch to a budget is the    *)
(* subject of PromptBatches; here it is any choice.                        *)
(***************************************************************************)
EXTENDS PolicyHarness, PolicyRanking

CONSTANTS
    Requests,     \* reviews that are asked for: files, checks, mode, words,
                  \*   policies, and what the policy index holds (indexed, has_policy)
    Manifests,    \* what the files of review_harness may say
    CandidateTop  \* candidate_top_k, 8

GroundingAssumption ==
    /\ {CandidateTop, QueryFiles, SourceLimit, Threshold} \subseteq Nat \ {0}
    /\ {Bonus, Precision} \subseteq Nat
    /\ \A r \in Requests :
        /\ r.mode \in ReviewModes
        /\ r.checks \subseteq CheckResults
        /\ r.files \in Seq(Elements(r.files))
        /\ \A file \in Elements(r.files) : {"path", "patch", "removed"} \subseteq DOMAIN file
        /\ r.policies \in Seq(Elements(r.policies)) /\ r.indexed \in Seq(Elements(r.indexed))
        /\ \A chunk \in Elements(r.policies) \cup Elements(r.indexed) :
              IsFiniteSet(chunk.words)
    /\ \A m \in Manifests :
        /\ m.skills \in Seq(Elements(m.skills)) /\ m.cards \in Seq(Elements(m.cards))
        /\ \A skill \in Elements(m.skills) :
              {skill.id, skill.priority} \subseteq Int /\ IsFiniteSet(skill.signals)
        /\ \A card \in Elements(m.cards) : card.id \in Int /\ IsFiniteSet(card.signals)
        /\ {m.max_skills, m.max_cards} \subseteq [RouteNames -> Nat]
        /\ m.max_policies_per_batch \in Nat \ {0}

VARIABLES
    request,
    manifest,
    node,       \* the next node of the graph, or "refused"
    route,
    metrics,    \* request.complexity_metrics
    harness,    \* review_harness: for the whole request, from build_prompt on applied_harness
    policies,   \* those retrieved, from build_prompt on those of the batches
    batches     \* the prompt batches: [files, cut, harness, policies], files being the
                \*   places of the files of the batch and cut the words that fell to a
                \*   budget, each with the place of its file

vars == <<request, manifest, node, route, metrics, harness, policies, batches>>

NoHarness ==
    [signals |-> {}, skills |-> <<>>, cards |-> <<>>, policy_types |-> {},
     candidate_policy_types |-> {}]

Init ==
    /\ request \in Requests
    /\ manifest \in Manifests
    /\ node = "start"
    /\ route = [name |-> Standard, use_rag |-> FALSE]
    /\ metrics = {}
    /\ harness = NoHarness
    /\ policies = <<>>
    /\ batches = <<>>

\* PolicyHarness(root): the service does not start with a manifest it refuses.
Start ==
    /\ node = "start"
    /\ node' = IF Acceptable(manifest) THEN "select_route" ELSE "refused"
    /\ UNCHANGED <<request, manifest, route, metrics, harness, policies, batches>>

\* extract_features and select_route
ChooseRoute ==
    /\ node = "select_route"
    /\ LET available == request.policies # <<>> \/ request.has_policy
       IN  route' = SelectRoute(ExtractFeatures(request.checks, available), request.mode)
    /\ node' = "analyze_complexity"
    /\ UNCHANGED <<request, manifest, metrics, harness, policies, batches>>

\* Also for a deep review that failed checks have sent another way.
AnalyzeComplexityNode ==
    /\ node = "analyze_complexity"
    /\ metrics' = IF request.mode = Deep THEN AnalyzeComplexity(request.files) ELSE {}
    /\ node' = "select_harness"
    /\ UNCHANGED <<request, manifest, route, harness, policies, batches>>

\* The skills and cards for some files of the request, with their measurements.
SelectFor(files, measured) ==
    Select(manifest, files, request.checks, measured, route.name)

SelectHarness ==
    /\ node = "select_harness"
    /\ harness' = SelectFor(Elements(request.files), metrics)
    /\ node' = IF route.use_rag THEN "retrieve" ELSE "skip"
    /\ UNCHANGED <<request, manifest, route, metrics, policies, batches>>

\* The index ranks and cuts what it holds, and the node once more with the policies
\* of the request.
RetrievePolicies ==
    /\ node = "retrieve"
    /\ LET query == QueryWords(request.words, request.files)
           types == harness.candidate_policy_types
           found == RankPolicyChunks(request.indexed, query, CandidateTop, types)
       IN  policies' = RankPolicyChunks(request.policies \o found, query, CandidateTop, types)
    /\ node' = "build_prompt"
    /\ UNCHANGED <<request, manifest, route, metrics, harness, batches>>

SkipPolicyRetrieval ==
    /\ node = "skip"
    /\ policies' = <<>>
    /\ node' = "build_prompt"
    /\ UNCHANGED <<request, manifest, route, metrics, harness, batches>>

-----------------------------------------------------------------------------
(* build_prompt *)

Places == DOMAIN request.files
InBatches == UNION {Elements(batches[b].files) : b \in DOMAIN batches}

\* The lists of some of the elements of a finite set, each at most once.
Arrangements(S) ==
    {list \in UNION {[1 .. n -> S] : n \in 0 .. Cardinality(S)} :
        \A i, j \in DOMAIN list : list[i] = list[j] => i = j}

\* The file in a place of the request, with what is left of its patch.
Kept(place, cut) ==
    LET left(words) == {w \in words : <<place, w>> \notin cut}
    IN  [request.files[place] EXCEPT !.patch = left(@), !.removed = left(@)]

\* All words of the patches of some files, which a budget may cut away.
Cuttable(places) ==
    UNION {{place} \X (request.files[place].patch \cup request.files[place].removed) :
              place \in places}

\* One turn of the loop of build_review_prompt_batches: the harness is selected and
\* the policies are ranked once more, for the files of the batch.
Batch(files, cut) ==
    LET kept == [i \in DOMAIN files |-> Kept(files[i], cut)]
        own == SelectFor(Elements(kept), {m \in metrics : m.file \in Elements(files)})
    IN  [files |-> files,
         cut |-> cut,
         harness |-> own,
         policies |->
            IF route.use_rag
              THEN RankPolicyChunks(policies, QueryWords(request.words, kept),
                                    manifest.max_policies_per_batch, own.policy_types)
              ELSE policies]

\* Only a pull request without files has a batch without files.
BuildBatch ==
    /\ node = "build_prompt"
    /\ \E files \in Arrangements(Places \ InBatches) :
        /\ files # <<>> \/ (Places = {} /\ batches = <<>>)
        /\ \E cut \in SUBSET Cuttable(Elements(files)) :
              batches' = Append(batches, Batch(files, cut))
    /\ UNCHANGED <<request, manifest, node, route, metrics, harness, policies>>

\* The values of a dict with these fields of an item as its key, filled from one list
\* after the other: the first item with a key gives the place, the last one the value.
Values(lists, fields) ==
    LET places == UNION {{l} \X DOMAIN lists[l] : l \in DOMAIN lists}
        item(p) == lists[p[1]][p[2]]
        before(p, q) == p[1] < q[1] \/ (p[1] = q[1] /\ p[2] < q[2])
        same(p) == {q \in places : \A f \in fields : item(q)[f] = item(p)[f]}
        firsts == {p \in places : \A q \in same(p) : ~before(q, p)}
        order == InOrder([p \in firsts |-> {q \in firsts : before(q, p)}])
        last(p) == CHOOSE q \in same(p) : \A r \in same(p) : ~before(q, r)
    IN  [n \in DOMAIN order |-> item(last(order[n]))]

\* What each batch was given.
SkillsGiven == [b \in DOMAIN batches |-> batches[b].harness.skills]
CardsGiven == [b \in DOMAIN batches |-> batches[b].harness.cards]
PoliciesGiven == [b \in DOMAIN batches |-> batches[b].policies]

\* What was chosen for the whole request is taken when no batch has any.
OrElse(list, default) == IF list = <<>> THEN default ELSE list

\* The harness of the whole request is the harness of the review.
AppliedForAll == harness

Applied ==
    LET skills == OrElse(Values(SkillsGiven, {"id"}), harness.skills)
    IN  [harness EXCEPT
            !.skills = skills,
            !.cards = OrElse(Values(CardsGiven, {"id"}), harness.cards),
            !.policy_types = PolicyTypes(Elements(skills))]

BuildPrompt ==
    /\ node = "build_prompt"
    /\ batches # <<>>
    /\ harness' = Applied
    /\ policies' = Values(PoliciesGiven, {"source", "section"})
    /\ node' = "call_llm"
    /\ UNCHANGED <<request, manifest, route, metrics, batches>>

Next ==
    \/ Start \/ ChooseRoute \/ AnalyzeComplexityNode \/ SelectHarness
    \/ RetrievePolicies \/ SkipPolicyRetrieval \/ BuildBatch \/ BuildPrompt

Spec == Init /\ [][Next]_vars

-----------------------------------------------------------------------------
(* Properties *)

Section(chunk) == <<chunk.source, chunk.section>>
Ids(list) == {item.id : item \in Elements(list)}

TypeOK ==
    /\ request \in Requests /\ manifest \in Manifests
    /\ node \in {"start", "refused", "select_route", "analyze_complexity", "select_harness",
                 "retrieve", "skip", "build_prompt", "call_llm"}
    /\ route \in [name : RouteNames, use_rag : BOOLEAN]
    /\ \A h \in {harness} \cup {batches[b].harness : b \in DOMAIN batches} :
        /\ h.skills \in Seq(Elements(manifest.skills))
        /\ h.cards \in Seq(Elements(manifest.cards))
        /\ Distinct(h.skills) /\ Distinct(h.cards)
    /\ Elements(policies) \subseteq Elements(request.policies) \cup Elements(request.indexed)
    /\ \A b \in DOMAIN batches : Elements(batches[b].files) \subseteq Places

\* A marker that is a word of the file's path and one that is in the lines its patch
\* adds or keeps, in one file and in what the batch still shows of its patch.
EvidenceTogether(card, batch) ==
    \E place \in Elements(batch.files) :
        /\ \E m \in card.path_markers : Finds(m, request.files[place].path)
        /\ \E m \in card.patch_markers : Finds(m, Kept(place, batch.cut).patch)

\* A model is given only cards it can work with: a card that asks for path and patch
\* has both in one file of the very batch it goes with, not in two files, in a removed
\* line or in a patch the budget took away; and its sources are registered with an
\* https link, which the comment shows (policy_harness.py, matched_same_file; the
\* checks of __init__).
CardsHaveEvidence ==
    \A b \in DOMAIN batches : \A card \in Elements(batches[b].harness.cards) :
        /\ card.require_path_and_patch => EvidenceTogether(card, batches[b])
        /\ \A id \in card.sources :
              \E source \in Elements(manifest.sources) : source.id = id /\ source.https

\* A skill for which there is any card keeps its best one, however many cards of
\* other skills score higher, unless the list is full with one card each of skills
\* ranked before it (policy_harness.py, the two phases behind ranked_cards).
SkillsRepresented ==
    \A b \in DOMAIN batches :
        LET h == batches[b].harness
            files == {Kept(place, batches[b].cut) : place \in Elements(batches[b].files)}
            candidates == Candidates(manifest, h.skills, files, h.signals, route.name)
            of(skill) == {card \in candidates : card.skill = skill.id}
            shown(skill) == of(skill) \cap Elements(h.cards)
        IN  \A s \in DOMAIN h.skills :
              of(h.skills[s]) # {} =>
                 \/ \E card \in shown(h.skills[s]) : \A other \in of(h.skills[s]) :
                       CardScore(card, files, h.signals) >= CardScore(other, files, h.signals)
                 \/ /\ Len(h.cards) >= manifest.max_cards[route.name]
                    /\ \A card \in Elements(h.cards) :
                          /\ \E e \in 1 .. s - 1 : h.skills[e].id = card.skill
                          /\ \A other \in Elements(h.cards) \ {card} :
                                other.skill # card.skill

\* A list leaves out a section of the repository's own policy that shares a word with
\* the query only for sections of the service that score its bonus more by their words.
OutscoredOnly(chunk, list, query) ==
    IsOwn(chunk) /\ Shared(chunk, query) > 0 =>
        \/ chunk \in Elements(list)
        \/ \A other \in Elements(list) :
              IsOwn(other) \/ WordScore(other, query)
                                >= WordScore(chunk, query) + Bonus * Precision

\* The repository's own policy goes before the service's, whatever its type and
\* through both rankings, up to the bonus: a section of it that concerns the request is
\* retrieved, and one that was retrieved and concerns the files of a batch is given to
\* that batch, unless it is left out for sections that earn the whole bonus by shared
\* words (rag.py, the ten points and the exception from the filter).
OwnPolicyFirst ==
    node = "build_prompt" =>
        /\ route.use_rag =>
              \A chunk \in Elements(request.policies) \cup Elements(request.indexed) :
                  OutscoredOnly(chunk, policies, QueryWords(request.words, request.files))
        /\ \A b \in DOMAIN batches : \A chunk \in Elements(policies) :
              LET shown == [i \in DOMAIN batches[b].files |->
                               Kept(batches[b].files[i], batches[b].cut)]
              IN  OutscoredOnly(chunk, batches[b].policies, QueryWords(request.words, shown))

\* What any batch was given is known to the validation of the findings, so that no
\* finding is dropped, or loses its source, for citing what its prompt offered
\* (review_graph.py, selected_policies and selected_knowledge_cards).
OfferedIsKnown ==
    node = "call_llm" =>
        \A b \in DOMAIN batches :
            /\ Ids(batches[b].harness.cards) \subseteq Ids(harness.cards)
            /\ {Section(c) : c \in Elements(batches[b].policies)}
                  \subseteq {Section(c) : c \in Elements(policies)}
=============================================================================
