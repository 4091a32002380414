--------------------------- MODULE GroundedReview ---------------------------
(***************************************************************************)
(* A review from the start of the service to its findings: ReviewGrounding *)
(* chooses what the prompts rest on, the model answers, and ReviewQuality  *)
(* judges the findings of all batches by what the batches were given       *)
(* (backend/app/services/review_graph.py, build_prompt to                  *)
(* validate_findings).                                                     *)
(***************************************************************************)
EXTENDS ReviewQuality

CONSTANTS SignalRules, Within, WordMarkers, RepositoryPolicy, Bonus, Precision,
          QueryFiles, Requests, Manifests, CandidateTop

VARIABLES request, manifest, node, route, metrics, harness, policies, batches

Grounding == INSTANCE ReviewGrounding

ASSUME GroundingAssumption == Grounding!GroundingAssumption

\* The patches are those of the files of the requests, the cards those of the manifests.
ASSUME GivenAssumption ==
    /\ \A r \in Requests : DOMAIN r.files \subseteq DOMAIN Patches
    /\ \A m \in Manifests : {card.id : card \in Elements(m.cards)} \subseteq DOMAIN Cards

grounding == <<request, manifest, node, route, metrics, harness, policies, batches>>
all == <<vars, grounding>>

\* The arguments of validate_and_rank_findings: the files and measurements of the whole
\* request, the cards and policies of the batches.
Given ==
    [files |-> DOMAIN request.files,
     route |-> route.name,
     cards |-> {card.id : card \in Elements(harness.cards)},
     metrics |-> metrics,
     policies |-> [i \in DOMAIN policies |->
                      [source |-> policies[i].source, section |-> policies[i].section]]]

GroundedInit ==
    /\ Grounding!Init
    /\ given = Given
    /\ Init

Ground ==
    /\ Grounding!Next
    /\ given' = Given'
    /\ UNCHANGED <<phase, received, valid, accepted, report>>

ValidateFindings ==
    /\ node = "call_llm"
    /\ Next
    /\ UNCHANGED grounding

GroundedNext == Ground \/ ValidateFindings

GroundedSpec == GroundedInit /\ [][GroundedNext]_all

-----------------------------------------------------------------------------
(* Properties *)

\* The types of both parts.
TypesOK == TypeOK /\ Grounding!TypeOK

\* The review never says the same thing twice at one place, and names no line that is
\* not in the diff: NoTwins and LinesInDiff.
SaidOnceInDiff == NoTwins /\ LinesInDiff

\* What is said about the complexity of a function is true: in the file of the finding,
\* the function is above the threshold and, if the old file could be read, more complex
\* than it was there, whatever function the model had in mind and whichever files were
\* downloaded (complexity_metrics.py and the check of the complexity card).
ComplexityTrue ==
    \A f \in Elements(accepted) : KnownCard(f) /\ Cards[f.card].complexity =>
        LET file == request.files[f.file] IN
        /\ file.head.functions[f.symbol] > Threshold
        /\ file.base.readable =>
              \/ f.symbol \notin DOMAIN file.base.functions
              \/ file.base.functions[f.symbol] < file.head.functions[f.symbol]

\* The best findings within the limits of their cards, and with true measurements:
\* BestWithinCaps and ComplexityTrue.
BestJustified == BestWithinCaps /\ ComplexityTrue

\* The properties of ReviewGrounding, under their names there.
CardsHaveEvidence == Grounding!CardsHaveEvidence
SkillsRepresented == Grounding!SkillsRepresented
OwnPolicyFirst == Grounding!OwnPolicyFirst
OfferedIsKnown == Grounding!OfferedIsKnown
=============================================================================
