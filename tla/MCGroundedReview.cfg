CONSTANTS
    SignalRules <- MCSignalRules
    Within <- MCWithin
    WordMarkers = {"auth", "token", "api"}
    RepositoryPolicy = "own.md"
    Bonus = 1
    Precision = 10
    QueryFiles = 1
    CandidateTop = 2
    Requests <- MCRequests
    Manifests <- MCManifests
    Patches <- MCPatches
    SourceLimit = 1
    Threshold = 2
    Cards <- MCCards
    Answers <- MCAnswers
    MaxAnswers = 3
    None = None
    Limits <- MCLimits
SPECIFICATION GroundedSpec
INVARIANTS TypesOK Accounted SaidOnceInDiff BestJustified CardsHaveEvidence SkillsRepresented OwnPolicyFirst OfferedIsKnown
CHECK_DEADLOCK FALSE
