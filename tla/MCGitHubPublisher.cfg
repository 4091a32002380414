CONSTANTS
    Modes = {"github_app", "github", "local"}
    Publishers = {p1, p2, p3}
    Scopes = {automatic, deep}
    MaxFindings = 1
    PageLimit = 2
    MaxForeign = 1
    Faults = {"caught", "uncaught"}
SYMMETRY PublisherSymmetry
SPECIFICATION Spec
INVARIANTS TypeOK ShowsLastReview SuccessIsVisible
PROPERTIES OthersUntouched
CHECK_DEADLOCK FALSE
