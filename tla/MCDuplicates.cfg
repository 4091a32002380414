CONSTANTS
    PullRequests = {1}
    Deliveries = {d1, d2}
    ReviewMode = "after_checks"
    PublishMode = "github_app"
    StorageBackend = "postgres"
    MaxPushes = 2
    MaxSuite = 1
    Kinds = {"check_suite"}
    Faults = {}
SPECIFICATION Spec
INVARIANTS OneReviewPerKey
CHECK_DEADLOCK FALSE
