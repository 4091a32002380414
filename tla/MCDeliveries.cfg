CONSTANTS
    PullRequests = {1}
    Deliveries = {d1, d2}
    ReviewMode = "all"
    PublishMode = "github_app"
    StorageBackend = "postgres"
    MaxPushes = 2
    MaxSuite = 1
    Kinds = {"pull_request", "check_suite", "check_run", "requested_action"}
    Faults = {"plan", "review", "publish"}
SPECIFICATION FairSpec
INVARIANTS TypeOK NothingReviewedAgain DiffNotOlder NoSelfTrigger SuccessMeansPublished
PROPERTIES ChecksEnd
CHECK_DEADLOCK FALSE
