CONSTANTS
    PullRequests = {p1, p2}
    Deliveries = {d1, d2}
    ReviewMode = "after_checks"
    PublishMode = "local"
    StorageBackend = "local"
    MaxPushes = 2
    MaxSuite = 2
    Kinds = {"check_suite"}
    Faults = {"plan", "create_check", "review", "fail_check", "restart"}
SYMMETRY Symmetry
SPECIFICATION Spec
PROPERTIES SkipsOnlyReviewed
CHECK_DEADLOCK FALSE
