CONSTANTS
    Runs = {r1, r2}
    Clients = {c1}
    Types = {progress, completed}
    Terminal = {completed}
    MaxEvents = 3
    PublishLimit = 3
SPECIFICATION FairSpec
INVARIANTS TypeOK ReadersFollow
PROPERTIES StreamEnds ImplementsFeed
CHECK_DEADLOCK FALSE
