CONSTANTS
    Files <- MCFiles
    MaxFiles = 5
    RouteFiles = 4
    RouteChars = 6
    BatchFiles = 3
    BatchChars = 3
    FileChars = 2
SPECIFICATION Spec
INVARIANTS CutsAreMarked
CHECK_DEADLOCK FALSE
