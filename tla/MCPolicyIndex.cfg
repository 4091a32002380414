SPECIFICATION Spec
CONSTANTS
    a = a
    b = b
    c = c
    Users = {u1, u2}
    Chunks = {a, b, c}
    Versions <- Folder
INVARIANTS
    TypeOK
    WholePolicies
PROPERTIES
    SyncAloneReplaces
