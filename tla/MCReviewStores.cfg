CONSTANTS
    Reviews = {r1, r2, r3}
    Callers = {c1, c2}
    Objects = {o1, o2}
    Backends = {"local", "postgres"}
SPECIFICATION Spec
INVARIANTS TypeOK KeptUndisturbed StatementHasTable
PROPERTIES ImplementsStore
CHECK_DEADLOCK FALSE
