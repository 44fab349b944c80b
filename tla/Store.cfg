SPECIFICATION Spec
CONSTANTS
    Nodes = {n1, n2}
    Data = {d}
    None = None
    Requests = {r1, r2, r3}
    MaxEvents = 3
INVARIANTS TypeOK Fresh EdgeSound EndsAgree PopOwned
SYMMETRY Symmetry
CHECK_DEADLOCK FALSE
