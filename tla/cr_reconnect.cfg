CONSTANTS
    r1 = r1
    r2 = r2
    c1 = c1
    c2 = c2
    c3 = c3
    NULL = NULL
    Reporters = {r1}
    Conns = {c1, c2}
    MaxCommands = 1
SPECIFICATION Spec
INVARIANTS ConnectedListed
