CONSTANTS
    r1 = r1
    r2 = r2
    c1 = c1
    c2 = c2
    c3 = c3
    NULL = NULL
    Reporters = {r1, r2}
    Conns = {c1, c2}
    MaxCommands = 2
SPECIFICATION FairSpec
INVARIANTS TypeOK ListedAlive OnceInOrder RightReporter
PROPERTIES EndedIsReleased QueuedIsDelivered ExitCompletes
