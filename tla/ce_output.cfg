CONSTANTS
    e1 = e1
    e2 = e2
    Executors = {e1, e2}
    Capacity = 2
    ReadSize = 2
    ShellMissing = TRUE
    MaxWrites <- Unequal
    MaxFaults = 1
SPECIFICATION FairSpec
INVARIANTS TypeOK OutputBeforeEnd
PROPERTIES EndsAnnounced
