CONSTANTS
    e1 = e1
    N = 1
    Executors = {}
    Replies <- NoReplies
    EarlySignal = FALSE
    MaxRequests = 2
    MaxFaults = 1
SPECIFICATION FairSpec
PROPERTIES StopEnds
