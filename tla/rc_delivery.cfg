CONSTANTS
    e1 = e1
    N = 1
    Executors = {e1}
    Replies <- SomeReplies
    EarlySignal = FALSE
    MaxRequests = 2
    MaxFaults = 2
SPECIFICATION RecoveringSpec
INVARIANTS TypeOK FrontExists NoLostWakeup InOrderNoGaps
PROPERTIES DeliverySpec EventuallyIngested StopEnds
