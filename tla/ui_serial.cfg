CONSTANTS
    k1 = k1
    k2 = k2
    cpu = cpu
    ram = ram
    Computers = {k1}
    Kinds = {cpu, ram}
    Requests <- CpuRam
    MaxDataPoints = 1
    Hour = 2
    FirstPush = 0
    StartTime <- LateEvening
    MaxTime = 50
    MaxPushes = 4
    MaxRestarts = 1
    MaxFailures = 1
SPECIFICATION FairSpec
INVARIANTS TypeOK UpdateMeetsOneRow  TickFollowsPushes
PROPERTIES CatchesUp
