CONSTANTS
    CpuCount = 3
    CpuInfos <- PlainCpuInfo
    CpuCores = {1, 2}
    MemInfos <- AnyMemInfo
    Rams <- AnyRam
    MaxDataPoints = 1
    MaxTicks = 2
    MaxHotplug = 2
    MaxReports = 3
    MaxFaults = 1
SPECIFICATION Spec
INVARIANTS TypeOK UsageIsPercent
PROPERTIES HourLostToBadPoint
