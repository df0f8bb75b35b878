--------------------------- MODULE MCUsageReports ---------------------------
(***************************************************************************)
(* Instances of UsageReports for TLC.                                      *)
(***************************************************************************)
EXTENDS UsageReports

\* The first processor of /proc/cpuinfo as Linux prints it for x86, and as it
\* does where there is no microcode.
X86         == <<"processor", "vendor_id", "cpu family", "model", "model name", "stepping",
                 "microcode", "cpu MHz", "cache size", "physical id", "siblings", "core id",
                 "cpu cores">>
NoMicrocode == SelectSeq(X86, LAMBDA key : key # "microcode")

\* /proc/meminfo up to SwapFree, before Linux 3.14 without MemAvailable.
Between  == [k \in 1..11 |-> "other"]
MemInfo  == <<"MemTotal", "MemFree", "MemAvailable">> \o Between \o <<"SwapTotal", "SwapFree">>
MemInfo2 == <<"MemTotal", "MemFree">> \o Between \o <<"SwapTotal", "SwapFree", "Dirty">>

AnyCpuInfo == {X86, NoMicrocode}
AnyMemInfo == {MemInfo, MemInfo2}
PlainCpuInfo == {X86}
PlainMemInfo == {MemInfo}

\* Half full with no swap, full with some.
AnyRam == {[total |-> 2, free |-> 1, swapTotal |-> 0, swapFree |-> 0],
           [total |-> 2, free |-> 0, swapTotal |-> 1, swapFree |-> 1]}
=============================================================================
