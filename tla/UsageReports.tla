---------------------------- MODULE UsageReports ----------------------------
(***************************************************************************)
(* Where the points of usage_table come from: CpuReporter and RamReporter  *)
(* (reporter/linux/src/reporter), which read files of /proc line by line,  *)
(* and the containers of the server that average them (UsageContainer in   *)
(* rms_computer.h, ingestRequestData in request_db_ingestor.cpp).          *)
(*                                                                         *)
(* CpuReporter reads /proc/stat, sleeps for a second and reads it again; a *)
(* line is known by its place only. Meanwhile cpus count, and may be taken *)
(* off line or brought back. The number of lines read is twice the "cpu    *)
(* cores" of /proc/cpuinfo. A point is the fraction the code divides out,  *)
(* [num, den]; 0/0 is not a number. The request queue hands requests on in *)
(* order, and the last one again after its connection was lost             *)
(* (RequestClient); the server has a new RmsComputer then.                 *)
(***************************************************************************)
EXTENDS Integers, Sequences, FiniteSets, SequencesExt

CONSTANTS CpuCount,       \* cpus there are
          CpuInfos,       \* the keys of /proc/cpuinfo, line by line
          CpuCores,       \* the value its "cpu cores" line may have
          MemInfos,       \* the keys of /proc/meminfo, line by line
          Rams,           \* what it may say: [total, free, swapTotal, swapFree]
          MaxDataPoints,  \* RMS_MAX_CONTAINER_DATA_POINTS
          MaxTicks,       \* bound: what the counter of a cpu gets to
          MaxHotplug,     \* bound: cpus taken off line or brought back
          MaxReports,     \* bound: requests made
          MaxFaults       \* bound: files that do not open, connections lost

\* By number.
Cpus == 0..(CpuCount - 1)

\* fscanf(): a line with another key is not read, nor gone past.
Has(lines, k, key) == k \in DOMAIN lines /\ lines[k] = key

\* The lines of /proc/meminfo in which RamReporter looks for MemAvailable and, 11
\* lines further on, for SwapTotal.
FreeLine(m) == IF Has(m, 2, "MemFree") THEN 3 ELSE 2
SwapLine(m) == (IF Has(m, FreeLine(m), "MemAvailable") THEN FreeLine(m) + 1 ELSE FreeLine(m)) + 11

\* A machine has memory, and no more of it is free than there is. Where SwapTotal
\* is looked for it is, or neither it nor SwapFree is.
ASSUME ReportsAssumption ==
    /\ CpuCount \in Nat \ {0}
    /\ CpuCores \subseteq Nat
    /\ \A m \in MemInfos : /\ m \in Seq(STRING) /\ Len(m) >= 16 /\ m[1] = "MemTotal"
                          /\ ~Has(m, SwapLine(m), "SwapFree")
    /\ \A ram \in Rams : /\ {ram.total, ram.swapTotal} \subseteq Nat /\ ram.total # 0
                         /\ ram.free \in 0..ram.total /\ ram.swapFree \in 0..ram.swapTotal
    /\ {MaxDataPoints, MaxTicks, MaxHotplug, MaxReports, MaxFaults} \subseteq Nat

VARIABLES cpuinfo, cores, meminfo,  \* the machine, as it was found at the start
          stat,            \* per cpu: what it has counted, [total, used]
          online,          \* the cpus that have a line in /proc/stat
          plugged,         \* cpus taken off line or brought back so far
          baseline,        \* the cpu consumer asleep: what it read first, or <<>>
          stayed,          \* history: the cpus on line ever since
          sent,            \* the points of the request sent last
          usage_info_,     \* the computer's containers: points by kind
          received,        \* history: every point the computer was given, by kind
          lost,            \* kinds whose UPDATE the last push saw refused
          reports, faults

machine == <<cpuinfo, cores, meminfo>>
cpus == <<stat, online, plugged>>
server == <<sent, usage_info_, received, lost>>
vars == <<machine, cpus, baseline, stayed, server, reports, faults>>

\* A fraction, and (history) what it is of: one cpu on line all the while, or a
\* file; one that was off line and came back; two cpus; a file that did not open.
Point == [num : Int, den : Int, of : {"one", "back", "two", "none"}]

Kinds == ({"cpu"} \X Nat) \cup ({"ram"} \X {0, 1})

TypeOK ==
    /\ stat \in [Cpus -> [total : 0..MaxTicks, used : 0..MaxTicks]]
    /\ 0 \in online /\ online \subseteq Cpus
    /\ plugged \in 0..MaxHotplug
    /\ DOMAIN usage_info_ \subseteq Kinds
    /\ \A k \in DOMAIN usage_info_ :
          /\ usage_info_[k] \in Seq(Point)
          /\ Len(usage_info_[k]) \in 1..(MaxDataPoints + 1)
    /\ stayed \subseteq online
    /\ lost \subseteq Kinds
    /\ reports \in 0..MaxReports
    /\ faults \in 0..MaxFaults

Init ==
    /\ cpuinfo \in CpuInfos /\ cores \in CpuCores /\ meminfo \in MemInfos
    /\ stat = [c \in Cpus |-> [total |-> 0, used |-> 0]]
    /\ online = Cpus /\ plugged = 0
    /\ baseline = <<>> /\ stayed = {}
    /\ sent = <<>> /\ usage_info_ = <<>> /\ received = <<>> /\ lost = {}
    /\ reports = 0 /\ faults = 0

-----------------------------------------------------------------------------
(* Files read line by line *)

\* SysReporter finds "cpu cores" in line 13 or not at all; RmsReporterClient
\* takes two threads for each.
cpu_core_count_ == IF Has(cpuinfo, 13, "cpu cores") THEN 2 * cores ELSE 0

\* RamReporter: where a key is not found the number that was scanned last is
\* taken.
RamData(ram) ==
    LET swap      == SwapLine(meminfo)
        found     == Has(meminfo, swap, "SwapTotal")
        main_free == IF Has(meminfo, FreeLine(meminfo), "MemAvailable") THEN ram.free ELSE ram.total
        total     == IF found THEN ram.swapTotal ELSE main_free
    IN  [total |-> ram.total, free |-> main_free, swapTotal |-> total,
         swapFree |-> IF Has(meminfo, IF found THEN swap + 1 ELSE swap, "SwapFree")
                      THEN ram.swapFree ELSE total]

\* Over all cpus, on line or not.
Sum(f) ==
    LET sum[n \in 0..CpuCount] == IF n = 0 THEN 0 ELSE sum[n - 1] + f[n - 1]
    IN  sum[CpuCount]

\* /proc/stat: a line for all the cpus there are, then one for each on line.
StatLine(c) ==
    IF c = -1 THEN [cpu |-> c, total |-> Sum([d \in Cpus |-> stat[d].total]),
                    used |-> Sum([d \in Cpus |-> stat[d].used])]
    ELSE [cpu |-> c, total |-> stat[c].total, used |-> stat[c].used]

ProcStat ==
    LET lines[n \in 0..CpuCount] ==
            IF n = 0 THEN <<StatLine(-1)>>
            ELSE IF n - 1 \in online THEN Append(lines[n - 1], StatLine(n - 1)) ELSE lines[n - 1]
    IN  lines[CpuCount]

\* Past the last line the variables keep what they hold.
ReadStat ==
    LET lines == ProcStat
    IN  [k \in 0..cpu_core_count_ |-> lines[IF k < Len(lines) THEN k + 1 ELSE Len(lines)]]

-----------------------------------------------------------------------------
(* The server *)

\* Variants: no point is ever dropped; the newest makes room instead.
addPointKeeps(points, p) == Append(points, p)
addPointNewest(points, p) ==
    Append(IF Len(points) > MaxDataPoints THEN Front(points) ELSE points, p)

\* UsageContainer::addPoint()
addPoint(points, p) ==
    Append(IF Len(points) > MaxDataPoints THEN Tail(points) ELSE points, p)

Of(f, k) == IF k \in DOMAIN f THEN f[k] ELSE <<>>

\* ingestRequestData(): the points of one request, by kind.
addUsageInfo(info, points) ==
    [k \in DOMAIN info \cup DOMAIN points |->
        IF k \in DOMAIN points THEN addPoint(Of(info, k), points[k]) ELSE info[k]]

\* All that was received, and the points of one request more.
Receive(all, points) ==
    [k \in DOMAIN all \cup DOMAIN points |->
        IF k \in DOMAIN points THEN Append(Of(all, k), points[k]) ELSE all[k]]

Ingest(points) ==
    /\ sent' = points
    /\ usage_info_' = addUsageInfo(usage_info_, points)
    /\ received' = Receive(received, points)
    /\ UNCHANGED lost

Fault(b) == IF b THEN faults < MaxFaults /\ faults' = faults + 1 ELSE UNCHANGED faults

\* RmsClient::handshake() over a new connection: a new RmsComputer. The last request
\* is sent to it again if its answer had not come (resent).
Reconnect(resent) ==
    LET points == IF resent THEN sent ELSE <<>> IN
    /\ Fault(TRUE)
    /\ sent' = points
    /\ usage_info_' = addUsageInfo(<<>>, points)
    /\ received' = Receive(<<>>, points)
    /\ UNCHANGED <<machine, cpus, baseline, stayed, lost, reports>>

\* pushUsageToDB(): getData() divides the sum by the number of points. A sum
\* that is no number is spelt nan, which SQLite refuses as an unknown column.
Push ==
    /\ lost' = {k \in DOMAIN usage_info_ : \E p \in Range(usage_info_[k]) : p.den = 0}
    /\ UNCHANGED <<machine, cpus, baseline, stayed, sent, usage_info_, received,
                   reports, faults>>

-----------------------------------------------------------------------------
(* The reporters *)

\* What two lines read in one place are of.
Source(b, r) ==
    IF r.cpu # b.cpu THEN "two" ELSE IF b.cpu \in stayed \cup {-1} THEN "one" ELSE "back"

\* Variant: what was used over what was not.
UsageOfIdle(b, r) == [num |-> r.used - b.used,
                      den |-> (r.total - r.used) - (b.total - b.used),
                      of  |-> Source(b, r)]

Usage(b, r) == [num |-> r.used - b.used, den |-> r.total - b.total, of |-> Source(b, r)]

\* CpuReporter::report(): the first read.
ReadBaseline ==
    /\ baseline = <<>> /\ reports < MaxReports
    /\ reports' = reports + 1
    /\ baseline' = ReadStat
    /\ stayed' = online
    /\ UNCHANGED <<machine, cpus, server, faults>>

\* A second later. In a second a cpu counts that is on line all the while, and so
\* does the line of them all; one that was off line need not have.
ReadResult ==
    LET result == ReadStat IN
    /\ baseline # <<>>
    /\ \A k \in DOMAIN baseline :
          baseline[k].cpu \in stayed \cup {-1} =>
              StatLine(baseline[k].cpu).total > baseline[k].total
    /\ baseline' = <<>> /\ stayed' = {}
    /\ Ingest([k \in {"cpu"} \X DOMAIN baseline |-> Usage(baseline[k[2]], result[k[2]])])
    /\ UNCHANGED <<machine, cpus, reports, faults>>

\* RamReporter::report() and what the ingestor makes of it: swap counts only if
\* there is some.
RamReport(ram) ==
    LET d == RamData(ram)
        main == [num |-> d.total - d.free, den |-> d.total, of |-> "one"]
        swap == [num |-> d.swapTotal - d.swapFree, den |-> d.swapTotal, of |-> "one"]
    IN  /\ reports < MaxReports
        /\ reports' = reports + 1
        /\ Ingest([k \in {"ram"} \X (IF d.swapTotal # 0 THEN {0, 1} ELSE {0}) |->
                     IF k[2] = 0 THEN main ELSE swap])
        /\ UNCHANGED <<machine, cpus, baseline, stayed, faults>>

\* /proc/meminfo does not open: a report of nothing, which is 0 of 0.
RamReportEmpty ==
    /\ reports < MaxReports
    /\ reports' = reports + 1
    /\ Fault(TRUE)
    /\ Ingest([k \in {"ram"} \X {0} |-> [num |-> 0, den |-> 0, of |-> "none"]])
    /\ UNCHANGED <<machine, cpus, baseline, stayed>>

-----------------------------------------------------------------------------
(* The machine *)

\* Time passes: every cpu on line counts, and the busy ones as used.
Count(busy) ==
    /\ \A c \in online : stat[c].total < MaxTicks
    /\ stat' = [c \in Cpus |-> IF c \in online
                   THEN [total |-> stat[c].total + 1,
                         used  |-> stat[c].used + (IF c \in busy THEN 1 ELSE 0)]
                   ELSE stat[c]]
    /\ UNCHANGED <<machine, online, plugged, baseline, stayed, server, reports, faults>>

\* The first cpu stays on line.
Hotplug(c) ==
    /\ c # 0 /\ plugged < MaxHotplug
    /\ plugged' = plugged + 1
    /\ online' = IF c \in online THEN online \ {c} ELSE online \cup {c}
    /\ stayed' = stayed \ {c}
    /\ UNCHANGED <<machine, stat, baseline, server, reports, faults>>

Next ==
    \/ ReadBaseline \/ ReadResult \/ RamReportEmpty \/ Push
    \/ \E ram \in Rams : RamReport(ram)
    \/ \E resent \in BOOLEAN : Reconnect(resent)
    \/ \E c \in Cpus : Hotplug(c)
    \/ \E busy \in SUBSET online : Count(busy)

Spec == Init /\ [][Next]_vars

-----------------------------------------------------------------------------
(* Properties *)

Recent(points) ==
    {points[n] : n \in {m \in DOMAIN points : m >= Len(points) - MaxDataPoints}}

\* No cpu was used more than it counted, whatever was taken off line or brought back
\* between the reads of /proc/stat; a usage of the ram is a part of it. Of a cpu on
\* line all the while, of all of them and of the ram the usage is a number.
UsageIsPercent ==
    \A k \in DOMAIN received : \A p \in Range(received[k]) :
        /\ p.of \in {"one", "back"} => p.num \in 0..p.den
        /\ p.of = "one" => p.den > 0

\* A usage is lost in a push only to a bad point, of two cpus, of a cpu that was off
\* line between the reads or of a file that did not open, and only while that is
\* among the last points a container keeps.
HourLostToBadPoint ==
    [][\A k \in lost' : lost' # lost => \E p \in Recent(received[k]) : p.of # "one"]_vars

\* The points of a container are of one cpu each.
PointsOfOneCpu == \A k \in DOMAIN received : \A p \in Range(received[k]) : p.of # "two"

\* There is a usage for the whole and one for every cpu on line, and no other.
UsagePerCpu ==
    (plugged = 0 /\ \E k \in DOMAIN received : k[1] = "cpu") =>
        {k[2] : k \in {j \in DOMAIN received : j[1] = "cpu"}} = 0..Cardinality(Cpus)

\* Every hour of every usage is stored.
HourStored == lost = {}
=============================================================================
