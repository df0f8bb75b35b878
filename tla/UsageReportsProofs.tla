------------------------- MODULE UsageReportsProofs -------------------------
(***************************************************************************)
(* Theorems about UsageReports: the points made of /proc/stat and          *)
(* /proc/meminfo, the containers that keep the last of them, and the       *)
(* UPDATEs that are refused.                                               *)
(***************************************************************************)
EXTENDS UsageReports, WellFoundedInduction, TLAPS

-----------------------------------------------------------------------------
(* Inductive invariants *)

\* The machine, and counters in which a cpu used no more than there was.
MachineTypes ==
    /\ cores \in Nat /\ meminfo \in MemInfos
    /\ stat \in [Cpus -> [total : 0..MaxTicks, used : 0..MaxTicks]]
    /\ \A c \in Cpus : stat[c].used <= stat[c].total
    /\ 0 \in online /\ online \subseteq Cpus /\ stayed \subseteq online
    /\ plugged \in 0..MaxHotplug
    /\ reports \in 0..MaxReports
    /\ faults \in 0..MaxFaults

StatCpus == {-1} \cup Cpus

\* From the line b to the line r the counters went on, by no more used than there was.
Grown(b, r) == b.used <= r.used /\ r.used - b.used <= r.total - b.total

StatLines == [cpu : StatCpus, total : Nat, used : Nat]

\* The first read is of counters that have gone on since.
BaselinePast ==
    baseline # <<>> =>
        /\ DOMAIN baseline = 0..cpu_core_count_
        /\ \A k \in DOMAIN baseline : /\ baseline[k] \in StatLines
                                      /\ Grown(baseline[k], StatLine(baseline[k].cpu))

\* A container has the last points of its kind.
Keeps(points, all) ==
    /\ points \in Seq(Point) /\ all \in Seq(Point)
    /\ Len(points) \in 1..(MaxDataPoints + 1)
    /\ Len(points) <= Len(all)
    /\ \A n \in 1..Len(points) : points[n] = all[Len(all) - Len(points) + n]

ContainersKeep ==
    /\ DOMAIN usage_info_ = DOMAIN received
    /\ DOMAIN received \subseteq Kinds
    /\ \A k \in DOMAIN received : Keeps(usage_info_[k], received[k])
    /\ lost \subseteq Kinds

\* A point as UsageIsPercent has it.
Percent(p) ==
    /\ p.of \in {"one", "back"} => p.num \in 0..p.den
    /\ p.of = "one" => p.den > 0

Sane(p) == p \in Point /\ Percent(p)

SanePoints(points) == DOMAIN points \subseteq Kinds /\ \A k \in DOMAIN points : Sane(points[k])

\* What may be sent again is as sane as it was.
SentSane == SanePoints(sent)

ReportsInv == MachineTypes /\ BaselinePast /\ SentSane /\ ContainersKeep /\ UsageIsPercent

-----------------------------------------------------------------------------
(* The lines of /proc/stat *)

\* A set of naturals that is not empty has a least element.
LEMMA LeastElement ==
    ASSUME NEW T, T \subseteq Nat, T # {}
    PROVE  \E x \in T : \A y \in T : x <= y
<1>1. PICK x \in T : \A y \in T : <<y, x>> \notin OpToRel(<, Nat)
      BY NatLessThanWellFounded, WFMin
<1>2. \A y \in T : ~(y < x)
      BY <1>1 DEF OpToRel
<1> QED BY <1>2

LEMMA CpuNumbers ==
    /\ CpuCount \in Nat /\ CpuCount # 0
    /\ \A n \in 0..CpuCount : n # 0 => n - 1 \in Cpus /\ n - 1 \in 0..CpuCount /\ n - 1 # -1
    /\ Cpus \subseteq Nat /\ 0 \in Cpus /\ -1 \notin Cpus
<1>1. CpuCount \in Nat /\ CpuCount # 0
      BY ReportsAssumption
<1> QED BY <1>1 DEF Cpus

SumRound(f, s, n) == IF n = 0 THEN 0 ELSE s[n - 1] + f[n - 1]

\* The sum can be run to the last cpu.
LEMMA SumRuns ==
    ASSUME NEW f
    PROVE  \A m \in 0..CpuCount : \E s : s = [n \in 0..m |-> SumRound(f, s, n)]
<1> DEFINE Runs(m) == \E s : s = [n \in 0..m |-> SumRound(f, s, n)]
           T == {m \in 0..CpuCount : ~Runs(m)}
<1>0. CpuCount \in Nat
      BY CpuNumbers
<1>1. SUFFICES ASSUME T # {} PROVE FALSE
      BY <1>1
<1>2. PICK m \in T : \A y \in T : m <= y
  <2>1. T \subseteq Nat
        BY <1>0
  <2> HIDE DEF T
  <2> QED BY <1>1, <2>1, LeastElement
<1>3. m \in 0..CpuCount /\ ~Runs(m)
      OBVIOUS
<1>4. CASE m = 0
  <2> DEFINE g == [n \in 0..0 |-> 0]
  <2>1. g = [n \in 0..0 |-> SumRound(f, g, n)]
        BY DEF SumRound
  <2> QED BY <1>3, <1>4, <2>1
<1>5. CASE m # 0
  <2>1. m - 1 \in 0..CpuCount /\ m - 1 \notin T
        BY <1>0, <1>2, <1>3, <1>5
  <2>2. PICK s : s = [n \in 0..(m - 1) |-> SumRound(f, s, n)]
        BY <2>1
  <2> DEFINE g == [n \in 0..m |-> IF n = m THEN SumRound(f, s, m) ELSE s[n]]
  <2>3. \A n \in 0..m : SumRound(f, g, n) = SumRound(f, s, n)
        BY <1>0, <1>3, <1>5 DEF SumRound
  <2>4. \A n \in 0..m : g[n] = SumRound(f, g, n)
    <3>1. \A n \in 0..m : n # m => n \in 0..(m - 1)
          BY <1>0, <1>3
    <3>2. \A n \in 0..(m - 1) : s[n] = SumRound(f, s, n)
          BY <2>2
    <3> QED BY <2>3, <3>1, <3>2
  <2>5. g = [n \in 0..m |-> SumRound(f, g, n)]
        BY <2>4
  <2> QED BY <1>3, <2>5
<1> QED BY <1>4, <1>5

\* The sum, by its first terms.
Partial(f, s) ==
    /\ s[0] = 0
    /\ \A n \in 0..CpuCount : n # 0 => s[n] = s[n - 1] + f[n - 1]
    /\ Sum(f) = s[CpuCount]

LEMMA SumPartial ==
    ASSUME NEW f
    PROVE  \E s : Partial(f, s)
<1> DEFINE Follows(s) == s = [n \in 0..CpuCount |-> SumRound(f, s, n)]
           sum == CHOOSE s : Follows(s)
<1>1. Sum(f) = sum[CpuCount]
      BY DEF Sum, SumRound
<1>2. CpuCount \in Nat /\ CpuCount \in 0..CpuCount /\ 0 \in 0..CpuCount
      BY CpuNumbers
<1>3. \E s : Follows(s)
      BY <1>2, SumRuns
<1>4. Follows(sum)
      BY <1>3
<1>5. \A n \in 0..CpuCount : sum[n] = SumRound(f, sum, n)
      BY <1>4
<1> HIDE DEF sum, Follows
<1>6. Partial(f, sum)
      BY <1>1, <1>2, <1>5 DEF Partial, SumRound
<1> QED BY <1>6

\* Sums are compared term by term.
LEMMA SumsCompare ==
    ASSUME NEW a \in [Cpus -> Nat], NEW b \in [Cpus -> Nat],
           NEW d \in [Cpus -> Nat], NEW e \in [Cpus -> Nat],
           \A c \in Cpus : a[c] + b[c] <= d[c] + e[c]
    PROVE  /\ {Sum(a), Sum(b), Sum(d), Sum(e)} \subseteq Nat
           /\ Sum(a) + Sum(b) <= Sum(d) + Sum(e)
<1>1. PICK sa : Partial(a, sa)
      BY SumPartial
<1>2. PICK sb : Partial(b, sb)
      BY SumPartial
<1>3. PICK sd : Partial(d, sd)
      BY SumPartial
<1>4. PICK se : Partial(e, se)
      BY SumPartial
<1> DEFINE Claim(n) == /\ {sa[n], sb[n], sd[n], se[n]} \subseteq Nat
                       /\ sa[n] + sb[n] <= sd[n] + se[n]
           T == {n \in 0..CpuCount : ~Claim(n)}
<1>5. CpuCount \in Nat /\ CpuCount \in 0..CpuCount
      BY CpuNumbers
<1>6. ASSUME T # {} PROVE FALSE
  <2>1. T \subseteq Nat
        BY <1>5
  <2>2. PICK m \in T : \A y \in T : m <= y
    <3> HIDE DEF T
    <3> QED BY <1>6, <2>1, LeastElement
  <2>3. m \in 0..CpuCount /\ ~Claim(m)
        OBVIOUS
  <2>4. m # 0
        BY <1>1, <1>2, <1>3, <1>4, <2>3 DEF Partial
  <2>5. m - 1 \in 0..CpuCount /\ m - 1 \notin T /\ m - 1 \in Cpus
        BY <1>5, <2>2, <2>3, <2>4, CpuNumbers
  <2>6. Claim(m - 1)
        BY <2>5
  <2>7. /\ sa[m] = sa[m - 1] + a[m - 1] /\ sb[m] = sb[m - 1] + b[m - 1]
        /\ sd[m] = sd[m - 1] + d[m - 1] /\ se[m] = se[m - 1] + e[m - 1]
        BY <1>1, <1>2, <1>3, <1>4, <2>3, <2>4 DEF Partial
  <2>8. /\ {a[m - 1], b[m - 1], d[m - 1], e[m - 1]} \subseteq Nat
        /\ a[m - 1] + b[m - 1] <= d[m - 1] + e[m - 1]
        BY <2>5
  <2> QED BY <2>3, <2>6, <2>7, <2>8
<1>7. Claim(CpuCount)
      BY <1>5, <1>6
<1> QED BY <1>1, <1>2, <1>3, <1>4, <1>7 DEF Partial

Stats == {StatLine(c) : c \in StatCpus}

\* A line of a cpu, or of them all, has its number and counters.
LEMMA StatTyped ==
    ASSUME MachineTypes, NEW c \in StatCpus
    PROVE  StatLine(c) \in StatLines /\ StatLine(c).cpu = c
<1> DEFINE t == [d \in Cpus |-> stat[d].total]
           u == [d \in Cpus |-> stat[d].used]
<1>1. MaxTicks \in Nat
      BY ReportsAssumption
<1>2. t \in [Cpus -> Nat] /\ u \in [Cpus -> Nat]
      BY <1>1 DEF MachineTypes
<1>3. CASE c = -1
  <2>1. \A d \in Cpus : t[d] + u[d] <= t[d] + u[d]
        BY <1>2
  <2>2. Sum(t) \in Nat /\ Sum(u) \in Nat
    <3> HIDE DEF t, u
    <3> QED BY <1>2, <2>1, SumsCompare
  <2>3. StatLine(c) = [cpu |-> c, total |-> Sum(t), used |-> Sum(u)]
        BY <1>3 DEF StatLine
  <2> HIDE DEF t, u
  <2> QED BY <2>2, <2>3 DEF StatLines
<1>4. CASE c # -1
  <2>1. c \in Cpus /\ stat[c].total \in Nat /\ stat[c].used \in Nat
        BY <1>1, <1>4 DEF StatCpus, MachineTypes
  <2> QED BY <1>4, <2>1 DEF StatLine, StatLines
<1> QED BY <1>3, <1>4

LineRound(s, n) ==
    IF n = 0 THEN <<StatLine(-1)>>
    ELSE IF n - 1 \in online THEN Append(s[n - 1], StatLine(n - 1)) ELSE s[n - 1]

\* The lines can be written to the last cpu.
LEMMA LinesRun == \A m \in 0..CpuCount : \E s : s = [n \in 0..m |-> LineRound(s, n)]
<1> DEFINE Runs(m) == \E s : s = [n \in 0..m |-> LineRound(s, n)]
           T == {m \in 0..CpuCount : ~Runs(m)}
<1>0. CpuCount \in Nat
      BY CpuNumbers
<1>1. SUFFICES ASSUME T # {} PROVE FALSE
      BY <1>1
<1>2. PICK m \in T : \A y \in T : m <= y
  <2>1. T \subseteq Nat
        BY <1>0
  <2> HIDE DEF T
  <2> QED BY <1>1, <2>1, LeastElement
<1>3. m \in 0..CpuCount /\ ~Runs(m)
      OBVIOUS
<1>4. CASE m = 0
  <2> DEFINE g == [n \in 0..0 |-> <<StatLine(-1)>>]
  <2>1. g = [n \in 0..0 |-> LineRound(g, n)]
        BY DEF LineRound
  <2> QED BY <1>3, <1>4, <2>1
<1>5. CASE m # 0
  <2>1. m - 1 \in 0..CpuCount /\ m - 1 \notin T
        BY <1>0, <1>2, <1>3, <1>5
  <2>2. PICK s : s = [n \in 0..(m - 1) |-> LineRound(s, n)]
        BY <2>1
  <2> DEFINE g == [n \in 0..m |-> IF n = m THEN LineRound(s, m) ELSE s[n]]
  <2>3. \A n \in 0..m : LineRound(g, n) = LineRound(s, n)
        BY <1>0, <1>3, <1>5 DEF LineRound
  <2>4. \A n \in 0..m : g[n] = LineRound(g, n)
    <3>1. \A n \in 0..m : n # m => n \in 0..(m - 1)
          BY <1>0, <1>3
    <3>2. \A n \in 0..(m - 1) : s[n] = LineRound(s, n)
          BY <2>2
    <3> QED BY <2>3, <3>1, <3>2
  <2>5. g = [n \in 0..m |-> LineRound(g, n)]
        BY <2>4
  <2> QED BY <1>3, <2>5
<1> QED BY <1>4, <1>5

\* /proc/stat has a line, and every line is that of a cpu or of them all.
LEMMA ProcStatLines == ProcStat \in Seq(Stats) /\ Len(ProcStat) >= 1
<1> DEFINE Follows(s) == s = [n \in 0..CpuCount |-> LineRound(s, n)]
           lines == CHOOSE s : Follows(s)
<1>1. ProcStat = lines[CpuCount]
      BY DEF ProcStat, LineRound
<1>2. CpuCount \in Nat /\ CpuCount \in 0..CpuCount
      BY CpuNumbers
<1>3. \E s : Follows(s)
      BY <1>2, LinesRun
<1>4. Follows(lines)
      BY <1>3
<1>5. \A n \in 0..CpuCount : lines[n] = LineRound(lines, n)
      BY <1>4
<1> HIDE DEF lines, Follows
<1> DEFINE Claim(n) == lines[n] \in Seq(Stats) /\ Len(lines[n]) >= 1
           T == {n \in 0..CpuCount : ~Claim(n)}
<1>6. ASSUME T # {} PROVE FALSE
  <2>1. T \subseteq Nat
        BY <1>2
  <2>2. PICK m \in T : \A y \in T : m <= y
    <3> HIDE DEF T
    <3> QED BY <1>6, <2>1, LeastElement
  <2>3. m \in 0..CpuCount /\ ~Claim(m)
        OBVIOUS
  <2>4. m # 0
    <3>1. StatLine(-1) \in Stats
          BY DEF Stats, StatCpus
    <3>2. SUFFICES ASSUME m = 0 PROVE Claim(m)
          BY <2>3
    <3>3. lines[m] = <<StatLine(-1)>>
          BY <1>5, <2>3, <3>2 DEF LineRound
    <3> QED BY <3>1, <3>3
  <2>5. m - 1 \in 0..CpuCount /\ m - 1 \notin T /\ m - 1 \in Cpus
        BY <1>2, <2>2, <2>3, <2>4, CpuNumbers
  <2>6. Claim(m - 1)
        BY <2>5
  <2>7. StatLine(m - 1) \in Stats
        BY <2>5 DEF Stats, StatCpus
  <2> DEFINE old == lines[m - 1]
             l == StatLine(m - 1)
  <2>8. lines[m] \in {Append(old, l), old}
        BY <1>5, <2>3, <2>4 DEF LineRound
  <2>9. old \in Seq(Stats) /\ Len(old) >= 1 /\ l \in Stats
        BY <2>6, <2>7
  <2> HIDE DEF old, l
  <2>10. Append(old, l) \in Seq(Stats) /\ Len(Append(old, l)) >= 1
        BY <2>9
  <2> QED BY <2>3, <2>8, <2>9, <2>10
<1>7. Claim(CpuCount)
      BY <1>2, <1>6
<1> QED BY <1>1, <1>7

\* What CpuReporter reads are lines of /proc/stat, however many it reads.
LEMMA ReadStatLines ==
    ASSUME MachineTypes
    PROVE  /\ DOMAIN ReadStat = 0..cpu_core_count_
           /\ cpu_core_count_ \in Nat
           /\ \A k \in DOMAIN ReadStat : /\ ReadStat[k] \in StatLines
                                         /\ ReadStat[k] = StatLine(ReadStat[k].cpu)
<1>1. cpu_core_count_ \in Nat
  <2>1. cores \in Nat
        BY DEF MachineTypes
  <2>2. cpu_core_count_ = 2 * cores \/ cpu_core_count_ = 0
        BY DEF cpu_core_count_
  <2> QED BY <2>1, <2>2
<1>2. ProcStat \in Seq(Stats) /\ Len(ProcStat) >= 1 /\ Len(ProcStat) \in Nat
      BY ProcStatLines
<1>3. ASSUME NEW k \in 0..cpu_core_count_
      PROVE  ReadStat[k] \in Stats
  <2> DEFINE i == IF k < Len(ProcStat) THEN k + 1 ELSE Len(ProcStat)
  <2>1. i \in 1..Len(ProcStat)
        BY <1>1, <1>2
  <2>2. ReadStat[k] = ProcStat[i]
        BY DEF ReadStat
  <2> HIDE DEF i
  <2> QED BY <1>2, <2>1, <2>2
<1>4. \A l \in Stats : l \in StatLines /\ l = StatLine(l.cpu)
      BY StatTyped DEF Stats
<1>5. DOMAIN ReadStat = 0..cpu_core_count_
      BY DEF ReadStat
<1> HIDE DEF ReadStat
<1> QED BY <1>1, <1>3, <1>4, <1>5

\* Every line has gone on after a step in which every cpu has.
LEMMA StatGrows ==
    ASSUME MachineTypes, MachineTypes',
           \A c \in Cpus : Grown(stat[c], stat'[c]),
           NEW c \in StatCpus
    PROVE  /\ StatLine(c) \in StatLines /\ StatLine(c)' \in StatLines
           /\ Grown(StatLine(c), StatLine(c)')
<1>1. StatLine(c) \in StatLines /\ StatLine(c)' \in StatLines
  <2>1. (MachineTypes => StatLine(c) \in StatLines)'
        BY StatTyped, PTL
  <2> QED BY <2>1, StatTyped DEF StatLines
<1>2. MaxTicks \in Nat
      BY ReportsAssumption
<1>3. \A d \in Cpus : /\ stat[d].total \in Nat /\ stat[d].used \in Nat
                      /\ stat'[d].total \in Nat /\ stat'[d].used \in Nat
      BY <1>2 DEF MachineTypes
<1>4. CASE c = -1
  <2> DEFINE t == [d \in Cpus |-> stat[d].total]
             u == [d \in Cpus |-> stat[d].used]
             t2 == [d \in Cpus |-> stat'[d].total]
             u2 == [d \in Cpus |-> stat'[d].used]
  <2>1. /\ t \in [Cpus -> Nat] /\ u \in [Cpus -> Nat]
        /\ t2 \in [Cpus -> Nat] /\ u2 \in [Cpus -> Nat]
        BY <1>3
  <2>2. \A d \in Cpus : u[d] + u[d] <= u2[d] + u2[d]
        BY <1>3 DEF Grown
  <2>3. \A d \in Cpus : u2[d] + t[d] <= t2[d] + u[d]
        BY <1>3 DEF Grown
  <2>4. StatLine(c).total = Sum(t) /\ StatLine(c).used = Sum(u)
        BY <1>4 DEF StatLine
  <2>5. StatLine(c)'.total = Sum(t2) /\ StatLine(c)'.used = Sum(u2)
        BY <1>4 DEF StatLine, Sum
  <2> HIDE DEF t, u, t2, u2
  <2>6. Sum(u) + Sum(u) <= Sum(u2) + Sum(u2)
        BY <2>1, <2>2, SumsCompare
  <2>7. /\ {Sum(u2), Sum(t), Sum(t2), Sum(u)} \subseteq Nat
        /\ Sum(u2) + Sum(t) <= Sum(t2) + Sum(u)
        BY <2>1, <2>3, SumsCompare
  <2> QED BY <1>1, <2>4, <2>5, <2>6, <2>7 DEF Grown
<1>5. CASE c # -1
  <2>1. c \in Cpus
        BY <1>5 DEF StatCpus
  <2> QED BY <1>1, <1>5, <2>1 DEF StatLine, Grown
<1> QED BY <1>1, <1>4, <1>5

-----------------------------------------------------------------------------
(* Points and containers *)

Kept(info, all) ==
    /\ DOMAIN info = DOMAIN all
    /\ DOMAIN all \subseteq Kinds
    /\ \A k \in DOMAIN all : Keeps(info[k], all[k]) /\ \A n \in 1..Len(all[k]) : Sane(all[k][n])

\* addPoint() on a container, an empty one too: it has the last points again.
LEMMA AddKeeps ==
    ASSUME NEW points, NEW all, NEW p,
           Keeps(points, all) \/ (points = <<>> /\ all = <<>>),
           p \in Point
    PROVE  Keeps(addPoint(points, p), Append(all, p))
<1> DEFINE kept == IF Len(points) > MaxDataPoints THEN Tail(points) ELSE points
<1>1. MaxDataPoints \in Nat
      BY ReportsAssumption
<1>2. /\ points \in Seq(Point) /\ all \in Seq(Point)
      /\ Len(points) \in 0..(MaxDataPoints + 1) /\ Len(points) <= Len(all)
      /\ \A n \in 1..Len(points) : points[n] = all[Len(all) - Len(points) + n]
  <2>1. CASE Keeps(points, all)
        BY <1>1, <2>1 DEF Keeps
  <2>2. CASE points = <<>> /\ all = <<>>
    <3>1. points \in Seq(Point) /\ all \in Seq(Point) /\ Len(points) = 0 /\ Len(all) = 0
          BY <2>2
    <3> QED BY <1>1, <3>1
  <2> QED BY <2>1, <2>2
<1>3. /\ kept \in Seq(Point)
      /\ Len(kept) \in 0..MaxDataPoints /\ Len(kept) <= Len(all)
      /\ \A n \in 1..Len(kept) : kept[n] = all[Len(all) - Len(kept) + n]
  <2>1. CASE Len(points) > MaxDataPoints
    <3>1. points # <<>> /\ Len(points) = MaxDataPoints + 1 /\ kept = Tail(points)
          BY <1>1, <1>2, <2>1
    <3>2. /\ kept \in Seq(Point) /\ Len(kept) = MaxDataPoints
          /\ \A n \in 1..Len(kept) : kept[n] = points[n + 1]
          BY <1>1, <1>2, <3>1
    <3> HIDE DEF kept
    <3>3. ASSUME NEW n \in 1..Len(kept)
          PROVE  kept[n] = all[Len(all) - Len(kept) + n]
      <4>1. n + 1 \in 1..Len(points)
            BY <1>1, <3>1, <3>2
      <4>2. Len(all) - Len(points) + (n + 1) = Len(all) - Len(kept) + n
        <5>1. Len(all) \in Nat /\ n \in Int
              BY <1>2
        <5> QED BY <1>1, <3>1, <3>2, <5>1
      <4> QED BY <1>2, <3>2, <4>1, <4>2
    <3> QED BY <1>1, <1>2, <3>1, <3>2, <3>3
  <2>2. CASE ~(Len(points) > MaxDataPoints)
        BY <1>1, <1>2, <2>2
  <2> QED BY <2>1, <2>2
<1>4. addPoint(points, p) = Append(kept, p)
      BY DEF addPoint
<1> HIDE DEF kept
<1> DEFINE k2 == Append(kept, p)
           a2 == Append(all, p)
<1>5. /\ k2 \in Seq(Point) /\ a2 \in Seq(Point)
      /\ Len(k2) = Len(kept) + 1 /\ Len(a2) = Len(all) + 1
      BY <1>2, <1>3
<1>6. ASSUME NEW n \in 1..Len(k2)
      PROVE  k2[n] = a2[Len(a2) - Len(k2) + n]
  <2>1. CASE n = Len(k2)
        BY <1>2, <1>3, <1>5, <2>1
  <2>2. CASE n # Len(k2)
    <3>1. n \in 1..Len(kept) /\ Len(a2) - Len(k2) + n = Len(all) - Len(kept) + n
          BY <1>2, <1>3, <1>5, <2>2
    <3>2. Len(all) - Len(kept) + n \in 1..Len(all)
          BY <1>1, <1>2, <1>3, <3>1
    <3>3. k2[n] = kept[n] /\ a2[Len(all) - Len(kept) + n] = all[Len(all) - Len(kept) + n]
          BY <1>2, <1>3, <3>1, <3>2
    <3> QED BY <1>3, <3>1, <3>3
  <2> QED BY <2>1, <2>2
<1>7. Len(k2) \in 1..(MaxDataPoints + 1) /\ Len(k2) <= Len(a2)
      BY <1>1, <1>2, <1>3, <1>5
<1> HIDE DEF k2, a2
<1>8. Keeps(k2, a2)
      BY <1>5, <1>6, <1>7 DEF Keeps
<1> QED BY <1>4, <1>8 DEF k2, a2

\* One request: every container has the last points of its kind again.
LEMMA RequestKeeps ==
    ASSUME NEW info, NEW all, NEW points, Kept(info, all), SanePoints(points)
    PROVE  Kept(addUsageInfo(info, points), Receive(all, points))
<1> DEFINE i2 == addUsageInfo(info, points)
           a2 == Receive(all, points)
<1>1. DOMAIN i2 = DOMAIN info \cup DOMAIN points /\ DOMAIN a2 = DOMAIN all \cup DOMAIN points
      BY DEF addUsageInfo, Receive
<1>2. ASSUME NEW k \in DOMAIN a2
      PROVE  Keeps(i2[k], a2[k]) /\ \A n \in 1..Len(a2[k]) : Sane(a2[k][n])
  <2>1. CASE k \notin DOMAIN points
    <3>1. k \in DOMAIN all /\ k \in DOMAIN info
          BY <1>1, <1>2, <2>1 DEF Kept
    <3>2. i2[k] = info[k] /\ a2[k] = all[k]
          BY <2>1, <3>1 DEF addUsageInfo, Receive
    <3> QED BY <3>1, <3>2 DEF Kept
  <2>2. CASE k \in DOMAIN points
    <3> DEFINE i == Of(info, k)
               a == Of(all, k)
               p == points[k]
    <3>1. i2[k] = addPoint(i, p) /\ a2[k] = Append(a, p)
          BY <2>2 DEF addUsageInfo, Receive
    <3>2. (Keeps(i, a) /\ \A n \in 1..Len(a) : Sane(a[n])) \/ (i = <<>> /\ a = <<>>)
          BY DEF Kept, Of
    <3>3. Sane(p) /\ p \in Point
          BY <2>2 DEF SanePoints, Sane
    <3>4. a \in Seq(Point) /\ \A n \in 1..Len(a) : Sane(a[n])
      <4> HIDE DEF i, a, p
      <4>1. CASE Keeps(i, a) /\ \A n \in 1..Len(a) : Sane(a[n])
            BY <4>1 DEF Keeps
      <4>2. CASE a = <<>>
            BY <4>2
      <4> QED BY <3>2, <4>1, <4>2
    <3> HIDE DEF i, a, p, i2, a2
    <3>5. Keeps(i2[k], a2[k])
          BY <3>1, <3>2, <3>3, AddKeeps
    <3>6. \A n \in 1..Len(a2[k]) : Sane(a2[k][n])
      <4>1. \A n \in 1..Len(Append(a, p)) : Append(a, p)[n] = p \/
                                            (n \in 1..Len(a) /\ Append(a, p)[n] = a[n])
            BY <3>3, <3>4
      <4> QED BY <3>1, <3>3, <3>4, <4>1
    <3> QED BY <3>5, <3>6
  <2> QED BY <2>1, <2>2
<1>3. DOMAIN i2 = DOMAIN a2 /\ DOMAIN a2 \subseteq Kinds
      BY <1>1 DEF Kept, SanePoints
<1> HIDE DEF i2, a2
<1>4. Kept(i2, a2)
      BY <1>2, <1>3 DEF Kept
<1> QED BY <1>4 DEF i2, a2

\* What is kept, by the invariants that say it.
LEMMA KeptIsInvariant == Kept(usage_info_, received) /\ lost \subseteq Kinds
                         <=> ContainersKeep /\ UsageIsPercent
<1>1. ASSUME NEW k \in DOMAIN received, received[k] \in Seq(Point)
      PROVE  (\A n \in 1..Len(received[k]) : Sane(received[k][n])) <=>
             (\A p \in Range(received[k]) : Percent(p))
      BY <1>1 DEF Sane, Range
<1> DEFINE Percents == \A k \in DOMAIN received : \A p \in Range(received[k]) : Percent(p)
<1>2. UsageIsPercent <=> Percents
      BY DEF UsageIsPercent, Percent
<1>3. ASSUME Kept(usage_info_, received), lost \subseteq Kinds
      PROVE  ContainersKeep /\ UsageIsPercent
  <2>1. \A k \in DOMAIN received : received[k] \in Seq(Point)
        BY <1>3 DEF Kept, Keeps
  <2> QED BY <1>1, <1>2, <1>3, <2>1 DEF Kept, ContainersKeep
<1>4. ASSUME ContainersKeep, UsageIsPercent
      PROVE  Kept(usage_info_, received) /\ lost \subseteq Kinds
  <2>1. \A k \in DOMAIN received : received[k] \in Seq(Point)
        BY <1>4 DEF ContainersKeep, Keeps
  <2> QED BY <1>1, <1>2, <1>4, <2>1 DEF Kept, ContainersKeep
<1> QED BY <1>3, <1>4

LEMMA KeptNext ==
    ASSUME Kept(usage_info_', received'), lost' \subseteq Kinds
    PROVE  ContainersKeep' /\ UsageIsPercent'
<1>1. (Kept(usage_info_, received) /\ lost \subseteq Kinds
         => ContainersKeep /\ UsageIsPercent)'
      BY KeptIsInvariant, PTL
<1> QED BY <1>1 DEF Kept, Keeps

\* A request that is ingested.
LEMMA IngestKeeps ==
    ASSUME ContainersKeep, UsageIsPercent, NEW points, SanePoints(points), Ingest(points)
    PROVE  SentSane' /\ ContainersKeep' /\ UsageIsPercent'
<1> DEFINE info == addUsageInfo(usage_info_, points)
           all == Receive(received, points)
<1>1. Kept(usage_info_, received) /\ lost \subseteq Kinds
      BY KeptIsInvariant
<1>2. Kept(info, all)
      BY <1>1, RequestKeeps
<1>3. usage_info_' = info /\ received' = all /\ lost' = lost /\ sent' = points
      BY DEF Ingest
<1> HIDE DEF info, all
<1>4. Kept(usage_info_', received') /\ lost' \subseteq Kinds
      BY <1>1, <1>2, <1>3
<1>5. SentSane'
      BY <1>3 DEF SentSane, SanePoints
<1> QED BY <1>4, <1>5, KeptNext

\* A new RmsComputer, given the last request again or nothing.
LEMMA ReconnectKeeps ==
    ASSUME SentSane, lost \subseteq Kinds, NEW resent \in BOOLEAN, Reconnect(resent)
    PROVE  SentSane' /\ ContainersKeep' /\ UsageIsPercent'
<1> DEFINE points == IF resent THEN sent ELSE <<>>
           info == addUsageInfo(<<>>, points)
           all == Receive(<<>>, points)
<1>1. SanePoints(points)
  <2>1. SanePoints(<<>>)
        BY DEF SanePoints
  <2> QED BY <2>1 DEF SentSane
<1>2. Kept(<<>>, <<>>)
      BY DEF Kept
<1>3. Kept(info, all)
  <2> HIDE DEF points
  <2> QED BY <1>1, <1>2, RequestKeeps
<1>4. usage_info_' = info /\ received' = all /\ lost' = lost /\ sent' = points
      BY DEF Reconnect
<1> HIDE DEF info, all, points
<1>5. Kept(usage_info_', received') /\ lost' \subseteq Kinds
      BY <1>3, <1>4
<1>6. SentSane'
      BY <1>1, <1>4 DEF SentSane, SanePoints
<1> QED BY <1>5, <1>6, KeptNext

-----------------------------------------------------------------------------
(* The points that are made *)

\* What RamReporter makes of /proc/meminfo: no more is free than there is.
LEMMA RamSane ==
    ASSUME MachineTypes, NEW ram \in Rams
    PROVE  LET d == RamData(ram)
           IN  /\ d.total \in Nat /\ d.total # 0 /\ d.free \in 0..d.total
               /\ d.swapTotal \in Nat /\ d.swapFree \in 0..d.swapTotal
<1>1. ~Has(meminfo, SwapLine(meminfo), "SwapFree")
      BY ReportsAssumption DEF MachineTypes
<1>2. /\ ram.total \in Nat /\ ram.swapTotal \in Nat /\ ram.total # 0
      /\ ram.free \in 0..ram.total /\ ram.swapFree \in 0..ram.swapTotal
      BY ReportsAssumption
<1> DEFINE found == Has(meminfo, SwapLine(meminfo), "SwapTotal")
           main_free == IF Has(meminfo, FreeLine(meminfo), "MemAvailable")
                        THEN ram.free ELSE ram.total
           total == IF found THEN ram.swapTotal ELSE main_free
           last == Has(meminfo, IF found THEN SwapLine(meminfo) + 1 ELSE SwapLine(meminfo),
                       "SwapFree")
<1>3. RamData(ram) = [total |-> ram.total, free |-> main_free, swapTotal |-> total,
                      swapFree |-> IF last THEN ram.swapFree ELSE total]
      BY DEF RamData
<1>4. main_free \in 0..ram.total /\ main_free \in Nat
      BY <1>2
<1>5. last => found
      BY <1>1
<1> HIDE DEF found, main_free, last
<1>6. total \in Nat /\ (last => ram.swapFree \in 0..total)
      BY <1>2, <1>4, <1>5
<1> HIDE DEF total
<1> QED BY <1>2, <1>3, <1>4, <1>6

\* The points of a report of the ram.
LEMMA RamPoints ==
    ASSUME MachineTypes, NEW ram \in Rams
    PROVE  LET d == RamData(ram)
               main == [num |-> d.total - d.free, den |-> d.total, of |-> "one"]
               swap == [num |-> d.swapTotal - d.swapFree, den |-> d.swapTotal, of |-> "one"]
           IN  SanePoints([k \in {"ram"} \X (IF d.swapTotal # 0 THEN {0, 1} ELSE {0}) |->
                             IF k[2] = 0 THEN main ELSE swap])
<1> DEFINE d == RamData(ram)
           main == [num |-> d.total - d.free, den |-> d.total, of |-> "one"]
           swap == [num |-> d.swapTotal - d.swapFree, den |-> d.swapTotal, of |-> "one"]
           K == {"ram"} \X (IF d.swapTotal # 0 THEN {0, 1} ELSE {0})
           P == [k \in K |-> IF k[2] = 0 THEN main ELSE swap]
<1>1. /\ d.total \in Nat /\ d.total # 0 /\ d.free \in 0..d.total
      /\ d.swapTotal \in Nat /\ d.swapFree \in 0..d.swapTotal
      BY RamSane
<1> HIDE DEF d
<1>2. Sane(main)
      BY <1>1 DEF Sane, Percent, Point
<1>3. d.swapTotal # 0 => Sane(swap)
      BY <1>1 DEF Sane, Percent, Point
<1>4. K \subseteq Kinds
      BY DEF Kinds
<1>5. \A k \in K : k[2] # 0 => d.swapTotal # 0
      OBVIOUS
<1>6. DOMAIN P = K /\ \A k \in K : P[k] = (IF k[2] = 0 THEN main ELSE swap)
      OBVIOUS
<1> HIDE DEF K, main, swap, P
<1>7. SanePoints(P)
      BY <1>2, <1>3, <1>4, <1>5, <1>6 DEF SanePoints
<1> QED BY <1>7 DEF P, K, main, swap, d

\* The points of a report of the cpus: where both reads were of one cpu its
\* counters have not run back between them, and where it was on line all the while
\* they have gone on.
LEMMA CpuPoints ==
    ASSUME MachineTypes, BaselinePast, baseline # <<>>,
           \A k \in DOMAIN baseline :
              baseline[k].cpu \in stayed \cup {-1} =>
                  StatLine(baseline[k].cpu).total > baseline[k].total
    PROVE  SanePoints([k \in {"cpu"} \X DOMAIN baseline |->
                         Usage(baseline[k[2]], ReadStat[k[2]])])
<1> DEFINE P == [k \in {"cpu"} \X DOMAIN baseline |-> Usage(baseline[k[2]], ReadStat[k[2]])]
<1>1. DOMAIN ReadStat = DOMAIN baseline /\ DOMAIN baseline \subseteq Nat
      BY ReadStatLines DEF BaselinePast
<1>2. ASSUME NEW j \in DOMAIN baseline
      PROVE  Sane(Usage(baseline[j], ReadStat[j]))
  <2> DEFINE b == baseline[j]
             r == ReadStat[j]
  <2>1. b \in StatLines /\ Grown(b, StatLine(b.cpu))
        BY DEF BaselinePast
  <2>2. r \in StatLines /\ r = StatLine(r.cpu)
        BY <1>1, ReadStatLines
  <2>3. b.cpu \in stayed \cup {-1} => StatLine(b.cpu).total > b.total
        OBVIOUS
  <2> HIDE DEF b, r
  <2>4. Source(b, r) \in {"one", "back", "two"}
        BY DEF Source
  <2>5. /\ Usage(b, r) \in Point /\ Usage(b, r).of = Source(b, r)
        /\ Usage(b, r).num = r.used - b.used /\ Usage(b, r).den = r.total - b.total
        BY <2>1, <2>2, <2>4 DEF Usage, Point, StatLines
  <2>6. Source(b, r) \in {"one", "back"} => r.used - b.used \in 0..(r.total - b.total)
    <3>1. Source(b, r) \in {"one", "back"} => r.cpu = b.cpu
          BY DEF Source
    <3>2. r.cpu = b.cpu => Grown(b, r)
          BY <2>1, <2>2
    <3> QED BY <2>1, <2>2, <3>1, <3>2 DEF StatLines, Grown
  <2>7. Source(b, r) = "one" => r.total - b.total > 0
    <3>1. Source(b, r) = "one" => r.cpu = b.cpu /\ b.cpu \in stayed \cup {-1}
          BY DEF Source
    <3>2. r.cpu = b.cpu => r = StatLine(b.cpu)
          BY <2>2
    <3> QED BY <2>1, <2>2, <2>3, <3>1, <3>2 DEF StatLines
  <2>8. Sane(Usage(b, r))
        BY <2>5, <2>6, <2>7 DEF Sane, Percent
  <2> QED BY <2>8 DEF b, r
<1>3. {"cpu"} \X DOMAIN baseline \subseteq Kinds
      BY <1>1 DEF Kinds
<1>4. DOMAIN P = {"cpu"} \X DOMAIN baseline
      OBVIOUS
<1>5. \A k \in DOMAIN P : k[2] \in DOMAIN baseline
      OBVIOUS
<1>6. \A k \in DOMAIN P : P[k] = Usage(baseline[k[2]], ReadStat[k[2]])
      OBVIOUS
<1>7. \A k \in DOMAIN P : Sane(P[k])
  <2> HIDE DEF P
  <2> QED BY <1>2, <1>5, <1>6
<1>8. SanePoints(P)
      BY <1>3, <1>4, <1>7 DEF SanePoints
<1> QED BY <1>8

-----------------------------------------------------------------------------
(* Steps *)

\* The machine goes on as a machine does.
LEMMA MachineStep ==
    ASSUME MachineTypes, [Next]_vars
    PROVE  MachineTypes'
<1>1. /\ MaxTicks \in Nat /\ MaxHotplug \in Nat /\ MaxReports \in Nat /\ MaxFaults \in Nat
      BY ReportsAssumption
<1>2. ASSUME NEW b, Fault(b)
      PROVE  faults' \in 0..MaxFaults
      BY <1>1, <1>2 DEF Fault, MachineTypes
<1>3. CASE ReadBaseline
      BY <1>1, <1>3 DEF ReadBaseline, MachineTypes, machine, cpus
<1>4. CASE RamReportEmpty
  <2>1. faults' \in 0..MaxFaults
        BY <1>2, <1>4 DEF RamReportEmpty
  <2> QED BY <1>1, <1>4, <2>1 DEF RamReportEmpty, MachineTypes, machine, cpus
<1>5. CASE Push
      BY <1>5 DEF Push, MachineTypes, machine, cpus
<1>6. CASE ReadResult
      BY <1>6 DEF ReadResult, MachineTypes, machine, cpus
<1>7. ASSUME NEW ram \in Rams, RamReport(ram)
      PROVE  MachineTypes'
  <2>1. /\ UNCHANGED <<machine, cpus, stayed, faults>>
        /\ reports < MaxReports /\ reports' = reports + 1
        BY <1>7 DEF RamReport
  <2> QED BY <1>1, <2>1 DEF MachineTypes, machine, cpus
<1>8. ASSUME NEW c \in Cpus, Hotplug(c)
      PROVE  MachineTypes'
  <2>1. 0 \in online' /\ online' \subseteq Cpus /\ stayed' \subseteq online'
        BY <1>8 DEF Hotplug, MachineTypes
  <2> QED BY <1>1, <1>8, <2>1 DEF Hotplug, MachineTypes, machine, server
<1>9. ASSUME NEW busy \in SUBSET online, Count(busy)
      PROVE  MachineTypes'
  <2>1. ASSUME NEW c \in Cpus
        PROVE  /\ stat'[c] \in [total : 0..MaxTicks, used : 0..MaxTicks]
               /\ stat'[c].used <= stat'[c].total
    <3>1. /\ stat[c].total \in 0..MaxTicks /\ stat[c].used \in 0..MaxTicks
          /\ stat[c].used <= stat[c].total
          BY DEF MachineTypes
    <3>2. CASE c \notin online
          BY <1>9, <3>2 DEF Count, MachineTypes
    <3>3. CASE c \in online
      <4> DEFINE inc == IF c \in busy THEN 1 ELSE 0
      <4>1. /\ stat'[c] = [total |-> stat[c].total + 1, used |-> stat[c].used + inc]
            /\ stat[c].total < MaxTicks
            BY <1>9, <3>3 DEF Count
      <4>2. inc \in {0, 1}
            OBVIOUS
      <4> HIDE DEF inc
      <4> QED BY <1>1, <3>1, <4>1, <4>2
    <3> QED BY <3>2, <3>3
  <2>2. stat' \in [Cpus -> [total : 0..MaxTicks, used : 0..MaxTicks]]
    <3>1. DOMAIN stat' = Cpus /\ stat' = [c \in Cpus |-> stat'[c]]
          BY <1>9 DEF Count
    <3> QED BY <2>1, <3>1
  <2>3. UNCHANGED <<machine, online, plugged, stayed, reports, faults>>
        BY <1>9 DEF Count
  <2> QED BY <2>1, <2>2, <2>3 DEF MachineTypes, machine
<1>10. ASSUME NEW resent \in BOOLEAN, Reconnect(resent)
       PROVE  MachineTypes'
  <2>1. faults' \in 0..MaxFaults
        BY <1>2, <1>10 DEF Reconnect
  <2>2. UNCHANGED <<machine, cpus, stayed, reports>>
        BY <1>10 DEF Reconnect
  <2> QED BY <2>1, <2>2 DEF MachineTypes, machine, cpus
<1>11. CASE UNCHANGED vars
      BY <1>11 DEF vars, machine, cpus, MachineTypes
<1> QED BY <1>3, <1>4, <1>5, <1>6, <1>7, <1>8, <1>9, <1>10, <1>11 DEF Next

\* What was read first stays a reading of the past.
LEMMA BaselineStep ==
    ASSUME MachineTypes, MachineTypes', BaselinePast, [Next]_vars
    PROVE  BaselinePast'
<1> DEFINE After(c) ==
               IF c = -1 THEN [cpu |-> c, total |-> Sum([d \in Cpus |-> stat'[d].total]),
                               used |-> Sum([d \in Cpus |-> stat'[d].used])]
               ELSE [cpu |-> c, total |-> stat'[c].total, used |-> stat'[c].used]
<1>0. BaselinePast' <=>
         (baseline' # <<>> =>
            /\ DOMAIN baseline' = 0..cpu_core_count_'
            /\ \A k \in DOMAIN baseline' : /\ baseline'[k] \in StatLines
                                           /\ Grown(baseline'[k], After(baseline'[k].cpu)))
      BY DEF BaselinePast, StatLine
<1>1. UNCHANGED machine
      BY DEF Next, ReadBaseline, RamReportEmpty, Push, ReadResult, RamReport, Hotplug, Count,
             Reconnect, vars
<1>2. UNCHANGED cpu_core_count_
      BY <1>1 DEF machine, cpu_core_count_
<1>3. ASSUME UNCHANGED <<stat, baseline>>
      PROVE  BaselinePast'
  <2>1. \A c : After(c) = StatLine(c)
        BY <1>3 DEF StatLine
  <2> HIDE DEF After
  <2> QED BY <1>0, <1>2, <1>3, <2>1 DEF BaselinePast
<1>4. CASE ReadBaseline
  <2>1. baseline' = ReadStat /\ stat' = stat
        BY <1>4 DEF ReadBaseline, cpus
  <2>2. \A c : After(c) = StatLine(c)
        BY <2>1 DEF StatLine
  <2> HIDE DEF After
  <2>3. DOMAIN baseline' = 0..cpu_core_count_
        BY <2>1, ReadStatLines
  <2>4. ASSUME NEW k \in DOMAIN baseline'
        PROVE  baseline'[k] \in StatLines /\ Grown(baseline'[k], After(baseline'[k].cpu))
    <3> DEFINE b == baseline'[k]
    <3>1. b \in StatLines /\ b = StatLine(b.cpu)
          BY <2>1, ReadStatLines
    <3>2. Grown(b, b)
      <4> HIDE DEF b
      <4> QED BY <3>1 DEF StatLines, Grown
    <3> QED BY <2>2, <3>1, <3>2
  <2> QED BY <1>0, <1>2, <2>3, <2>4
<1>5. ASSUME NEW busy \in SUBSET online, Count(busy)
      PROVE  BaselinePast'
  <2>1. baseline' = baseline
        BY <1>5 DEF Count
  <2>2. ASSUME NEW c \in Cpus
        PROVE  Grown(stat[c], stat'[c])
    <3>1. stat[c].total \in Int /\ stat[c].used \in Int
          BY DEF MachineTypes
    <3>2. CASE c \notin online
      <4>1. stat'[c] = stat[c]
            BY <1>5, <3>2 DEF Count
      <4> QED BY <3>1, <4>1 DEF Grown
    <3>3. CASE c \in online
      <4> DEFINE inc == IF c \in busy THEN 1 ELSE 0
      <4>1. stat'[c] = [total |-> stat[c].total + 1, used |-> stat[c].used + inc]
            BY <1>5, <3>3 DEF Count
      <4>2. inc \in {0, 1}
            OBVIOUS
      <4> HIDE DEF inc
      <4> QED BY <3>1, <4>1, <4>2 DEF Grown
    <3> QED BY <3>2, <3>3
  <2>3. ASSUME baseline # <<>>, NEW k \in DOMAIN baseline
        PROVE  /\ baseline'[k] \in StatLines
               /\ Grown(baseline'[k], After(baseline'[k].cpu))
    <3>1. baseline[k] \in StatLines /\ Grown(baseline[k], StatLine(baseline[k].cpu))
          BY <2>3 DEF BaselinePast
    <3>2. PICK c \in StatCpus : c = baseline[k].cpu
          BY <3>1 DEF StatLines
    <3>3. PICK b \in StatLines : b = baseline[k]
          BY <3>1
    <3>4. /\ StatLine(c) \in StatLines /\ StatLine(c)' \in StatLines
          /\ Grown(StatLine(c), StatLine(c)')
          BY <2>2, StatGrows
    <3>5. Grown(b, StatLine(c))
          BY <3>1, <3>2, <3>3
    <3>6. Grown(b, StatLine(c)')
          BY <3>3, <3>4, <3>5 DEF Grown, StatLines
    <3>7. baseline'[k] = b /\ baseline'[k].cpu = c
          BY <2>1, <3>2, <3>3
    <3>8. StatLine(c)' = After(c)
          BY DEF StatLine
    <3> HIDE DEF After
    <3> QED BY <3>3, <3>6, <3>7, <3>8
  <2> HIDE DEF After
  <2> QED BY <1>0, <1>2, <2>1, <2>3 DEF BaselinePast
<1>6. CASE ReadResult
      BY <1>6 DEF ReadResult, BaselinePast
<1>7. CASE RamReportEmpty
      BY <1>3, <1>7 DEF RamReportEmpty, cpus
<1>8. CASE Push
      BY <1>3, <1>8 DEF Push, cpus
<1>9. ASSUME NEW ram \in Rams, RamReport(ram)
      PROVE  BaselinePast'
      BY <1>3, <1>9 DEF RamReport, cpus
<1>10. ASSUME NEW c \in Cpus, Hotplug(c)
      PROVE  BaselinePast'
      BY <1>3, <1>10 DEF Hotplug
<1>11. ASSUME NEW resent \in BOOLEAN, Reconnect(resent)
      PROVE  BaselinePast'
      BY <1>3, <1>11 DEF Reconnect, cpus
<1>12. CASE UNCHANGED vars
      BY <1>3, <1>12 DEF vars, cpus
<1> QED BY <1>4, <1>5, <1>6, <1>7, <1>8, <1>9, <1>10, <1>11, <1>12 DEF Next

\* A report that is ingested, and a push, leave every container with the last
\* points of its kind, and every point as it should be; so does a new RmsComputer.
LEMMA ContainersStep ==
    ASSUME MachineTypes, BaselinePast, SentSane, ContainersKeep, UsageIsPercent, [Next]_vars
    PROVE  SentSane' /\ ContainersKeep' /\ UsageIsPercent'
<1>1. ASSUME UNCHANGED server
      PROVE  SentSane' /\ ContainersKeep' /\ UsageIsPercent'
      BY <1>1 DEF server, SentSane, SanePoints, ContainersKeep, Keeps, UsageIsPercent
<1>2. CASE ReadBaseline
      BY <1>1, <1>2 DEF ReadBaseline
<1>3. CASE RamReportEmpty
  <2> DEFINE P == [k \in {"ram"} \X {0} |-> [num |-> 0, den |-> 0, of |-> "none"]]
  <2>1. Sane([num |-> 0, den |-> 0, of |-> "none"])
        BY DEF Sane, Percent, Point
  <2>2. {"ram"} \X {0} \subseteq Kinds
        BY DEF Kinds
  <2>3. SanePoints(P)
        BY <2>1, <2>2 DEF SanePoints
  <2>4. Ingest(P)
        BY <1>3 DEF RamReportEmpty
  <2> HIDE DEF P
  <2> QED BY <2>3, <2>4, IngestKeeps
<1>4. CASE Push
  <2>1. /\ sent' = sent /\ usage_info_' = usage_info_ /\ received' = received
        /\ lost' \subseteq DOMAIN usage_info_
        BY <1>4 DEF Push
  <2> QED BY <2>1 DEF SentSane, SanePoints, ContainersKeep, Keeps, UsageIsPercent
<1>5. CASE ReadResult
  <2> DEFINE P == [k \in {"cpu"} \X DOMAIN baseline |->
                     Usage(baseline[k[2]], ReadStat[k[2]])]
  <2>1. /\ baseline # <<>>
        /\ \A k \in DOMAIN baseline :
              baseline[k].cpu \in stayed \cup {-1} =>
                  StatLine(baseline[k].cpu).total > baseline[k].total
        /\ Ingest(P)
        BY <1>5 DEF ReadResult
  <2>2. SanePoints(P)
        BY <2>1, CpuPoints
  <2> HIDE DEF P
  <2> QED BY <2>1, <2>2, IngestKeeps
<1>6. ASSUME NEW ram \in Rams, RamReport(ram)
      PROVE  SentSane' /\ ContainersKeep' /\ UsageIsPercent'
  <2> DEFINE d == RamData(ram)
             main == [num |-> d.total - d.free, den |-> d.total, of |-> "one"]
             swap == [num |-> d.swapTotal - d.swapFree, den |-> d.swapTotal, of |-> "one"]
             P == [k \in {"ram"} \X (IF d.swapTotal # 0 THEN {0, 1} ELSE {0}) |->
                     IF k[2] = 0 THEN main ELSE swap]
  <2>1. Ingest(P)
        BY <1>6 DEF RamReport
  <2>2. SanePoints(P)
        BY RamPoints
  <2> HIDE DEF P
  <2> QED BY <2>1, <2>2, IngestKeeps
<1>7. ASSUME NEW c \in Cpus, Hotplug(c)
      PROVE  SentSane' /\ ContainersKeep' /\ UsageIsPercent'
      BY <1>1, <1>7 DEF Hotplug
<1>8. ASSUME NEW busy \in SUBSET online, Count(busy)
      PROVE  SentSane' /\ ContainersKeep' /\ UsageIsPercent'
      BY <1>1, <1>8 DEF Count
<1>9. ASSUME NEW resent \in BOOLEAN, Reconnect(resent)
      PROVE  SentSane' /\ ContainersKeep' /\ UsageIsPercent'
      BY <1>9, ReconnectKeeps DEF ContainersKeep
<1>10. CASE UNCHANGED vars
      BY <1>1, <1>10 DEF vars
<1> QED BY <1>2, <1>3, <1>4, <1>5, <1>6, <1>7, <1>8, <1>9, <1>10 DEF Next

LEMMA ReportsInit == Init => ReportsInv
<1> SUFFICES ASSUME Init PROVE ReportsInv
    OBVIOUS
<1>1. MachineTypes
  <2>1. /\ MaxTicks \in Nat /\ MaxHotplug \in Nat /\ MaxReports \in Nat /\ MaxFaults \in Nat
        /\ CpuCores \subseteq Nat
        BY ReportsAssumption
  <2> QED BY <2>1, CpuNumbers DEF Init, MachineTypes
<1>2. BaselinePast
      BY DEF Init, BaselinePast
<1>3. DOMAIN usage_info_ = {} /\ DOMAIN received = {} /\ DOMAIN sent = {} /\ lost = {}
      BY DEF Init
<1>4. SentSane /\ ContainersKeep /\ UsageIsPercent
      BY <1>3 DEF SentSane, SanePoints, ContainersKeep, UsageIsPercent
<1> QED BY <1>1, <1>2, <1>4 DEF ReportsInv

\* The five together hold in every state.
LEMMA ReportsAlways == Spec => []ReportsInv
<1>1. ReportsInv /\ [Next]_vars => ReportsInv'
      BY MachineStep, BaselineStep, ContainersStep DEF ReportsInv
<1> QED BY <1>1, ReportsInit, PTL DEF Spec

-----------------------------------------------------------------------------
(* Theorems *)

\* Types: a container has between one point and one more than
\* RMS_MAX_CONTAINER_DATA_POINTS, over new connections too, and a fraction is of what
\* its two reads were of (UsageContainer::addPoint(), CpuReporter::report()).
THEOREM ReportsTypes == Spec => []TypeOK
<1>1. ReportsInv => TypeOK
      BY DEF ReportsInv, MachineTypes, ContainersKeep, Keeps, TypeOK
<1> QED BY <1>1, ReportsAlways, PTL

\* No cpu is used more than it counts between the two reads of /proc/stat, however many
\* cpus there are and lines are read, and whether it was on line all the while or went
\* and came back; if it was on line all the while, or the usage is of all cpus or of
\* the ram, it is a number (CpuReporter::report(), RamReporter::report()). Counters that
\* never run back, and that go on in a second on line, are the model's assumption.
THEOREM PointsArePercent == Spec => []UsageIsPercent
<1>1. ReportsInv => UsageIsPercent
      BY DEF ReportsInv
<1> QED BY <1>1, ReportsAlways, PTL

\* pushUsageToDB() is refused a usage only while a point of two cpus, of a cpu that was
\* off line between the reads or of a file that did not open is among the last a
\* container keeps. A new connection's containers start without it.
THEOREM OnlyBadPointsLoseHours == Spec => HourLostToBadPoint
<1>1. ASSUME ReportsInv, [Next]_vars, lost' # lost, NEW k \in lost'
      PROVE  \E p \in Recent(received[k]) : p.of # "one"
  <2>1. ASSUME NEW points, Ingest(points)
        PROVE  FALSE
        BY <1>1, <2>1 DEF Ingest
  <2>2. Push
    <3>1. ~ReadBaseline /\ ~RamReportEmpty /\ ~UNCHANGED vars
          BY <1>1, <2>1 DEF ReadBaseline, RamReportEmpty, vars, server
    <3>2. ~ReadResult /\ \A resent \in BOOLEAN : ~Reconnect(resent)
          BY <1>1, <2>1 DEF ReadResult, Reconnect
    <3>3. \A ram \in Rams : ~RamReport(ram)
          BY <2>1 DEF RamReport
    <3>4. \A c \in Cpus : ~Hotplug(c)
          BY <1>1 DEF Hotplug, server
    <3>5. \A busy \in SUBSET online : ~Count(busy)
          BY <1>1 DEF Count, server
    <3> QED BY <1>1, <3>1, <3>2, <3>3, <3>4, <3>5 DEF Next
  <2> DEFINE points == usage_info_[k]
             all == received[k]
  <2>3. k \in DOMAIN usage_info_ /\ \E p \in Range(points) : p.den = 0
        BY <1>1, <2>2 DEF Push
  <2>4. k \in DOMAIN received /\ Keeps(points, all)
        BY <1>1, <2>3 DEF ReportsInv, ContainersKeep
  <2>5. \A p \in Range(all) : p.of = "one" => p.den > 0
        BY <1>1, <2>4 DEF ReportsInv, UsageIsPercent
  <2>6. MaxDataPoints \in Nat
        BY ReportsAssumption
  <2> HIDE DEF points, all
  <2>7. PICK n \in 1..Len(points) : points[n].den = 0
        BY <2>3, <2>4 DEF Keeps, Range
  <2> DEFINE m == Len(all) - Len(points) + n
  <2>8. m \in 1..Len(all) /\ m >= Len(all) - MaxDataPoints /\ points[n] = all[m]
    <3>1. /\ Len(all) \in Nat /\ Len(points) \in 1..(MaxDataPoints + 1)
          /\ Len(points) <= Len(all)
          BY <2>4 DEF Keeps
    <3>2. points[n] = all[m]
          BY <2>4 DEF Keeps
    <3> QED BY <2>6, <3>1, <3>2
  <2>9. DOMAIN all = 1..Len(all)
        BY <2>4 DEF Keeps
  <2> HIDE DEF m
  <2>10. all[m] \in Range(all) /\ all[m] \in Recent(all)
        BY <2>8, <2>9 DEF Range, Recent
  <2>11. all[m].of # "one"
    <3>1. ~(all[m].den > 0)
          BY <2>7, <2>8
    <3> QED BY <2>5, <2>10, <3>1
  <2>12. \E p \in Recent(all) : p.of # "one"
        BY <2>10, <2>11
  <2> QED BY <2>12 DEF all
<1>2. ReportsInv /\ [Next]_vars =>
         [\A k \in lost' : lost' # lost => \E p \in Recent(received[k]) : p.of # "one"]_vars
      BY <1>1
<1> QED BY <1>2, ReportsAlways, PTL DEF Spec, HourLostToBadPoint
=============================================================================
