--------------------------- MODULE MCUsageIngestor ---------------------------
(***************************************************************************)
(* Instances of UsageIngestor for TLC. The clock unit is ten minutes (an   *)
(* hour is 6, the five minutes after boot 1), half an hour or an hour.      *)
(***************************************************************************)
EXTENDS UsageIngestor

CONSTANTS k1, k2, cpu, ram

\* What a request brings points for: nothing (a ping, a command's result), the
\* one core of a small machine, or its ram.
CpuOnly == {<<>>, <<cpu>>}
CpuRam  == {<<>>, <<cpu>>, <<ram>>}

\* One unit before eleven at night: pushes go past midnight.
LateEvening == 23 * Hour - 1

\* An hour earlier: the first reporter may come two hours after boot.
Evening == 22 * Hour - 1
=============================================================================
