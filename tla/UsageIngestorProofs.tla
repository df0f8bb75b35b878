------------------------ MODULE UsageIngestorProofs -------------------------
(***************************************************************************)
(* Proofs about UsageIngestor, for any number of connection threads, and   *)
(* for one thread what the lack of a lock breaks with two.                 *)
(***************************************************************************)
EXTENDS UsageIngestor, TLAPS, FiniteSetTheorems, WellFoundedInduction

\* The hour of an instant is one of the day's 24.
LEMMA HourInRange == ASSUME NEW t \in Nat PROVE HourOf(t) \in 0..23
<1>1. t \div Hour \in Int
      BY UsageAssumption
<1>2. \A x \in Int : x % 24 \in 0..23
      OBVIOUS
<1> QED BY <1>1, <1>2 DEF HourOf

-----------------------------------------------------------------------------
(* What the operators return *)

\* A day is later, or the same, for a later instant.
LEMMA DateGrows ==
    ASSUME NEW s \in Nat, NEW t \in Nat, s <= t
    PROVE  DateOf(s) \in 0..DateOf(t)
<1> DEFINE day == 24 * Hour
<1>1. day \in Nat \ {0}
      BY UsageAssumption
<1> HIDE DEF day
<1>2. ASSUME NEW n \in Nat
      PROVE  /\ n \div day \in Nat
             /\ day * (n \div day) <= n /\ n < day * ((n \div day) + 1)
      BY <1>1
<1> DEFINE q == s \div day
           r == t \div day
<1>3. q \in Nat /\ r \in Nat /\ day * q <= s /\ t < day * (r + 1)
      BY <1>2
<1> HIDE DEF q, r
<1>4. day * q < day * (r + 1)
      BY <1>1, <1>3
<1>5. q < r + 1
      BY <1>1, <1>3, <1>4
<1> QED BY <1>3, <1>5 DEF DateOf, day, q, r

\* Dates in the table's range.
LEMMA DateInRange == ASSUME NEW t \in 0..MaxTime PROVE DateOf(t) \in Dates
      BY DateGrows, UsageAssumption DEF Dates

\* addUsageInfo() keeps a container within RMS_MAX_CONTAINER_DATA_POINTS and
\* the one point it may hold above it.
LEMMA ContainersKept ==
    ASSUME NEW info \in Seq(Container), NEW kind \in Kinds
    PROVE  addUsageInfo(info, kind) \in Seq(Container)
<1>1. ASSUME NEW k \in DOMAIN info
      PROVE  [info[k] EXCEPT !.size = addPoint(info[k].size)] \in Container
  <2>1. info[k] \in Container
        OBVIOUS
  <2>2. addPoint(info[k].size) \in 1..(MaxDataPoints + 1)
        BY <2>1, UsageAssumption DEF addPoint, Container
  <2> QED BY <2>1, <2>2 DEF Container
<1>2. [k \in DOMAIN info |-> IF info[k].kind = kind
                             THEN [info[k] EXCEPT !.size = addPoint(@)]
                             ELSE info[k]] \in Seq(Container)
      BY <1>1
<1>3. Append(info, [kind |-> kind, size |-> 1]) \in Seq(Container)
      BY UsageAssumption DEF Container
<1> QED BY <1>2, <1>3 DEF addUsageInfo

\* A set of naturals has a least element.
LEMMA LeastElement ==
    ASSUME NEW T, T \subseteq Nat, T # {}
    PROVE  \E x \in T : \A y \in T : x <= y
<1>1. PICK x \in T : \A y \in T : <<y, x>> \notin OpToRel(<, Nat)
      BY NatLessThanWellFounded, WFMin
<1>2. \A y \in T : ~(y < x)
      BY <1>1 DEF OpToRel
<1> QED BY <1>2

\* One point of a request, as a function of the containers before it.
Round(info, req, f, n) == IF n = 0 THEN info ELSE addUsageInfo(f[n - 1], req[n])

\* The points can be added to the last: a function follows the rounds.
LEMMA PointsRun ==
    ASSUME NEW info, NEW req \in Seq(Kinds)
    PROVE  \A m \in 0..Len(req) : \E f : f = [n \in 0..m |-> Round(info, req, f, n)]
<1> DEFINE Runs(m) == \E f : f = [n \in 0..m |-> Round(info, req, f, n)]
           T == {m \in 0..Len(req) : ~Runs(m)}
<1>1. SUFFICES ASSUME T # {} PROVE FALSE
      BY <1>1
<1>2. PICK m \in T : \A y \in T : m <= y
  <2>1. T \subseteq Nat
        OBVIOUS
  <2> HIDE DEF T
  <2> QED BY <1>1, <2>1, LeastElement
<1>3. m \in 0..Len(req) /\ ~Runs(m)
      OBVIOUS
<1>4. CASE m = 0
  <2> DEFINE g == [n \in 0..0 |-> info]
  <2>1. g = [n \in 0..0 |-> Round(info, req, g, n)]
        BY DEF Round
  <2> QED BY <1>3, <1>4, <2>1
<1>5. CASE m # 0
  <2>1. m - 1 \in 0..Len(req) /\ m - 1 \notin T
        BY <1>2, <1>3, <1>5
  <2>2. PICK f : f = [n \in 0..(m - 1) |-> Round(info, req, f, n)]
        BY <2>1
  <2> DEFINE g == [n \in 0..m |-> IF n = m THEN Round(info, req, f, m) ELSE f[n]]
  <2>3. \A n \in 0..m : Round(info, req, g, n) = Round(info, req, f, n)
        BY <1>3, <1>5 DEF Round
  <2>4. \A n \in 0..m : g[n] = Round(info, req, g, n)
    <3>1. \A n \in 0..m : n # m => n \in 0..(m - 1)
          BY <1>3
    <3>2. \A n \in 0..(m - 1) : f[n] = Round(info, req, f, n)
          BY <2>2
    <3> QED BY <2>3, <3>1, <3>2
  <2>5. g = [n \in 0..m |-> Round(info, req, g, n)]
        BY <2>4
  <2> QED BY <1>3, <2>5
<1> QED BY <1>4, <1>5

\* A request of any length leaves containers.
LEMMA PointsKept ==
    ASSUME NEW info \in Seq(Container), NEW req \in Seq(Kinds)
    PROVE  addPoints(info, req) \in Seq(Container)
<1> DEFINE Follows(f) == f = [n \in 0..Len(req) |-> Round(info, req, f, n)]
           added == CHOOSE f : Follows(f)
<1>1. addPoints(info, req) = added[Len(req)]
      BY DEF addPoints, Round
<1>2. Len(req) \in 0..Len(req)
      OBVIOUS
<1>3. \E f : Follows(f)
      BY <1>2, PointsRun
<1>4. Follows(added)
      BY <1>3
<1>5. \A n \in 0..Len(req) : added[n] = Round(info, req, added, n)
      BY <1>4
<1> HIDE DEF added, Follows
<1> DEFINE T == {n \in 0..Len(req) : added[n] \notin Seq(Container)}
<1>6. ASSUME T # {} PROVE FALSE
  <2>1. T \subseteq Nat
        OBVIOUS
  <2>2. PICK m \in T : \A y \in T : m <= y
    <3> HIDE DEF T
    <3> QED BY <1>6, <2>1, LeastElement
  <2>3. m # 0
        BY <1>5 DEF Round
  <2>4. m - 1 \in 0..Len(req) /\ m - 1 \notin T
        BY <2>2, <2>3
  <2>5. added[m] = addUsageInfo(added[m - 1], req[m]) /\ req[m] \in Kinds
        BY <1>5, <2>3 DEF Round
  <2> QED BY <2>4, <2>5, ContainersKept
<1> QED BY <1>1, <1>2, <1>6

-----------------------------------------------------------------------------
(* Types, for any number of threads *)

\* The clock only goes on, and localtime's buffer holds an instant of the past.
ClockTypes ==
    /\ now \in StartTime..MaxTime
    /\ boot \in StartTime..now
    /\ tm \in 0..now
    /\ next_usage_push_ \in Nat

\* A thread that pushes is at a container its computer has: only the thread
\* itself adds containers, and not while it pushes.
ThreadsInRange ==
    /\ usage_info_ \in [Computers -> Seq(Container)]
    /\ pc \in [Computers -> {"idle", "check", "first", "hour", "loadHour", "storeHour",
                             "push", "date", "tick", "addTick", "storeTick",
                             "next", "storeNext"} \cup PushStates]
    /\ i \in [Computers -> Nat]
    /\ reg \in [Computers -> Int]
    /\ \A c \in Computers : /\ Pushing(c) => i[c] \in 1..Len(usage_info_[c])
                            /\ pc[c] = "storeHour" => reg[c] \in 0..23
                            /\ pc[c] \in {"storeTick", "storeNext"} => reg[c] \in Nat

TableTypes ==
    /\ rows \in [Dates \X Kinds -> Nat]
    /\ wrote \in [date : Dates, tick : Columns, at : 0..now, met : Nat]
    /\ failed \subseteq Dates /\ Cardinality(failed) <= MaxFailures

\* With several threads the tick may pass 23, and then goes on.
TickTypes ==
    /\ tick_ \in Nat \cup {-1}
    /\ tick \in [Computers -> Nat \cup {-1}]
    /\ first \in 0..23
    /\ restarts \in 0..MaxRestarts

\* The threads that have found a deadline due and not yet begun their push.
Waiting == {"first", "hour", "loadHour", "storeHour", "push"}
Pending == {c \in Computers : pc[c] \in Waiting}

\* No thread begins a push past the bound but those that were due before it.
PushesBounded ==
    /\ pushes \in Nat
    /\ pushes + Cardinality(Pending) <= MaxPushes + Cardinality(Computers)

\* Nothing is at work in the initial state.
LEMMA TypesInit ==
    Init => /\ ClockTypes /\ ThreadsInRange /\ TickTypes
            /\ TableTypes /\ PushesBounded
<1> SUFFICES ASSUME Init
             PROVE  /\ ClockTypes /\ ThreadsInRange /\ TickTypes
                    /\ TableTypes /\ PushesBounded
      OBVIOUS
<1> USE UsageAssumption DEF Init, Each
<1>1. ClockTypes
      BY DEF ClockTypes
<1>2. ThreadsInRange
      BY DEF ThreadsInRange, Pushing, PushStates
<1>3. TickTypes
      BY DEF TickTypes
<1>4. TableTypes
  <2>1. DateOf(StartTime) \in Dates
        BY DateInRange
  <2>2. HourOf(StartTime) \in 0..23
        BY HourInRange
  <2>3. Cardinality(failed) = 0
        BY FS_EmptySet
  <2> QED BY <2>1, <2>2, <2>3 DEF TableTypes, Columns
<1>5. PushesBounded
  <2>1. Pending = {}
        BY DEF Pending, Waiting
  <2>2. Cardinality(Computers) \in Nat
        BY FS_CardinalityType
  <2> QED BY <2>1, <2>2, FS_EmptySet DEF PushesBounded
<1> QED BY <1>1, <1>2, <1>3, <1>4, <1>5

\* The clock and what is taken from it.
LEMMA ClockStep == ClockTypes /\ ThreadsInRange /\ [Next]_vars => ClockTypes'
<1> SUFFICES ASSUME ClockTypes, ThreadsInRange, [Next]_vars PROVE ClockTypes'
      OBVIOUS
<1> USE UsageAssumption DEF ClockTypes, clockVars, serverVars
<1>1. ASSUME NEW c \in Computers, LocalTime(c) \/ PushDate(c) PROVE ClockTypes'
      BY <1>1 DEF LocalTime, PushDate
<1>2. ASSUME NEW c \in Computers, StoreNext(c) PROVE ClockTypes'
      BY <1>2 DEF StoreNext, ThreadsInRange
<1>3. ASSUME NEW c \in Computers, StoreTick(c) \/ StoreHour(c) PROVE ClockTypes'
      BY <1>3 DEF StoreTick, StoreHour
<1>4. ASSUME NEW c \in Computers,
             \/ \E req \in Requests : IngestPoints(c, req)
             \/ Check(c) \/ CheckFirst(c) \/ LoadHour(c) \/ PushBegin(c)
             \/ \E ok \in BOOLEAN : PushCount(c, ok) \/ PushInsert(c, ok) \/ PushUpdate(c, ok)
             \/ CompareTick(c) \/ LoadTick(c) \/ LoadNext(c)
      PROVE  ClockTypes'
      BY <1>4 DEF IngestPoints, Check, CheckFirst, LoadHour, PushBegin, PushCount,
                  PushInsert, PushUpdate, CompareTick, LoadTick, LoadNext
<1>5. CASE Advance
      BY <1>5 DEF Advance
<1>6. CASE Restart
      BY <1>6 DEF Restart
<1>7. CASE UNCHANGED vars
      BY <1>7 DEF vars
<1> HIDE DEF ClockTypes
<1> QED BY <1>1, <1>2, <1>3, <1>4, <1>5, <1>6, <1>7 DEF Next, Ingest, Push

\* What a thread keeps to itself.
LEMMA ThreadsStep ==
    ClockTypes /\ ThreadsInRange /\ TickTypes /\ [Next]_vars => ThreadsInRange'
<1> SUFFICES ASSUME ClockTypes, ThreadsInRange, TickTypes, [Next]_vars
             PROVE  ThreadsInRange'
      OBVIOUS
<1> USE DEF ThreadsInRange, Pushing, PushStates, Goto, threadVars
<1>a. \A c \in Computers : /\ usage_info_[c] \in Seq(Container)
                           /\ Len(usage_info_[c]) \in Nat
      OBVIOUS
<1>1. ASSUME NEW c \in Computers, NEW req \in Requests, IngestPoints(c, req)
      PROVE  ThreadsInRange'
  <2>1. addPoints(usage_info_[c], req) \in Seq(Container)
        BY <1>a, PointsKept, UsageAssumption
  <2> QED BY <1>1, <2>1 DEF IngestPoints
<1>2. ASSUME NEW c \in Computers,
             Check(c) \/ CheckFirst(c) \/ LocalTime(c) \/ PushBegin(c)
      PROVE  ThreadsInRange'
      BY <1>2 DEF Check, CheckFirst, LocalTime, PushBegin
<1>3. ASSUME NEW c \in Computers, LoadHour(c) PROVE ThreadsInRange'
  <2>1. HourOf(tm) \in 0..23
        BY HourInRange, UsageAssumption DEF ClockTypes
  <2> QED BY <1>3, <2>1 DEF LoadHour
<1>4. ASSUME NEW c \in Computers, PushDate(c) PROVE ThreadsInRange'
      BY <1>4, <1>a DEF PushDate, Entry
<1>5. ASSUME NEW c \in Computers, NEW ok, PushCount(c, ok) \/ PushInsert(c, ok)
      PROVE  ThreadsInRange'
      BY <1>5 DEF PushCount, PushInsert
<1>6. ASSUME NEW c \in Computers, NEW ok, PushUpdate(c, ok) PROVE ThreadsInRange'
      BY <1>6, <1>a DEF PushUpdate, Entry
<1>7. ASSUME NEW c \in Computers, CompareTick(c) PROVE ThreadsInRange'
      BY <1>7 DEF CompareTick
<1>8. ASSUME NEW c \in Computers, LoadTick(c) PROVE ThreadsInRange'
      BY <1>8 DEF LoadTick, TickTypes
<1>9. ASSUME NEW c \in Computers, LoadNext(c) PROVE ThreadsInRange'
      BY <1>9, UsageAssumption DEF LoadNext, ClockTypes
<1>10. ASSUME NEW c \in Computers, StoreHour(c) \/ StoreTick(c) \/ StoreNext(c)
      PROVE  ThreadsInRange'
      BY <1>10 DEF StoreHour, StoreTick, StoreNext
<1>11. CASE Advance
      BY <1>11 DEF Advance
<1>12. CASE Restart
      BY <1>12 DEF Restart, Each
<1>13. CASE UNCHANGED vars
      BY <1>13 DEF vars
<1> HIDE DEF ThreadsInRange
<1> QED BY <1>1, <1>2, <1>3, <1>4, <1>5, <1>6, <1>7, <1>8, <1>9, <1>10, <1>11,
           <1>12, <1>13
        DEF Next, Ingest, Push

\* The tick, and the tick a push was called with.
LEMMA TicksStep == ThreadsInRange /\ TickTypes /\ [Next]_vars => TickTypes'
<1> SUFFICES ASSUME ThreadsInRange, TickTypes, [Next]_vars PROVE TickTypes'
      OBVIOUS
<1> USE DEF TickTypes, threadVars, serverVars, countVars
<1>1. ASSUME NEW c \in Computers, StoreHour(c) \/ StoreTick(c) PROVE TickTypes'
  <2>1. /\ pc[c] = "storeHour" => reg[c] \in 0..23
        /\ pc[c] = "storeTick" => reg[c] \in Nat
        BY DEF ThreadsInRange
  <2> QED BY <1>1, <2>1 DEF StoreHour, StoreTick
<1>2. ASSUME NEW c \in Computers, PushBegin(c) PROVE TickTypes'
      BY <1>2 DEF PushBegin
<1>3. ASSUME NEW c \in Computers,
             \/ \E req \in Requests : IngestPoints(c, req)
             \/ Check(c) \/ CheckFirst(c) \/ LocalTime(c) \/ LoadHour(c) \/ PushDate(c)
             \/ \E ok \in BOOLEAN : PushCount(c, ok) \/ PushInsert(c, ok) \/ PushUpdate(c, ok)
             \/ CompareTick(c) \/ LoadTick(c) \/ LoadNext(c) \/ StoreNext(c)
      PROVE  TickTypes'
      BY <1>3 DEF IngestPoints, Check, CheckFirst, LocalTime, LoadHour, PushDate, PushCount,
                  PushInsert, PushUpdate, CompareTick, LoadTick, LoadNext, StoreNext
<1>4. CASE Advance
      BY <1>4 DEF Advance
<1>5. CASE Restart
      BY <1>5, UsageAssumption DEF Restart, Each
<1>6. CASE UNCHANGED vars
      BY <1>6 DEF vars
<1> HIDE DEF TickTypes
<1> QED BY <1>1, <1>2, <1>3, <1>4, <1>5, <1>6 DEF Next, Ingest, Push

\* A thread that pushes names a row the table can have.
LEMMA RowInTable ==
    ASSUME ClockTypes, ThreadsInRange, NEW c \in Computers, Pushing(c)
    PROVE  Row(c) \in Dates \X Kinds /\ DateOf(tm) \in Dates
<1>1. DateOf(tm) \in Dates
      BY DateInRange, UsageAssumption DEF ClockTypes
<1>2. usage_info_[c] \in Seq(Container) /\ i[c] \in 1..Len(usage_info_[c])
      BY DEF ThreadsInRange
<1>3. usage_info_[c][i[c]] \in Container
      BY <1>2
<1>4. usage_info_[c][i[c]].kind \in Kinds
      BY <1>3 DEF Container
<1> QED BY <1>1, <1>4 DEF Row

\* A statement that fails marks its day, within the bound.
LEMMA FailuresBounded ==
    ASSUME ClockTypes, TableTypes, NEW ok, Statement(ok)
    PROVE  failed' \subseteq Dates /\ Cardinality(failed') <= MaxFailures
<1>1. CASE ok
      BY <1>1 DEF Statement, TableTypes
<1>2. CASE ~ok
  <2>1. DateOf(tm) \in Dates
        BY DateInRange, UsageAssumption DEF ClockTypes
  <2>2. IsFiniteSet(failed)
    <3>1. IsFiniteSet(Dates)
      <4>1. 0 \in Int /\ DateOf(MaxTime) \in Int
            BY DateGrows, UsageAssumption
      <4> QED BY <4>1, FS_Interval DEF Dates
    <3> QED BY <3>1, FS_Subset DEF TableTypes
  <2>3. Cardinality(failed) < MaxFailures /\ failed' = failed \cup {DateOf(tm)}
        BY <1>2 DEF Statement
  <2>4. /\ Cardinality(failed) \in Nat
        /\ \/ Cardinality(failed') = Cardinality(failed)
           \/ Cardinality(failed') = Cardinality(failed) + 1
        BY <2>2, <2>3, FS_AddElement, FS_CardinalityType
  <2> QED BY <2>1, <2>3, <2>4, UsageAssumption DEF TableTypes
<1> QED BY <1>1, <1>2

\* The table and the last UPDATE of it.
LEMMA TableStep ==
    ClockTypes /\ ThreadsInRange /\ TableTypes /\ [Next]_vars => TableTypes'
<1> SUFFICES ASSUME ClockTypes, ThreadsInRange, TableTypes, [Next]_vars
             PROVE  TableTypes'
      OBVIOUS
<1> USE DEF TableTypes, clockVars, tableVars
<1>a. now \in Nat
      BY UsageAssumption DEF ClockTypes
<1>b. \A ok : Statement(ok) => failed' \subseteq Dates /\ Cardinality(failed') <= MaxFailures
      BY FailuresBounded
<1>c. \A c \in Computers : Pushing(c) =>
         Row(c) \in Dates \X Kinds /\ DateOf(tm) \in Dates
      BY RowInTable
<1>1. ASSUME NEW c \in Computers, NEW ok, PushCount(c, ok) PROVE TableTypes'
      BY <1>b, <1>1 DEF PushCount
<1>2. ASSUME NEW c \in Computers, NEW ok, PushInsert(c, ok) PROVE TableTypes'
  <2>1. Row(c) \in Dates \X Kinds
        BY <1>2, <1>c DEF PushInsert, Pushing, PushStates
  <2> QED BY <1>b, <1>2, <2>1 DEF PushInsert
<1>3. ASSUME NEW c \in Computers, NEW ok, PushUpdate(c, ok) PROVE TableTypes'
  <2>1. Pushing(c)
        BY <1>3 DEF PushUpdate, Pushing, PushStates
  <2>2. rows[Row(c)] \in Nat /\ DateOf(tm) \in Dates
        BY <1>c, <2>1
  <2> QED BY <1>a, <1>b, <1>3, <2>2 DEF PushUpdate
<1>4. ASSUME NEW c \in Computers,
             \/ \E req \in Requests : IngestPoints(c, req)
             \/ Check(c) \/ CheckFirst(c) \/ LocalTime(c) \/ LoadHour(c) \/ StoreHour(c)
             \/ PushBegin(c) \/ PushDate(c) \/ CompareTick(c) \/ LoadTick(c)
             \/ StoreTick(c) \/ LoadNext(c) \/ StoreNext(c)
      PROVE  TableTypes'
  <2>1. UNCHANGED <<now, rows, wrote, failed>>
        BY <1>4 DEF IngestPoints, Check, CheckFirst, LocalTime, LoadHour, StoreHour, PushBegin,
                    PushDate, CompareTick, LoadTick, StoreTick, LoadNext, StoreNext
  <2> QED BY <2>1
<1>5. CASE Advance
  <2>1. now' = now + 1 /\ UNCHANGED <<rows, wrote, failed>>
        BY <1>5 DEF Advance
  <2> QED BY <1>a, <2>1
<1>6. CASE Restart
      BY <1>6 DEF Restart
<1>7. CASE UNCHANGED vars
      BY <1>7 DEF vars
<1> HIDE DEF TableTypes
<1> QED BY <1>1, <1>2, <1>3, <1>4, <1>5, <1>6, <1>7 DEF Next, Ingest, Push

\* A push that begins was pending; beyond the bound nothing becomes pending.
LEMMA PushesStep == ThreadsInRange /\ PushesBounded /\ [Next]_vars => PushesBounded'
<1> SUFFICES ASSUME ThreadsInRange, PushesBounded, [Next]_vars PROVE PushesBounded'
      OBVIOUS
<1> USE DEF PushesBounded, countVars
<1>a. /\ Cardinality(Computers) \in Nat /\ MaxPushes \in Nat
      /\ IsFiniteSet(Pending) /\ Cardinality(Pending) \in Nat
      BY FS_CardinalityType, FS_Subset, UsageAssumption DEF Pending
<1>b. DOMAIN pc = Computers
      BY DEF ThreadsInRange
<1>c. ASSUME Pending' = Pending, pushes' = pushes PROVE PushesBounded'
      BY <1>c
<1>1. ASSUME NEW c \in Computers, Check(c) PROVE PushesBounded'
  <2>1. CASE pushes < MaxPushes
    <3>1. /\ Cardinality(Pending') \in Nat
          /\ Cardinality(Pending') <= Cardinality(Computers)
          BY FS_CardinalityType, FS_Subset, UsageAssumption DEF Pending
    <3>2. pushes' = pushes
          BY <1>1 DEF Check
    <3> QED BY <1>a, <2>1, <3>1, <3>2
  <2>2. CASE ~(pushes < MaxPushes)
    <3>1. pc[c] = "check" /\ pc' = [pc EXCEPT ![c] = "idle"] /\ pushes' = pushes
          BY <1>1, <2>2 DEF Check, Goto
    <3>2. Pending' = Pending
          BY <1>b, <3>1 DEF Pending, Waiting
    <3> QED BY <1>c, <3>1, <3>2
  <2> QED BY <2>1, <2>2
<1>2. ASSUME NEW c \in Computers, PushBegin(c) PROVE PushesBounded'
  <2>1. /\ pc[c] = "push" /\ pc' = [pc EXCEPT ![c] = "date"]
        /\ pushes' = pushes + 1
        BY <1>2 DEF PushBegin, Goto
  <2>2. c \in Pending /\ Pending' = Pending \ {c}
        BY <1>b, <2>1 DEF Pending, Waiting
  <2>3. Cardinality(Pending') = Cardinality(Pending) - 1
        BY <1>a, <2>2, FS_RemoveElement
  <2> QED BY <1>a, <2>1, <2>3
<1>3. ASSUME NEW c \in Computers, NEW there,
             pc' = [pc EXCEPT ![c] = there], pushes' = pushes,
             pc[c] \in Waiting <=> there \in Waiting
      PROVE  PushesBounded'
  <2>1. Pending' = Pending
        BY <1>b, <1>3 DEF Pending
  <2> QED BY <1>c, <1>3, <2>1
<1>4. ASSUME NEW c \in Computers,
             \/ \E req \in Requests : IngestPoints(c, req)
             \/ LocalTime(c) \/ LoadHour(c) \/ StoreHour(c)
             \/ LoadTick(c) \/ StoreTick(c) \/ LoadNext(c) \/ StoreNext(c)
      PROVE  PushesBounded'
      BY <1>3, <1>4 DEF IngestPoints, LocalTime, LoadHour, StoreHour, LoadTick, StoreTick,
                        LoadNext, StoreNext, Goto, Waiting
<1>5. ASSUME NEW c \in Computers, CheckFirst(c) PROVE PushesBounded'
  <2>1. PICK l \in {"hour", "push"} : pc' = [pc EXCEPT ![c] = l]
        BY <1>5 DEF CheckFirst, Goto
  <2> QED BY <1>3, <1>5, <2>1 DEF CheckFirst, Waiting
<1>6. ASSUME NEW c \in Computers, PushDate(c) PROVE PushesBounded'
  <2>1. Entry(c, 1) \notin Waiting
        BY DEF Entry, Waiting
  <2> QED BY <1>3, <1>6, <2>1 DEF PushDate, Goto, Waiting
<1>7. ASSUME NEW c \in Computers, NEW ok, PushCount(c, ok) PROVE PushesBounded'
  <2>1. PICK l \in {"insert", "update"} : pc' = [pc EXCEPT ![c] = l]
        BY <1>7 DEF PushCount, Goto
  <2> QED BY <1>3, <1>7, <2>1 DEF PushCount, Waiting
<1>8. ASSUME NEW c \in Computers, NEW ok, PushInsert(c, ok) PROVE PushesBounded'
      BY <1>3, <1>8 DEF PushInsert, Goto, Waiting
<1>9. ASSUME NEW c \in Computers, NEW ok, PushUpdate(c, ok) PROVE PushesBounded'
  <2>1. Entry(c, i[c] + 1) \notin Waiting
        BY DEF Entry, Waiting
  <2> QED BY <1>3, <1>9, <2>1 DEF PushUpdate, Goto, Waiting
<1>10. ASSUME NEW c \in Computers, CompareTick(c) PROVE PushesBounded'
  <2>1. PICK l \in {"addTick", "storeTick"} : pc' = [pc EXCEPT ![c] = l]
        BY <1>10 DEF CompareTick, Goto
  <2> QED BY <1>3, <1>10, <2>1 DEF CompareTick, Waiting
<1>11. CASE Advance \/ UNCHANGED vars
      BY <1>c, <1>11 DEF Advance, vars, Pending
<1>12. CASE Restart
  <2>1. Pending' = {} /\ pushes' = 0
        BY <1>12 DEF Restart, Each, Pending, Waiting
  <2> QED BY <1>a, <2>1, FS_EmptySet
<1> HIDE DEF PushesBounded
<1> QED BY <1>1, <1>2, <1>4, <1>5, <1>6, <1>7, <1>8, <1>9, <1>10, <1>11, <1>12
        DEF Next, Ingest, Push

IngestorInv ==
    ClockTypes /\ ThreadsInRange /\ TickTypes /\ TableTypes /\ PushesBounded

\* The invariant of threads, clock and table.
LEMMA IngestorInvariant == Spec => []IngestorInv
<1>1. Init => IngestorInv
      BY TypesInit DEF IngestorInv
<1>2. IngestorInv /\ [Next]_vars => IngestorInv'
      BY ClockStep, ThreadsStep, TicksStep, TableStep, PushesStep DEF IngestorInv
<1> QED BY <1>1, <1>2, PTL DEF Spec

\* The state has its types, for any number of connection threads that share
\* the ingestor without a lock: containers stay within their points, a push
\* stays within its containers and the table, and pushes within their bound.
THEOREM IngestorTypes == Spec => []TypeOK
<1>1. IngestorInv => TypeOK
  <2> SUFFICES ASSUME IngestorInv PROVE TypeOK
        OBVIOUS
  <2>1. IsFiniteSet(Pending) /\ Cardinality(Pending) \in Nat
        BY FS_CardinalityType, FS_Subset, UsageAssumption DEF Pending
  <2>2. Cardinality(Computers) \in Nat /\ MaxPushes \in Nat
        BY FS_CardinalityType, UsageAssumption
  <2>3. pushes \in 0..(MaxPushes + Cardinality(Computers))
        BY <2>1, <2>2 DEF IngestorInv, PushesBounded
  <2> QED BY <2>3 DEF IngestorInv, ClockTypes, ThreadsInRange, TickTypes, TableTypes,
                      TypeOK
<1> QED BY IngestorInvariant, <1>1, PTL

-----------------------------------------------------------------------------
(* Any number of threads *)

\* The threads that have found no row r and are about to insert it.
Inserting(r) == {c \in Computers : pc[c] = "insert" /\ Row(c) = r}

\* Where there is a row, of a day without failures, the date in localtime's buffer
\* is not before it, and the threads still to insert it are not among those that did.
RowsBounded ==
    \A r \in Dates \X Kinds :
        r[1] \notin failed /\ rows[r] # 0 =>
            /\ r[1] <= DateOf(tm)
            /\ rows[r] + Cardinality(Inserting(r)) <= Cardinality(Computers)

\* The number of threads about to insert a row.
LEMMA InsertingFinite ==
    \A r : /\ IsFiniteSet(Inserting(r)) /\ Cardinality(Inserting(r)) \in Nat
          /\ Cardinality(Inserting(r)) <= Cardinality(Computers)
          /\ Cardinality(Computers) \in Nat
<1>1. \A r : Inserting(r) \subseteq Computers
      BY DEF Inserting
<1> QED BY <1>1, FS_Subset, FS_CardinalityType, UsageAssumption

\* Fewer threads about to insert, and no row more, leave the bound.
LEMMA FewerInsert ==
    ASSUME IngestorInv, RowsBounded, NEW r \in Dates \X Kinds,
           r[1] \notin failed, rows[r] # 0,
           NEW S, S \subseteq Inserting(r)
    PROVE  rows[r] + Cardinality(S) <= Cardinality(Computers)
<1>1. /\ Cardinality(S) <= Cardinality(Inserting(r)) /\ Cardinality(S) \in Nat
      /\ Cardinality(Inserting(r)) \in Nat /\ Cardinality(Computers) \in Nat
      BY InsertingFinite, FS_Subset, FS_CardinalityType
<1>2. rows[r] \in Nat
      BY DEF IngestorInv, TableTypes
<1>3. rows[r] + Cardinality(Inserting(r)) <= Cardinality(Computers)
      BY DEF RowsBounded
<1> QED BY <1>1, <1>2, <1>3

\* A COUNT that finds no row comes before there is one, and once there is the date
\* never goes back: no step lets a thread insert a row of an earlier day again.
LEMMA RowsBoundedStep == IngestorInv /\ RowsBounded /\ [Next]_vars => RowsBounded'
<1> SUFFICES ASSUME IngestorInv, RowsBounded, [Next]_vars PROVE RowsBounded'
      OBVIOUS
<1>a. DOMAIN pc = Computers /\ DOMAIN i = Computers /\ rows \in [Dates \X Kinds -> Nat]
      BY DEF IngestorInv, ThreadsInRange, TableTypes
<1>b. \A c \in Computers : Pushing(c) => Row(c) \in Dates \X Kinds
      BY RowInTable DEF IngestorInv
<1>c. \A r \in Dates \X Kinds : r[1] \notin failed /\ rows[r] # 0 => r[1] <= DateOf(tm)
      BY DEF RowsBounded
<1>d. ASSUME UNCHANGED rows, failed \subseteq failed', UNCHANGED tm,
             \A r \in Dates \X Kinds : r[1] \notin failed' /\ rows[r] # 0 =>
                Inserting(r)' \subseteq Inserting(r)
      PROVE  RowsBounded'
  <2>1. ASSUME NEW r \in Dates \X Kinds, r[1] \notin failed', rows'[r] # 0
        PROVE  /\ r[1] <= DateOf(tm)'
               /\ rows'[r] + Cardinality(Inserting(r)') <= Cardinality(Computers)
    <3>1. r[1] \notin failed /\ rows[r] # 0 /\ Inserting(r)' \subseteq Inserting(r)
          BY <1>d, <2>1
    <3>2. DateOf(tm)' = DateOf(tm)
          BY <1>d DEF DateOf
    <3> QED BY <1>c, <1>d, <3>1, <3>2, FewerInsert
  <2> QED BY <2>1 DEF RowsBounded
<1>e. ASSUME NEW c \in Computers, pc'[c] # "insert",
             \A d \in Computers \ {c} : /\ pc'[d] = pc[d] /\ usage_info_'[d] = usage_info_[d]
                                        /\ i'[d] = i[d],
             UNCHANGED rows, failed \subseteq failed', UNCHANGED tm
      PROVE  RowsBounded'
  <2>1. \A d \in Computers \ {c} : Row(d)' = Row(d)
        BY <1>e DEF Row, DateOf
  <2>2. \A r : Inserting(r)' \subseteq Inserting(r)
        BY <1>e, <2>1 DEF Inserting
  <2> QED BY <1>d, <1>e, <2>2
<1>f. ASSUME NEW c \in Computers, pc'[c] # "insert",
             \A d \in Computers \ {c} : /\ pc'[d] = pc[d] /\ usage_info_'[d] = usage_info_[d]
                                        /\ i'[d] = i[d],
             UNCHANGED <<rows, failed>>, tm' = now
      PROVE  RowsBounded'
  <2>1. ASSUME NEW r \in Dates \X Kinds, r[1] \notin failed, rows[r] # 0
        PROVE  /\ r[1] <= DateOf(tm)'
               /\ rows[r] + Cardinality(Inserting(r)') <= Cardinality(Computers)
    <3>1. /\ DateOf(tm)' = DateOf(now) /\ DateOf(tm) \in Int /\ DateOf(now) \in Int
          /\ DateOf(tm) <= DateOf(now) /\ r[1] <= DateOf(tm) /\ r[1] \in Int
      <4>1. DateOf(tm)' = DateOf(now)
            BY <1>f DEF DateOf
      <4>2. tm \in Nat /\ now \in Nat /\ tm <= now
            BY UsageAssumption DEF IngestorInv, ClockTypes
      <4>3. DateOf(tm) \in 0..DateOf(now) /\ DateOf(now) \in 0..DateOf(now)
            BY <4>2, DateGrows
      <4>4. r[1] \in Int
        <5>1. DateOf(MaxTime) \in Int
              BY DateGrows, UsageAssumption
        <5> QED BY <5>1 DEF Dates
      <4> QED BY <1>c, <2>1, <4>1, <4>3, <4>4
    <3>2. CASE r[1] = DateOf(now)
      <4>1. DateOf(tm)' = DateOf(tm)
            BY <3>1, <3>2
      <4>2. \A d \in Computers \ {c} : Row(d)' = Row(d)
            BY <1>f, <4>1 DEF Row
      <4>3. Inserting(r)' \subseteq Inserting(r)
            BY <1>f, <4>2 DEF Inserting
      <4> QED BY <2>1, <3>1, <4>3, FewerInsert
    <3>3. CASE r[1] # DateOf(now)
      <4>1. \A d \in Computers : Row(d)'[1] = DateOf(now)
            BY <3>1 DEF Row
      <4>2. Inserting(r)' = {}
            BY <3>3, <4>1 DEF Inserting
      <4>3. Inserting(r)' \subseteq Inserting(r)
            BY <4>2
      <4> QED BY <2>1, <3>1, <4>3, FewerInsert
    <3> QED BY <3>2, <3>3
  <2> QED BY <1>f, <2>1 DEF RowsBounded
<1>1. ASSUME NEW c \in Computers, NEW ok \in BOOLEAN, PushCount(c, ok) PROVE RowsBounded'
  <2>1. /\ UNCHANGED <<rows, tm, usage_info_, i>> /\ failed \subseteq failed'
        /\ ok \/ DateOf(tm) \in failed'
        BY <1>1 DEF PushCount, Statement, serverVars, threadVars
  <2>2. pc' = [pc EXCEPT ![c] = IF ok /\ rows[Row(c)] # 0 THEN "update" ELSE "insert"]
        BY <1>1 DEF PushCount, Goto
  <2>3. \A d \in Computers : Row(d)' = Row(d)
        BY <2>1 DEF Row, DateOf
  <2>4. ASSUME NEW r \in Dates \X Kinds, r[1] \notin failed', rows[r] # 0
        PROVE  Inserting(r)' \subseteq Inserting(r)
    <3>1. Row(c)[1] = DateOf(tm)
          BY DEF Row
    <3>2. Row(c) = r => pc'[c] = "update"
          BY <1>a, <2>1, <2>2, <2>4, <3>1
    <3>3. \A d \in Computers : d # c => pc'[d] = pc[d]
          BY <1>a, <2>2
    <3> QED BY <2>3, <3>2, <3>3 DEF Inserting
  <2> QED BY <1>d, <2>1, <2>4
<1>2. ASSUME NEW c \in Computers, NEW ok \in BOOLEAN, PushInsert(c, ok) PROVE RowsBounded'
  <2>1. /\ UNCHANGED <<tm, usage_info_, i>> /\ failed \subseteq failed'
        /\ pc[c] = "insert" /\ pc' = [pc EXCEPT ![c] = "update"]
        BY <1>2 DEF PushInsert, Statement, Goto, serverVars, threadVars
  <2>2. CASE ~ok
    <3>1. UNCHANGED rows
          BY <1>2, <2>2 DEF PushInsert
    <3> QED BY <1>a, <1>e, <2>1, <3>1
  <2>3. CASE ok
    <3>1. rows' = [rows EXCEPT ![Row(c)] = @ + 1] /\ UNCHANGED failed
          BY <1>2, <2>3 DEF PushInsert, Statement
    <3>2. \A d \in Computers : Row(d)' = Row(d)
          BY <2>1 DEF Row, DateOf
    <3>3. Row(c) \in Dates \X Kinds
          BY <1>b, <2>1 DEF Pushing, PushStates
    <3>4. \A r : Inserting(r)' = Inserting(r) \ {c}
          BY <1>a, <2>1, <3>2 DEF Inserting
    <3>5. ASSUME NEW r \in Dates \X Kinds, r[1] \notin failed, rows'[r] # 0
          PROVE  /\ r[1] <= DateOf(tm)
                 /\ rows'[r] + Cardinality(Inserting(r) \ {c}) <= Cardinality(Computers)
      <4>1. CASE r = Row(c)
        <5>1. c \in Inserting(r)
              BY <2>1, <4>1 DEF Inserting
        <5>2. Cardinality(Inserting(r) \ {c}) = Cardinality(Inserting(r)) - 1
              BY <5>1, InsertingFinite, FS_RemoveElement
        <5>3. rows'[r] = rows[r] + 1 /\ rows[r] \in Nat
              BY <1>a, <3>1, <4>1
        <5>4. rows[r] + Cardinality(Inserting(r)) <= Cardinality(Computers)
              BY <3>5, <5>3, InsertingFinite DEF RowsBounded
        <5>5. r[1] = DateOf(tm) /\ DateOf(tm) \in Int
          <6>1. tm \in Nat
                BY UsageAssumption DEF IngestorInv, ClockTypes
          <6> QED BY <4>1, <6>1, DateGrows DEF Row
        <5> QED BY <5>2, <5>3, <5>4, <5>5, InsertingFinite
      <4>2. CASE r # Row(c)
        <5>1. rows'[r] = rows[r]
              BY <1>a, <3>1, <4>2
        <5> QED BY <1>c, <3>5, <5>1, FewerInsert
      <4> QED BY <4>1, <4>2
    <3>6. DateOf(tm)' = DateOf(tm)
          BY <2>1 DEF DateOf
    <3> QED BY <3>1, <3>4, <3>5, <3>6 DEF RowsBounded
  <2> QED BY <2>2, <2>3
<1>3. ASSUME NEW c \in Computers, NEW ok \in BOOLEAN, PushUpdate(c, ok) PROVE RowsBounded'
  <2>1. /\ UNCHANGED <<rows, tm, usage_info_>> /\ failed \subseteq failed'
        /\ \A d \in Computers \ {c} : i'[d] = i[d] /\ pc'[d] = pc[d]
        BY <1>3 DEF PushUpdate, Statement, serverVars, Goto
  <2>2. pc'[c] # "insert"
        BY <1>a, <1>3 DEF PushUpdate, Goto, Entry
  <2> QED BY <1>e, <2>1, <2>2
<1>4. ASSUME NEW c \in Computers, LocalTime(c) \/ PushDate(c) PROVE RowsBounded'
  <2>1. /\ UNCHANGED <<rows, failed, usage_info_>> /\ tm' = now
        /\ \A d \in Computers \ {c} : i'[d] = i[d] /\ pc'[d] = pc[d]
        BY <1>a, <1>4 DEF LocalTime, PushDate, tableVars, threadVars, Goto
  <2>2. pc'[c] # "insert"
        BY <1>a, <1>4 DEF LocalTime, PushDate, Goto, Entry
  <2> QED BY <1>f, <2>1, <2>2
<1>5. ASSUME NEW c \in Computers, NEW req \in Requests, IngestPoints(c, req)
      PROVE  RowsBounded'
  <2>1. /\ UNCHANGED <<rows, failed, tm, i>>
        /\ \A d \in Computers \ {c} : usage_info_'[d] = usage_info_[d] /\ pc'[d] = pc[d]
        BY <1>5 DEF IngestPoints, tableVars, threadVars, serverVars, Goto
  <2>2. pc'[c] # "insert"
        BY <1>a, <1>5 DEF IngestPoints, Goto
  <2> QED BY <1>e, <2>1, <2>2
<1>6. ASSUME NEW c \in Computers,
             \/ Check(c) \/ CheckFirst(c) \/ LoadHour(c) \/ StoreHour(c) \/ PushBegin(c)
             \/ CompareTick(c) \/ LoadTick(c) \/ StoreTick(c) \/ LoadNext(c) \/ StoreNext(c)
      PROVE  RowsBounded'
  <2>1. /\ UNCHANGED <<rows, failed, tm, usage_info_, i>>
        /\ \A d \in Computers \ {c} : pc'[d] = pc[d]
        BY <1>a, <1>6 DEF Check, CheckFirst, LoadHour, StoreHour, PushBegin, CompareTick,
                          LoadTick, StoreTick, LoadNext, StoreNext, tableVars, threadVars,
                          serverVars, Goto
  <2>2. pc'[c] # "insert"
        BY <1>a, <1>6 DEF Check, CheckFirst, LoadHour, StoreHour, PushBegin, CompareTick,
                          LoadTick, StoreTick, LoadNext, StoreNext, Goto
  <2> QED BY <1>e, <2>1, <2>2
<1>7. CASE Advance \/ UNCHANGED vars
  <2>1. UNCHANGED <<rows, failed, tm, usage_info_, i, pc>>
        BY <1>7 DEF Advance, vars, tableVars, threadVars, serverVars
  <2>2. \A d : Row(d)' = Row(d)
        BY <2>1 DEF Row, DateOf
  <2>3. \A r : Inserting(r)' \subseteq Inserting(r)
        BY <2>1, <2>2 DEF Inserting
  <2> QED BY <1>d, <2>1, <2>3
<1>8. CASE Restart
  <2>1. UNCHANGED <<rows, failed, tm>> /\ pc' = Each("idle")
        BY <1>8 DEF Restart, tableVars
  <2>2. \A r : Inserting(r)' \subseteq Inserting(r)
        BY <2>1 DEF Inserting, Each
  <2> QED BY <1>d, <2>1, <2>2
<1> HIDE DEF RowsBounded
<1> QED BY <1>1, <1>2, <1>3, <1>4, <1>5, <1>6, <1>7, <1>8 DEF Next, Ingest, Push

\* For any number of connection threads that ask and insert without a lock, a date
\* and kind gets no more rows than there are connected computers, over restarts
\* and midnight, unless a statement of that day failed.
THEOREM RowsAtMostComputers == Spec => []RowsPerComputer
<1>1. Init => RowsBounded
      BY DEF Init, RowsBounded
<1>2. IngestorInv /\ RowsBounded => RowsPerComputer
  <2> SUFFICES ASSUME IngestorInv, RowsBounded, NEW r \in Dates \X Kinds, r[1] \notin failed
               PROVE  rows[r] <= Cardinality(Computers)
        BY DEF RowsPerComputer
  <2>1. rows[r] \in Nat
        BY DEF IngestorInv, TableTypes
  <2> QED BY <2>1, InsertingFinite DEF RowsBounded
<1> QED BY <1>1, <1>2, RowsBoundedStep, IngestorInvariant, PTL DEF Spec

-----------------------------------------------------------------------------
(* One connected computer *)

\* On a day without failures the table has no row of what is about to be inserted
\* and one of what is about to be updated.
RowsUnique ==
    /\ \A r \in Dates \X Kinds : r[1] \notin failed => rows[r] <= 1
    /\ DateOf(tm) \notin failed =>
          \A c \in Computers : /\ pc[c] = "insert" => rows[Row(c)] = 0
                               /\ pc[c] = "update" => rows[Row(c)] = 1
    /\ UpdateMeetsOneRow

\* The tick and the deadline that belong to the n-th push.
TickOf(n) == (first + n) % 24
DeadlineOf(n) == boot + FirstPush + n * Hour

\* Where the tick and the deadline are at every point of the handler.
InStep ==
    \A c \in Computers :
        /\ pc[c] \in {"idle", "check", "first"} =>
              /\ tick_ = IF pushes = 0 THEN -1 ELSE TickOf(pushes)
              /\ next_usage_push_ = DeadlineOf(pushes)
        /\ pc[c] \in {"hour", "loadHour", "storeHour"} =>
              pushes = 0 /\ next_usage_push_ = DeadlineOf(0)
        /\ pc[c] = "push" => /\ tick_ = TickOf(pushes)
                             /\ next_usage_push_ = DeadlineOf(pushes)
        /\ pc[c] \in {"date"} \cup PushStates \cup
                    {"tick", "addTick", "storeTick", "next", "storeNext"} => pushes > 0
        /\ pc[c] \in {"date"} \cup PushStates \cup {"tick", "addTick"} =>
              tick_ = TickOf(pushes - 1)
        /\ pc[c] \in {"date"} \cup PushStates => tick[c] = TickOf(pushes - 1)
        /\ pc[c] = "addTick" => tick_ # 23
        /\ pc[c] \in {"date"} \cup PushStates \cup
                    {"tick", "addTick", "storeTick", "next"} =>
              next_usage_push_ = DeadlineOf(pushes - 1)
        /\ pc[c] = "storeTick" => reg[c] = TickOf(pushes)
        /\ pc[c] \in {"next", "storeNext"} => tick_ = TickOf(pushes)
        /\ pc[c] = "storeNext" => reg[c] = DeadlineOf(pushes)

\* Only one computer is connected: one thread uses the ingestor.
OneComputer == \E c : Computers = {c}

\* COUNT, INSERT and UPDATE see the same row of the table, with the date of the
\* push's own localtime(), when no other thread is in between.
LEMMA RowsStep ==
    ASSUME OneComputer
    PROVE  IngestorInv /\ RowsUnique /\ [Next]_vars => RowsUnique'
<1> SUFFICES ASSUME IngestorInv, RowsUnique, [Next]_vars PROVE RowsUnique'
      OBVIOUS
<1>a. /\ rows \in [Dates \X Kinds -> Nat]
      /\ \A r \in Dates \X Kinds : r[1] \notin failed => rows[r] <= 1
      /\ \A c \in Computers : DateOf(tm) \notin failed =>
            /\ pc[c] = "insert" => rows[Row(c)] = 0
            /\ pc[c] = "update" => rows[Row(c)] = 1
      /\ wrote.date \notin failed => wrote.met = 1
      BY DEF RowsUnique, UpdateMeetsOneRow, IngestorInv, TableTypes
<1>b. DOMAIN pc = Computers
      BY DEF IngestorInv, ThreadsInRange
<1>c. \A c \in Computers : Pushing(c) => Row(c) \in Dates \X Kinds
      BY RowInTable DEF IngestorInv
<1>d. \A c \in Computers : Row(c)[1] = DateOf(tm)
      BY DEF Row
<1>e. ASSUME NEW c \in Computers, pc'[c] \notin {"insert", "update"},
             UNCHANGED rows, failed \subseteq failed',
             wrote'.date \notin failed' => wrote'.met = 1
      PROVE  RowsUnique'
      BY <1>a, <1>e DEF OneComputer, RowsUnique, UpdateMeetsOneRow
<1>1. ASSUME NEW c \in Computers, NEW ok \in BOOLEAN, PushCount(c, ok) PROVE RowsUnique'
  <2>1. Row(c) \in Dates \X Kinds
        BY <1>1, <1>c DEF PushCount, Pushing, PushStates
  <2>2. DateOf(tm) \notin failed => rows[Row(c)] = 0 \/ rows[Row(c)] = 1
        BY <1>a, <1>d, <2>1
  <2>3. pc' = [pc EXCEPT ![c] = IF ok /\ rows[Row(c)] # 0 THEN "update" ELSE "insert"]
        BY <1>1 DEF PushCount, Goto
  <2>4. /\ UNCHANGED <<rows, wrote>> /\ Row(c)' = Row(c) /\ DateOf(tm)' = DateOf(tm)
        BY <1>1 DEF PushCount, Row, DateOf, serverVars, threadVars
  <2>5. failed \subseteq failed' /\ (ok \/ DateOf(tm) \in failed')
        BY <1>1 DEF PushCount, Statement
  <2>6. \A d \in Computers : d = c
        BY DEF OneComputer
  <2>7. ASSUME DateOf(tm) \notin failed'
        PROVE  /\ pc'[c] = "insert" => rows[Row(c)] = 0
               /\ pc'[c] = "update" => rows[Row(c)] = 1
        BY <1>b, <2>2, <2>3, <2>5, <2>7
  <2>8. UpdateMeetsOneRow'
        BY <1>a, <2>4, <2>5 DEF UpdateMeetsOneRow
  <2> QED BY <1>a, <2>4, <2>5, <2>6, <2>7, <2>8 DEF RowsUnique
<1>2. ASSUME NEW c \in Computers, NEW ok \in BOOLEAN, PushInsert(c, ok) PROVE RowsUnique'
  <2>1. Row(c) \in Dates \X Kinds /\ (DateOf(tm) \notin failed => rows[Row(c)] = 0)
        BY <1>a, <1>2, <1>c DEF PushInsert, Pushing, PushStates
  <2>2. /\ rows' = (IF ok THEN [rows EXCEPT ![Row(c)] = @ + 1] ELSE rows)
        /\ UNCHANGED wrote /\ DateOf(tm)' = DateOf(tm)
        /\ pc' = [pc EXCEPT ![c] = "update"] /\ Row(c)' = Row(c)
        BY <1>2 DEF PushInsert, Goto, Row, DateOf, serverVars, threadVars
  <2>3. failed \subseteq failed' /\ (ok \/ DateOf(tm) \in failed')
        BY <1>2 DEF PushInsert, Statement
  <2>4. \A d \in Computers : d = c
        BY DEF OneComputer
  <2>5. ASSUME NEW r \in Dates \X Kinds, r[1] \notin failed'
        PROVE  rows'[r] <= 1 /\ (r = Row(c) => rows'[r] = 1)
        BY <1>a, <1>d, <2>1, <2>2, <2>3, <2>5
  <2>6. UpdateMeetsOneRow'
        BY <1>a, <2>2, <2>3 DEF UpdateMeetsOneRow
  <2> QED BY <1>b, <1>d, <2>1, <2>2, <2>4, <2>5, <2>6 DEF RowsUnique
<1>3. ASSUME NEW c \in Computers, NEW ok \in BOOLEAN, PushUpdate(c, ok) PROVE RowsUnique'
  <2>1. failed \subseteq failed' /\ UNCHANGED rows
        BY <1>3 DEF PushUpdate, Statement
  <2>2. wrote'.date \notin failed' => wrote'.met = 1
        BY <1>a, <1>3, <2>1 DEF PushUpdate
  <2>3. pc'[c] \notin {"insert", "update"}
        BY <1>b, <1>3 DEF PushUpdate, Goto, Entry
  <2> QED BY <1>e, <2>1, <2>2, <2>3
<1>4. ASSUME NEW c \in Computers,
             \/ \E req \in Requests : IngestPoints(c, req)
             \/ Check(c) \/ CheckFirst(c) \/ LocalTime(c) \/ LoadHour(c) \/ StoreHour(c)
             \/ PushBegin(c) \/ PushDate(c) \/ CompareTick(c) \/ LoadTick(c)
             \/ StoreTick(c) \/ LoadNext(c) \/ StoreNext(c)
      PROVE  RowsUnique'
  <2>1. UNCHANGED <<rows, wrote, failed>>
        BY <1>4 DEF IngestPoints, Check, CheckFirst, LocalTime, LoadHour, StoreHour, PushBegin,
                    PushDate, CompareTick, LoadTick, StoreTick, LoadNext, StoreNext, tableVars
  <2>2. pc'[c] \notin {"insert", "update"}
        BY <1>b, <1>4 DEF IngestPoints, Check, CheckFirst, LocalTime, LoadHour, StoreHour,
                          PushBegin, PushDate, CompareTick, LoadTick, StoreTick, LoadNext,
                          StoreNext, Goto, Entry
  <2> QED BY <1>a, <1>e, <2>1, <2>2
<1>5. CASE Advance \/ UNCHANGED vars
  <2>1. UNCHANGED <<tm, usage_info_, i, pc, rows, wrote, failed>>
        BY <1>5 DEF Advance, vars, serverVars, threadVars, tableVars
  <2> QED BY <1>a, <2>1 DEF Row, DateOf, RowsUnique, UpdateMeetsOneRow
<1>6. CASE Restart
      BY <1>a, <1>6 DEF Restart, Each, RowsUnique, UpdateMeetsOneRow, tableVars
<1> QED BY <1>1, <1>2, <1>3, <1>4, <1>5, <1>6 DEF Next, Ingest, Push

\* With one connected computer every UPDATE of usage_table meets exactly one
\* row, over midnight and over restarts that cut a push short, on every day on
\* which no statement failed.
THEOREM OneRowPerUpdate ==
    ASSUME OneComputer
    PROVE  Spec => []UpdateMeetsOneRow
<1>1. Init => RowsUnique
      BY DEF Init, Each, RowsUnique, UpdateMeetsOneRow
<1>2. IngestorInv /\ RowsUnique /\ [Next]_vars => RowsUnique'
      BY RowsStep
<1>3. RowsUnique => UpdateMeetsOneRow
      BY DEF RowsUnique
<1> QED BY <1>1, <1>2, <1>3, IngestorInvariant, PTL DEF Spec

\* The tick goes round the day, the deadline an hour further.
LEMMA TicksGoRound ==
    ASSUME TickTypes
    PROVE  /\ TickOf(0) = first
           /\ \A n \in Nat : TickOf(n) \in 0..23
           /\ \A n \in Nat : n > 0 =>
                 TickOf(n) = IF TickOf(n - 1) = 23 THEN 0 ELSE TickOf(n - 1) + 1
<1>1. first \in 0..23
      BY DEF TickTypes
<1>2. \A x \in Nat : /\ x % 24 \in 0..23
                     /\ x < 24 => x % 24 = x
                     /\ (x + 1) % 24 = IF x % 24 = 23 THEN 0 ELSE (x % 24) + 1
      OBVIOUS
<1>3. ASSUME NEW n \in Nat, n > 0
      PROVE  TickOf(n) = IF TickOf(n - 1) = 23 THEN 0 ELSE TickOf(n - 1) + 1
  <2>1. first + (n - 1) \in Nat /\ (first + (n - 1)) + 1 = first + n
        BY <1>1, <1>3
  <2> QED BY <1>2, <2>1 DEF TickOf
<1> QED BY <1>1, <1>2, <1>3 DEF TickOf

\* A deadline and an hour make the next deadline.
LEMMA DeadlinesFollow ==
    ASSUME ClockTypes
    PROVE  /\ DeadlineOf(0) = boot + FirstPush
           /\ \A n \in Nat : n > 0 => DeadlineOf(n - 1) + Hour = DeadlineOf(n)
<1>1. boot \in Nat /\ FirstPush \in Nat /\ Hour \in Nat
      BY UsageAssumption DEF ClockTypes
<1>2. ASSUME NEW n \in Nat, n > 0 PROVE (n - 1) * Hour + Hour = n * Hour
      BY <1>1, <1>2
<1> QED BY <1>1, <1>2 DEF DeadlineOf

\* Nothing is pushed, and the first deadline is set.
LEMMA InStepInit == Init => InStep
<1> SUFFICES ASSUME Init PROVE InStep
      OBVIOUS
<1>1. next_usage_push_ = DeadlineOf(0)
      BY UsageAssumption DEF Init, DeadlineOf
<1> QED BY <1>1 DEF Init, Each, InStep, PushStates

\* The handler moves the tick and the deadline on once for the push it began,
\* when no other thread has loaded either.
LEMMA InStepKept ==
    ASSUME OneComputer
    PROVE  IngestorInv /\ InStep /\ [Next]_vars => InStep'
<1> SUFFICES ASSUME IngestorInv, InStep, [Next]_vars PROVE InStep'
      OBVIOUS
<1>a. /\ TickOf(0) = first
      /\ \A n \in Nat : TickOf(n) \in 0..23
      /\ \A n \in Nat : n > 0 =>
            TickOf(n) = IF TickOf(n - 1) = 23 THEN 0 ELSE TickOf(n - 1) + 1
      BY TicksGoRound DEF IngestorInv
<1>b. \A n \in Nat : n > 0 => DeadlineOf(n - 1) + Hour = DeadlineOf(n)
      BY DeadlinesFollow DEF IngestorInv
<1>c. pushes \in Nat /\ DOMAIN pc = Computers /\ DOMAIN reg = Computers
      BY DEF IngestorInv, PushesBounded, ThreadsInRange
<1>d. \A c, d \in Computers : c = d
      BY DEF OneComputer
<1>e. UNCHANGED <<first, boot>> =>
         \A n : TickOf(n)' = TickOf(n) /\ DeadlineOf(n)' = DeadlineOf(n)
      BY DEF TickOf, DeadlineOf
<1> USE <1>c, <1>d
    DEF InStep, PushStates, Goto, clockVars, serverVars, threadVars, countVars
<1>1. ASSUME NEW c \in Computers, NEW req \in Requests, IngestPoints(c, req)
      PROVE  InStep'
      BY <1>e, <1>1 DEF IngestPoints
<1>2. ASSUME NEW c \in Computers, Check(c) PROVE InStep'
      BY <1>e, <1>2 DEF Check
<1>3. ASSUME NEW c \in Computers, CheckFirst(c) PROVE InStep'
      BY <1>a, <1>e, <1>3 DEF CheckFirst
<1>4. ASSUME NEW c \in Computers, LocalTime(c) \/ LoadHour(c) PROVE InStep'
      BY <1>e, <1>4 DEF LocalTime, LoadHour
<1>5. ASSUME NEW c \in Computers, StoreHour(c) PROVE InStep'
  <2>1. tick_' = first' /\ pushes = 0 /\ pushes' = 0
        BY <1>5 DEF StoreHour
  <2>2. TickOf(0)' = first'
    <3>1. first' \in 0..23
          BY <1>5 DEF StoreHour, IngestorInv, ThreadsInRange
    <3>2. \A x \in 0..23 : (x + 0) % 24 = x
          OBVIOUS
    <3> QED BY <3>1, <3>2 DEF TickOf
  <2>3. next_usage_push_' = DeadlineOf(0)'
        BY <1>5 DEF StoreHour, DeadlineOf
  <2>4. pc' = [pc EXCEPT ![c] = "push"]
        BY <1>5 DEF StoreHour
  <2> QED BY <2>1, <2>2, <2>3, <2>4
<1>6. ASSUME NEW c \in Computers, PushBegin(c) PROVE InStep'
      BY <1>e, <1>6 DEF PushBegin, IngestorInv, TickTypes
<1>7. ASSUME NEW c \in Computers, PushDate(c) PROVE InStep'
      BY <1>e, <1>7 DEF PushDate, Entry
<1>8. ASSUME NEW c \in Computers, NEW ok, PushCount(c, ok) \/ PushInsert(c, ok) PROVE InStep'
      BY <1>e, <1>8 DEF PushCount, PushInsert
<1>9. ASSUME NEW c \in Computers, NEW ok, PushUpdate(c, ok) PROVE InStep'
      BY <1>e, <1>9 DEF PushUpdate, Entry
<1>10. ASSUME NEW c \in Computers, CompareTick(c) \/ LoadTick(c) PROVE InStep'
      BY <1>a, <1>e, <1>10 DEF CompareTick, LoadTick
<1>11. ASSUME NEW c \in Computers, StoreTick(c) PROVE InStep'
      BY <1>e, <1>11 DEF StoreTick
<1>12. ASSUME NEW c \in Computers, LoadNext(c) PROVE InStep'
      BY <1>b, <1>e, <1>12 DEF LoadNext
<1>13. ASSUME NEW c \in Computers, StoreNext(c) PROVE InStep'
      BY <1>e, <1>13 DEF StoreNext
<1>14. CASE Advance \/ UNCHANGED vars
      BY <1>e, <1>14 DEF Advance, vars
<1>15. CASE Restart
  <2>1. now \in Nat /\ FirstPush \in Nat /\ Hour \in Nat
        BY UsageAssumption DEF IngestorInv, ClockTypes
  <2>2. next_usage_push_' = DeadlineOf(0)'
        BY <2>1, <1>15 DEF Restart, DeadlineOf
  <2> QED BY <1>15, <2>2 DEF Restart, Each
<1> HIDE DEF InStep
<1> QED BY <1>1, <1>2, <1>3, <1>4, <1>5, <1>6, <1>7, <1>8, <1>9, <1>10, <1>11,
           <1>12, <1>13, <1>14, <1>15
        DEF Next, Ingest, Push

\* With one connected computer the tick and the deadline have moved once for
\* every push whenever the handler is left: no tick of the day is skipped or
\* written twice, over any number of days.
THEOREM TicksInStep ==
    ASSUME OneComputer
    PROVE  Spec => []TickFollowsPushes
<1>1. Init => InStep
      BY InStepInit
<1>2. IngestorInv /\ InStep /\ [Next]_vars => InStep'
      BY InStepKept
<1>3. InStep => TickFollowsPushes
  <2>1. PICK c \in Computers : TRUE
        BY DEF OneComputer
  <2> QED BY <2>1 DEF InStep, TickFollowsPushes, TickOf, DeadlineOf
<1> QED BY <1>1, <1>2, <1>3, IngestorInvariant, PTL DEF Spec

\* With one connected computer the column tick<n> that a push names exists. With
\* two, one that saw 22 may add one to the 23 of the other (ui_race.cfg).
THEOREM OneComputerColumns ==
    ASSUME OneComputer
    PROVE  Spec => []ColumnExists
<1>1. Init => InStep
      BY InStepInit
<1>2. IngestorInv /\ InStep /\ [Next]_vars => InStep'
      BY InStepKept
<1>3. IngestorInv /\ InStep => ColumnExists
  <2> SUFFICES ASSUME IngestorInv, InStep, NEW c \in Computers, Pushing(c)
               PROVE  tick[c] \in Columns
        BY DEF ColumnExists
  <2>1. pushes \in Nat /\ pushes > 0 /\ tick[c] = TickOf(pushes - 1)
        BY DEF InStep, Pushing, IngestorInv, PushesBounded
  <2>2. TickOf(pushes - 1) \in 0..23
        BY <2>1, TicksGoRound DEF IngestorInv
  <2> QED BY <2>1, <2>2 DEF Columns
<1> QED BY <1>1, <1>2, <1>3, IngestorInvariant, PTL DEF Spec
=============================================================================
