---------------------------- MODULE UsageIngestor ----------------------------
(***************************************************************************)
(* The hourly usage of the computers (server/src/ingestor/                 *)
(* request_db_ingestor.cpp, UsageContainer in rms_computer.h and           *)
(* RmsComputer::pushUsageToDB): one ingestor, called by the thread of every*)
(* connected computer without a lock, keeps the tick of the day and the    *)
(* time of the next push; the thread that finds the time has come writes   *)
(* the usage of its own computer into usage_table.                         *)
(*                                                                         *)
(* A step reads or writes shared memory once, or runs one SQL statement,   *)
(* which takes its date from localtime's buffer. The ingestor's int and    *)
(* time point are read as often as the source names them. A usage is what  *)
(* it is of (cpu core, ram, swap) and how many points it holds; the value  *)
(* written is their average and is left out. A statement may fail.         *)
(***************************************************************************)
EXTENDS Integers, Sequences, FiniteSets

CONSTANTS Computers,        \* connected computers, one thread each
          Kinds,            \* usage types with their identifier
          Requests,         \* sequences of kinds a request has points for
          MaxDataPoints,    \* RMS_MAX_CONTAINER_DATA_POINTS
          Hour, FirstPush,  \* clock units of an hour and of the first delay
          StartTime,        \* wall clock at boot, in units since midnight
          MaxTime,          \* bound: last instant of the clock
          MaxPushes,        \* bound: pushes after which no thread begins another
          MaxRestarts,      \* bound: restarts of the server
          MaxFailures       \* bound: days on which a statement fails

ASSUME UsageAssumption ==
    /\ IsFiniteSet(Computers)
    /\ Requests \subseteq Seq(Kinds)
    /\ {Hour, MaxDataPoints} \subseteq Nat \ {0}
    /\ {FirstPush, StartTime, MaxTime, MaxPushes, MaxRestarts,
        MaxFailures} \subseteq Nat
    /\ StartTime <= MaxTime

HourOf(t) == (t \div Hour) % 24
DateOf(t) == t \div (24 * Hour)
Dates == 0..DateOf(MaxTime)

\* tick0 to tick23 of usage_table.
Columns == 0..23

VARIABLES now,               \* the clock
          boot,              \* when the server started
          tick_,             \* DbRequestIngestor::tick_
          next_usage_push_,  \* DbRequestIngestor::next_usage_push_
          tm,                \* std::localtime's static buffer: time of the last call
          usage_info_,       \* per computer: its containers
          pc,                \* per thread: where it is in ingestRequestData()
          tick,              \* per thread: the argument of pushUsageToDB()
          i,                 \* per thread: the container being pushed
          reg,               \* per thread: a value loaded and not yet stored
          rows,              \* usage_table: rows per date and kind
          wrote,             \* the last UPDATE that ran: date, column, when, rows it met
          failed,            \* history: days on which a statement failed
          first, pushes,     \* history: the hour ticks started at, pushes since boot
          restarts

serverVars == <<tick_, next_usage_push_, tm>>
threadVars == <<tick, i, reg>>
clockVars == <<now, boot>>
tableVars == <<rows, wrote, failed>>
countVars == <<first, pushes, restarts>>
vars == <<now, boot, tick_, next_usage_push_, tm, usage_info_, pc, tick, i, reg,
          rows, wrote, failed, first, pushes, restarts>>

Container == [kind : Kinds, size : 1..(MaxDataPoints + 1)]
PushStates == {"count", "insert", "update"}

TypeOK ==
    /\ now \in StartTime..MaxTime
    /\ boot \in StartTime..now
    /\ tick_ \in Nat \cup {-1}
    /\ next_usage_push_ \in Nat
    /\ tm \in 0..now
    /\ usage_info_ \in [Computers -> Seq(Container)]
    /\ pc \in [Computers -> {"idle", "check", "first", "hour", "loadHour", "storeHour",
                             "push", "date", "tick", "addTick", "storeTick",
                             "next", "storeNext"} \cup PushStates]
    /\ tick \in [Computers -> Nat \cup {-1}]
    /\ i \in [Computers -> Nat]
    /\ reg \in [Computers -> Int]
    /\ rows \in [Dates \X Kinds -> Nat]
    /\ wrote \in [date : Dates, tick : Columns, at : 0..now, met : Nat]
    /\ failed \subseteq Dates /\ Cardinality(failed) <= MaxFailures
    /\ first \in 0..23
    /\ pushes \in 0..(MaxPushes + Cardinality(Computers))
    /\ restarts \in 0..MaxRestarts

Each(v) == [c \in Computers |-> v]

Init ==
    /\ now = StartTime
    /\ boot = StartTime
    /\ tick_ = -1
    /\ next_usage_push_ = StartTime + FirstPush
    /\ usage_info_ = Each(<<>>)
    /\ pc = Each("idle") /\ tick = Each(-1) /\ i = Each(0) /\ reg = Each(0)
    /\ first = 0 /\ pushes = 0
    /\ tm = StartTime
    /\ rows = [r \in Dates \X Kinds |-> 0]
    /\ wrote = [date |-> DateOf(StartTime), tick |-> HourOf(StartTime),
                at |-> StartTime, met |-> 1]
    /\ failed = {}
    /\ restarts = 0

Goto(c, l) == pc' = [pc EXCEPT ![c] = l]

-----------------------------------------------------------------------------
(* Usage containers *)

\* Variant: no point is ever dropped.
addPointKeeps(size) == size + 1

\* UsageContainer::addPoint(): the oldest point goes when there are too many.
addPoint(size) == IF size > MaxDataPoints THEN size ELSE size + 1

\* RmsComputer::addUsageInfo(), under usage_mutex_.
addUsageInfo(info, kind) ==
    IF \E k \in DOMAIN info : info[k].kind = kind
    THEN [k \in DOMAIN info |-> IF info[k].kind = kind
                                THEN [info[k] EXCEPT !.size = addPoint(@)]
                                ELSE info[k]]
    ELSE Append(info, [kind |-> kind, size |-> 1])

-----------------------------------------------------------------------------
(* The ingestor *)

\* ingestRequestData(): first the points of the request, one after the other.
addPoints(info, req) ==
    LET added[n \in 0..Len(req)] ==
            IF n = 0 THEN info ELSE addUsageInfo(added[n - 1], req[n])
    IN  added[Len(req)]

IngestPoints(c, req) ==
    /\ pc[c] = "idle"
    /\ usage_info_' = [usage_info_ EXCEPT ![c] = addPoints(@, req)]
    /\ Goto(c, "check")
    /\ UNCHANGED <<clockVars, serverVars, threadVars, tableVars, countVars>>

\* Variant: the deadline is compared for equality.
CheckExact(c) ==
    /\ pc[c] = "check"
    /\ Goto(c, IF now = next_usage_push_ + 1 /\ pushes < MaxPushes THEN "first" ELSE "idle")
    /\ UNCHANGED <<clockVars, serverVars, usage_info_, threadVars, tableVars, countVars>>

\* Is it time to push?
Check(c) ==
    /\ pc[c] = "check"
    /\ Goto(c, IF now > next_usage_push_ /\ pushes < MaxPushes THEN "first" ELSE "idle")
    /\ UNCHANGED <<clockVars, serverVars, usage_info_, threadVars, tableVars, countVars>>

\* Is it the first push since boot?
CheckFirst(c) ==
    /\ pc[c] = "first"
    /\ Goto(c, IF tick_ = -1 THEN "hour" ELSE "push")
    /\ UNCHANGED <<clockVars, serverVars, usage_info_, threadVars, tableVars, countVars>>

\* The first push takes the hour of the day as its tick: localtime() fills its
\* buffer, tm_hour is read from it, and tick_ is set.
LocalTime(c) ==
    /\ pc[c] = "hour"
    /\ tm' = now
    /\ Goto(c, "loadHour")
    /\ UNCHANGED <<clockVars, tick_, next_usage_push_, usage_info_, threadVars, tableVars,
                   countVars>>

LoadHour(c) ==
    /\ pc[c] = "loadHour"
    /\ reg' = [reg EXCEPT ![c] = HourOf(tm)]
    /\ Goto(c, "storeHour")
    /\ UNCHANGED <<clockVars, serverVars, usage_info_, tick, i, tableVars, countVars>>

StoreHour(c) ==
    /\ pc[c] = "storeHour"
    /\ tick_' = reg[c]
    /\ first' = reg[c]
    /\ Goto(c, "push")
    /\ UNCHANGED <<clockVars, next_usage_push_, tm, usage_info_, threadVars, tableVars, pushes,
                   restarts>>

\* pushUsageToDB(tick_): the argument.
PushBegin(c) ==
    /\ pc[c] = "push"
    /\ tick' = [tick EXCEPT ![c] = tick_]
    /\ pushes' = pushes + 1
    /\ Goto(c, "date")
    /\ UNCHANGED <<clockVars, serverVars, usage_info_, i, reg, tableVars, first, restarts>>

\* Where a thread goes on with container k: past the last one the push is over.
Entry(c, k) == IF k > Len(usage_info_[c]) THEN "tick" ELSE "count"

\* The date is today's, in localtime's own buffer.
PushDate(c) ==
    /\ pc[c] = "date"
    /\ tm' = now
    /\ i' = [i EXCEPT ![c] = 1]
    /\ Goto(c, Entry(c, 1))
    /\ UNCHANGED <<clockVars, tick_, next_usage_push_, usage_info_, tick, reg, tableVars,
                   countVars>>

\* A statement about today's rows is run, or fails.
Statement(ok) ==
    IF ok THEN UNCHANGED failed
    ELSE /\ Cardinality(failed) < MaxFailures
         /\ failed' = failed \cup {DateOf(tm)}

Row(c) == <<DateOf(tm), usage_info_[c][i[c]].kind>>

\* Variants: table_exist counts, and is taken to hold after the first push; a
\* container that is new is taken to have no row.
PushCountOnce(c, ok) ==
    /\ pc[c] = "count"
    /\ Statement(ok)
    /\ Goto(c, IF pushes = 1 /\ ~(ok /\ rows[Row(c)] # 0) THEN "insert" ELSE "update")
    /\ UNCHANGED <<clockVars, serverVars, usage_info_, threadVars, rows, wrote, countVars>>

PushCountNew(c, ok) ==
    /\ pc[c] = "count"
    /\ Statement(ok)
    /\ Goto(c, IF pushes > 1 /\ ok /\ rows[Row(c)] # 0 THEN "update" ELSE "insert")
    /\ UNCHANGED <<clockVars, serverVars, usage_info_, threadVars, rows, wrote, countVars>>

\* Is there a row? table_exist is never set, so every push asks; no answer is
\* taken for none.
PushCount(c, ok) ==
    /\ pc[c] = "count"
    /\ Statement(ok)
    /\ Goto(c, IF ok /\ rows[Row(c)] # 0 THEN "update" ELSE "insert")
    /\ UNCHANGED <<clockVars, serverVars, usage_info_, threadVars, rows, wrote, countVars>>

PushInsert(c, ok) ==
    /\ pc[c] = "insert"
    /\ Statement(ok)
    /\ rows' = IF ok THEN [rows EXCEPT ![Row(c)] = @ + 1] ELSE rows
    /\ Goto(c, "update")
    /\ UNCHANGED <<clockVars, serverVars, usage_info_, threadVars, wrote, countVars>>

\* The column of the tick is set in every row of that date and kind; a column
\* that is not there is an error.
PushUpdate(c, ok) ==
    /\ pc[c] = "update"
    /\ Statement(ok)
    /\ wrote' = IF ok /\ tick[c] \in Columns
                THEN [date |-> DateOf(tm), tick |-> tick[c], at |-> now, met |-> rows[Row(c)]]
                ELSE wrote
    /\ i' = [i EXCEPT ![c] = @ + 1]
    /\ Goto(c, Entry(c, i[c] + 1))
    /\ UNCHANGED <<clockVars, serverVars, usage_info_, tick, reg, rows, countVars>>

\* tick_ = (tick_ == 23) ? 0 : tick_ + 1: tick_ is compared, read again unless
\* it was 23, and set.
CompareTick(c) ==
    /\ pc[c] = "tick"
    /\ reg' = [reg EXCEPT ![c] = 0]
    /\ Goto(c, IF tick_ = 23 THEN "storeTick" ELSE "addTick")
    /\ UNCHANGED <<clockVars, serverVars, usage_info_, tick, i, tableVars, countVars>>

LoadTick(c) ==
    /\ pc[c] = "addTick"
    /\ reg' = [reg EXCEPT ![c] = tick_ + 1]
    /\ Goto(c, "storeTick")
    /\ UNCHANGED <<clockVars, serverVars, usage_info_, tick, i, tableVars, countVars>>

StoreTick(c) ==
    /\ pc[c] = "storeTick"
    /\ tick_' = reg[c]
    /\ Goto(c, "next")
    /\ UNCHANGED <<clockVars, next_usage_push_, tm, usage_info_, threadVars, tableVars,
                   countVars>>

\* Variant: the next push is an hour from now.
LoadNextFromNow(c) ==
    /\ pc[c] = "next"
    /\ reg' = [reg EXCEPT ![c] = now + Hour]
    /\ Goto(c, "storeNext")
    /\ UNCHANGED <<clockVars, serverVars, usage_info_, tick, i, tableVars, countVars>>

\* next_usage_push_ += 1h: a load and a store.
LoadNext(c) ==
    /\ pc[c] = "next"
    /\ reg' = [reg EXCEPT ![c] = next_usage_push_ + Hour]
    /\ Goto(c, "storeNext")
    /\ UNCHANGED <<clockVars, serverVars, usage_info_, tick, i, tableVars, countVars>>

StoreNext(c) ==
    /\ pc[c] = "storeNext"
    /\ next_usage_push_' = reg[c]
    /\ Goto(c, "idle")
    /\ UNCHANGED <<clockVars, tick_, tm, usage_info_, threadVars, tableVars, countVars>>

-----------------------------------------------------------------------------
(* The environment *)

Advance ==
    /\ now < MaxTime
    /\ now' = now + 1
    /\ UNCHANGED <<boot, serverVars, usage_info_, pc, threadVars, tableVars, countVars>>

\* The server ends, at any point, and is started again: only the table stays.
Restart ==
    /\ restarts < MaxRestarts
    /\ restarts' = restarts + 1
    /\ boot' = now
    /\ tick_' = -1
    /\ next_usage_push_' = now + FirstPush
    /\ usage_info_' = Each(<<>>)
    /\ pc' = Each("idle") /\ tick' = Each(-1) /\ i' = Each(0) /\ reg' = Each(0)
    /\ first' = 0 /\ pushes' = 0
    /\ UNCHANGED <<now, tm, tableVars>>

-----------------------------------------------------------------------------
Push(c) ==
    \/ CheckFirst(c) \/ LocalTime(c) \/ LoadHour(c) \/ StoreHour(c)
    \/ PushBegin(c) \/ PushDate(c)
    \/ \E ok \in BOOLEAN : PushCount(c, ok) \/ PushInsert(c, ok) \/ PushUpdate(c, ok)
    \/ CompareTick(c) \/ LoadTick(c) \/ StoreTick(c) \/ LoadNext(c) \/ StoreNext(c)

Ingest(c) == (\E req \in Requests : IngestPoints(c, req)) \/ Check(c) \/ Push(c)

Next == (\E c \in Computers : Ingest(c)) \/ Advance \/ Restart

Spec == Init /\ [][Next]_vars

\* Handling a request takes no time on the scale of the clock, and once the
\* first reporter is there requests never fail to come when a push is due.
PromptNext ==
    \/ \E c \in Computers : Ingest(c)
    \/ /\ \A c \in Computers : pc[c] = "idle"
       /\ tick_ # -1 => now <= next_usage_push_
       /\ Advance

PromptSpec == Init /\ [][PromptNext]_vars

\* Reporters send all the time and their threads run.
FairSpec == Spec /\ \A c \in Computers : WF_vars(Ingest(c))

-----------------------------------------------------------------------------
(* Properties *)

Pushing(c) == pc[c] \in PushStates

\* The UPDATE of a push meets one row, over midnight and restarts: no hour is lost
\* to a row that is missing, none is written into two. A COUNT or INSERT that fails
\* spoils the rows of its own day and of no other. One thread at a time.
UpdateMeetsOneRow == wrote.date \notin failed => wrote.met = 1

\* However the threads' COUNTs and INSERTs mix, a date and kind gets no more rows
\* than there are computers: once a row is there a push asks and finds it, over
\* restarts and a date that changes in localtime's buffer between the two.
\* RowsAtMostComputers proves it of any number of threads.
RowsPerComputer ==
    \A r \in Dates \X Kinds : r[1] \notin failed => rows[r] <= Cardinality(Computers)

\* The column tick<n> that a push names exists: true of one thread at a time only.
ColumnExists == \A c \in Computers : Pushing(c) => tick[c] \in Columns

\* A deadline is pushed once: the n-th push waits for the n-th deadline, five
\* minutes after boot and then every hour.
OnePushPerDeadline ==
    pushes > 0 => now > boot + FirstPush + (pushes - 1) * Hour

\* Between requests the tick and the deadline have moved together, one step
\* for every push: no tick of the day is skipped or written twice.
TickFollowsPushes ==
    (\A c \in Computers : pc[c] \in {"idle", "check"}) =>
        /\ next_usage_push_ = boot + FirstPush + pushes * Hour
        /\ tick_ = IF pushes = 0 THEN -1 ELSE (first + pushes) % 24

\* A push writes into the row and column of the hour it happens in, or of an
\* hour next to it.
TickIsTheHour ==
    24 * wrote.date + wrote.tick - (wrote.at \div Hour) \in -1..1

\* Missed deadlines are made up for: when requests keep coming the next push
\* lies ahead again.
CatchesUp == now > next_usage_push_ ~> (now <= next_usage_push_ \/ pushes >= MaxPushes)
=============================================================================
