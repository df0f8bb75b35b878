# RMS: specifications, model checks and proofs

RMS ("remote management system") is a pair of programs. A *reporter* runs on
every managed machine, samples cpu and ram, and sends reports to a *server*,
which answers each report with work for the reporter (send your system info, run
a command), stores computers, devices, usage and command results in SQLite, and
is driven by an operator at a terminal. This directory holds TLA+ models of the
parts of the two programs that carry state between threads, processes and
restarts, the TLC configurations that check them, and TLAPS proofs of every safety
invariant the runs check.

    tlc -workers 2 -config rc_delivery.cfg MCRequestClient
    tlapm RequestClientProofs.tla      # and the other *Proofs modules

## 1. The system

### Reporter process (`src/reporter`)

| Component | State | Operations | Used by / uses |
|---|---|---|---|
| `RequestClient` | `request_queue_` under `mtx_`, `request_counter_` (a `binary_semaphore`), `poll_requests_`, transport and `client_` | `start`, `stop`, `sendRequest`, the work thread `pollRequests`, `handshakeTCP`, `sendRequestTCP`, `handleResponse` | called by consumers and executors, calls the server |
| Consumers (cpu, ram, ping) | `is_consuming_`, a thread each | `start`, `stop`, `consume` | call `sendRequest` |
| `RmsReporterClient`, `main` | `consumers_`, `executors_` | `start`, wait for SIGINT/SIGTERM, `stop` | owns consumers and request client |
| `CommandExecutor` | child process, pipes, poll thread, signal pipe | constructor, `runCommand`, destructor, `notifyEnd` | started by the work thread, calls `sendRequest` and, directly, `client_` |
| Reporters of cpu, ram, system | the counters of the first read of `/proc/stat`, over a sleep | read `/proc` line by line and call the system | called by consumers and by the handshake |
| `RmsConfig` | a map, a file | `load`, `save`, `find`, `replace` | all; keeps `computer_id` |

### Server process (`src/server`)

| Component | State | Operations | Used by / uses |
|---|---|---|---|
| `ClientHandler` + thrift's threaded server | one thread per connection | `getHandler`, `releaseHandler`, listen, stop | creates and deletes `RmsClient`s |
| `RmsServer` | `clients_` under `client_mutex_`, the ingestors, the database | `addClient`, `getClient`, `removeClient`, `printClients`, `start`, `stop` | used by all threads |
| `RmsClient` | `computer_`, `response_queue_` under its mutex | `handshake`, `report`, `sendSysInfo`, `reportExecutorData`, `addResponse` | called by the connection's thread and by the terminal |
| `RmsTerminal` | the operator's command | `info`, `get sys-info`, `exec`, `clients`, `exit`, ... | looks clients up, queues responses |
| `DbRequestIngestor` | `tick_`, `next_usage_push_` | `ingestRequestData` | called by every connection thread, without a lock |
| `UsageContainer`, `RmsComputer` | points per kind, system info, storage and network devices, dirty flags | `addPoint`, `setSysInfo`, `addToDB`, `getFromDB`, `updateDB`, `pushUsageToDB` | called by the connection's thread |
| `RmsSQLiteDatabase` | one `sqlite3` handle | `executeQuery` | called by every thread |

### How the parts interact, and what is hard about it

* Consumers and executors fill a queue that one thread empties. The element goes
  in under a lock, the token is released outside of it; a failed call puts a token
  back, `stop()` adds one that no request stands for.
* The work thread reconnects from inside the critical section. `main` joins the
  consumers before it tells the work thread to give up.
* A connection can break after the server ingested and before the reporter knows,
  or with a report still unread in it.
* On the server each connection has a thread. They share the client list, one
  ingestor and one database handle, and the operator's thread holds pointers to
  clients that other threads delete.
* A reporter may reconnect before the server has noticed that its old connection
  is gone, with the same identifier.
* A command's process writes, closes its output and exits while an executor's thread is
  between `poll`, its reads and its report; commands inherit each other's pipes.
* Deadlines, ticks of the day and dates advance by three different rules, and the
  server may be restarted between two statements.
* A statement may fail and nobody looks; flags that say "stored" are cleared all
  the same.
* Either program may be killed between any two steps. The reporter rewrites its
  configuration in place, the server makes its tables only if its database file is
  new, and the row of a computer and the identifier in its file are written by different
  processes.
* A command passes through the queue of responses, an answer, an executor, the queue of
  requests and an UPDATE; each of these may be lost, repeated or refused.
* Files under `/proc` are read by the place of their lines, which machines and kernels
  do not agree on and which changes while a reporter sleeps.

### What makes each part correct

* *Request client*: every accepted request is ingested, in order, at least once; a
  waiting request always has a token; `front()` never meets an empty queue; the
  process ends when it is told to.
* *Client registry*: the list holds exactly the live connections; a response reaches
  the reporter it was typed for, once and in order; ended connections are cleaned up;
  exit returns.
* *Usage ingestor*: one push per deadline, into a column that exists, of the one row of
  its day; missed deadlines are made up for.
* *Computer store*: one identifier per computer, rows owned by the right computer and
  device and holding what was reported last, also after failures.
* *Executor*: a command's output is reported completely and before its end; the end of
  every command is announced.
* *Configuration and start-up*: what the operator wrote is kept, over provisioning,
  kills and restarts; the identifier in the file is that of a row; no row is made
  without need; a complete configuration leads to a provisioned reporter.
* *A command as a whole*: it runs at most once, its row gets its own end, and neither it nor
  its end is forgotten unless a fault took it.
* *Usage as reported*: no cpu is used more than it counts, and an hour is lost only to a bad
  point that is still among the last ones.

`PROJECT.json` lists the components, and under `hazards` where each of these can go
wrong.

## 2. The modules

| Module | Models | Extended by |
|---|---|---|
| `FifoDelivery` | abstract: at-least-once delivery in order of acceptance | implemented by `RequestClient` |
| `RequestClient` | the reporter process and its connection | `MCRequestClient`, `RequestClientProofs` |
| `RequestClientProofs` | inductive invariants, theorems | |
| `ClientRegistry` | clients, connections, terminal | `MCClientRegistry`, `ClientRegistryProofs` |
| `ClientRegistryProofs` | inductive invariants, theorems | |
| `CommandExecutor` | commands, their pipes and executors' threads | `MCCommandExecutor`, `CommandExecutorProofs` |
| `CommandExecutorProofs` | inductive invariant, theorems | |
| `UsageIngestor` | points, ticks, pushes, `usage_table` | `MCUsageIngestor`, `UsageIngestorProofs` |
| `UsageIngestorProofs` | inductive invariants, theorems | |
| `ComputerStore` | what a machine reports, computers and devices in memory and in SQLite | `MCComputerStore`, `ComputerStoreProofs` |
| `ComputerStoreProofs` | inductive invariants, theorems | |
| `RmsConfig` | the configuration: map, file, load and save, as operators | `Provisioning` |
| `Provisioning` | restarts of both programs: configuration file, identifier, tables | `MCProvisioning`, `ProvisioningProofs` |
| `ProvisioningProofs` | inductive invariant, theorems | |
| `CommandPromise` | abstract: the states a command goes through | implemented by `CommandLifecycle` |
| `CommandLifecycle` | a command from the terminal to its row; instantiates `FifoDelivery` for its way back | checked directly, `CommandLifecycleProofs` |
| `CommandLifecycleProofs` | inductive invariant, theorems, the refinement | |
| `UsageReports` | reads of `/proc`, the points made of them, their containers | `MCUsageReports`, `UsageReportsProofs` |
| `UsageReportsProofs` | inductive invariant, theorems | |

Every action stands for the lines `PROJECT.json` maps it to. Definitions keep the
source's names; an operator whose comment calls it a variant is a plausible wrong
version of the definition next to it, used to test that the properties notice. History
variables (`ingested`, `delivered`, `wrote`, `hit`, ...) are marked in the declarations.

### RequestClient

Threads are program counters: `tpc` for consumers and executors, `wpc` for the work
thread, `mpc` for `main`. `Enqueue` is `sendRequest`'s critical section and is a single
step; that is sound because the section neither blocks nor is observed part-way.
`SendRelease` is the release after it. The work thread goes
store → connect → handshake → (top → acquire → check → lock → report → reply → handle)*,
with `mtx_` held from `lock` until it leaves the loop body, the reconnection of
`WorkerFail` included. The network is `conn` (none, open, cut by the network, dead
with the server) and `late`, reports written to a connection that was cut before the
server read them: the server's thread for the old connection may still ingest them
(`LateIngest`). `WorkerHandshakeThrows` is the exception nobody catches.

Releasing a `binary_semaphore` above its maximum is undefined; libstdc++, which CI
builds with, keeps counting, and `Release` does the same. The variant
`ReleaseSaturates` shows that `NoLostWakeup` depends on it.

`Replies` are the contents a response may have; a command answered by the server
starts an executor, whose end is another request. `EarlySignal` says whether a signal
can come before the work thread has run its first statement (see section 5).

### CommandExecutor

One thread per command (`pc`): make the pipes → fork → close → (poll stdout → poll stderr
→ read stdout → read stderr → report)* → clean up → notify. The steps follow the kernel's
grain: `poll` looks at one descriptor after the other, and the command may write or hang
up between any two steps. `wrote`, `got` and `told` count units of output written,
read and reported; `writers` are the processes that hold the write end of a command's
stdout, its own and those forked while it was open. Commands are external processes that
write, close stdout and exit as they like. `ExecFails` is the missing shell: the child
falls through into the parent's loop. The connection is reduced to open or failed; what
is queued by `notifyEnd` continues in `RequestClient`.

### ClientRegistry

One `RmsClient` per connection (`Conns`, never reused), its thread in `hpc`: accepted →
handshake → serving/report → removed → deleted. Each critical section of
`client_mutex_` and of the client's own mutex is one step. `getHandler` creates the
client and lists it with a null `computer_`; `HandshakeEnd` gives it one. Row
identifiers are given out in one step here, because `ComputerStore` is about how they
are obtained; `HandshakeFails` is the statement that did not run. Where the code
dereferences a null or deleted object, or iterates a list while it changes, the model
sets `ub` and stops: the behaviour is undefined from there on. `RemoveClient` is
`removeClient()`'s loop, round by round, as a recursive function.

### UsageIngestor

One thread per computer runs `ingestRequestData`. Each step is one access to shared
memory or one SQL statement: the deadline test, the test for the first push, `localtime()`,
`tm_hour` and the store of it, the argument of `pushUsageToDB`, its date, the COUNT, INSERT
and UPDATE of the row, and the accesses of lines 94 and 95, where `tick_` is compared
(`CompareTick`), read again (`LoadTick`) and stored, and `next_usage_push_` is loaded and
stored. `addPoints` adds the points of a request one after the other.
`std::localtime`'s result is one static buffer, `tm`, shared by all threads. A statement may
fail (`Statement`): a COUNT that does is taken for no row and goes on to the INSERT, an INSERT
or UPDATE that does, or that names a column there is not, goes unnoticed. `failed` remembers
the days it happened on. The clock `now` counts units, `Hour` of them to the hour; a day has 24
hours as in the code. `Restart` may happen at any point and keeps only the table.

### ComputerStore

One thread per reporter runs `handshake` or `sendSysInfo`: look the computer up
(`FetchComputer`, `FetchStorage`), or add it (`InsertComputer`, `ReadComputerId`, then
per device `InsertDevice`, `ReadDeviceId`), or update what is dirty (`UpdateComputer`,
`UpdateDevice`). `last_rowid` belongs to the shared handle. A statement's outcome is
*ok*, *refused* when prepared (the caller sees it) or *failed* when stepped (nobody
sees it). `InsertExecutor`/`ReadExecutorId` are the terminal's `exec`, which uses the
same handle. A system is a version pair, enough to tell the INSERT's and the UPDATE's
idea of it apart (the INSERT writes major twice: `AsInserted`). `StartIds` lets a
reporter come with the identifier of a database that is gone, and two machines with
the same one, as a cloned image would. `report` is `SysReporter::report`: the mounts
whose device begins with a slash, a device as often as it is mounted, and the
interfaces with an internet address. `hit` remembers when a statement of a reporter
last failed, so that the properties speak of sessions that were spared.

### RmsConfig and Provisioning

`RmsConfig` is a map and a file of lines. `load` takes the lines one after the other with
`emplace`, so the first line of a key counts; `find` leaves the key in the map; `save`
writes a line per key. `Provisioning` is one reporter (each has a file of its own) and the server, each
with the steps between which being killed makes a difference. Opening the file for
writing empties it (`SaveOpen`), each `SaveLine` is on disk when `std::endl` has flushed
it, in any order as the map is unordered. The keys without which a constructor or the
handshake ends the process are guards of `Needs`. A handshake is one step of the
server. `CreateTable` is one statement of `createTables()`; a server that finds a file
makes none. `damage` and `lost` record which faults hit where.

### CommandLifecycle

Composes what the other modules say of their parts: `response_queue_` and the answer on
the connection (`ClientRegistry`), the request queue by its promise (`FifoDelivery`, which
`RequestClientProofs` shows of `RequestClient`), the row of `executor_table`. `Report` is
a report of a result, `ReportOther` one of a ping or of usage, which carries responses just
as well; `ReportLate` is a report left behind in an old connection. With a connection go
the client, its queue, the answer under way and a response the terminal is adding;
`cut` remembers whose. `status` is the refinement mapping to `CommandPromise`.

### UsageReports

A file is the sequence of its keys and `Has` is `fscanf`: a line with another key is not
consumed. `/proc/stat` has a line for the whole machine and one for each cpu on line;
`ReadBaseline` and `ReadResult` are the two reads around the sleep, between which cpus
count and go on or off line. A point is a fraction, so that 0/0 can be told apart, and `of`
says what it is of: one cpu that was on line all the while (`stayed`), one that was off line
and came back, two cpus, or a file that did not open. What the machine gives is the guard of
`ReadResult`: a cpu that stayed on line counts within the second. One that was away need not
have. A connection that is lost (`Reconnect`) gives the reporter a new `RmsComputer`
without containers, and the last request again if its answer had not come (`sent`).
`MaxDataPoints` is `RMS_MAX_CONTAINER_DATA_POINTS`.

## 3. The runs

Passing runs:

| Run | Instance | Checks |
|---|---|---|
| `rc_delivery` | 1 consumer, 1 command, 2 requests each, 2 faults, server restarted; 66k states | `FrontExists`, `NoLostWakeup`, `InOrderNoGaps`, `TypeOK`; `RequestClient` implements `FifoDelivery` (`DeliverySpec`); `EventuallyIngested`, `StopEnds` |
| `cr_registry` | 2 reporters, 2 connections, 2 commands; 333k | `ListedAlive`, `OnceInOrder`, `RightReporter`, `TypeOK`; `EndedIsReleased`, `QueuedIsDelivered`, `ExitCompletes` |
| `ui_serial` | 1 computer, 2 kinds, late evening to past midnight, 1 restart, statements failing on 1 day; 676k | `UpdateMeetsOneRow`, `RowsPerComputer`, `TickFollowsPushes`, `CatchesUp`, `TypeOK` |
| `cs_store` | 2 reporters, 3 sessions, 1 command, 1 failing statement, one call at a time; 3.1M | `IdentifiersDistinct`, `RowsOwned`, `SystemStored`, `DevicesStored`, `TypeOK` |
| `ce_output` | 2 commands, one silent, pipes of 2 units, 1 connection failure; 444k | `OutputBeforeEnd`, `EndsAnnounced`, `TypeOK` |
| `pv_restart` | 4 configurations or none, 3 kinds of database, 2 faults; 326k | `SettingsKept`, `IdentifierHasRow`, `RowPerLostAnswer`, `Provisioned`, `TypeOK` |
| `cl_record` | 2 commands, 2 times, 3 faults; 47k | `RunsOnce`, `RowTellsEnd`, `CommandsSettle`, `TypeOK`; `CommandLifecycle` implements `CommandPromise` (`PromiseSpec`) |
| `ur_usage` | 3 cpus, 2 or 4 lines read, 2 changes of cpus, 3 reports, 1 fault; 1.7M | `UsageIsPercent`, `HourLostToBadPoint`, `TypeOK` |

What they show:

* `rc_delivery`: the token protocol is right although lock and semaphore are separate,
  retries keep the order, and no failure loses a request; the reporter makes progress once
  the server is back, and its stop then ends.
* `cr_registry`: the registry's lock and the order remove-then-delete keep dead clients out
  of the list, responses are neither duplicated nor misrouted over reconnections, cleanup
  and exit complete. The invariants were also checked with three connections (3.6M states).
* `ui_serial`: with requests handled one at a time the bookkeeping of deadlines and ticks
  is right over midnight and restarts; a crash between INSERT and UPDATE leaves a row the
  next push finds, and never two. A statement that fails can leave a day without its row, or
  with two, and no other day. With two threads only `RowsPerComputer` is left of it: it was
  checked on such an instance by hand (925k states) and is proved for any number.
* `cs_store`: with handshakes one at a time the database holds what was reported, and a
  session without failures repairs what a failed statement of an earlier one left behind.
  When no statement failed, identifiers are distinct and no device has two rows.
* `ce_output`: an executor that leaves its loop at the hang-up has reported everything
  on stdout, and what was on stderr before the hang-up, because a read takes all that a
  pipe can hold (`ReadAssumption`; the variant `ReadOutShort` loses output).
* `pv_restart`: wherever the reporter or the server is killed, what is left in the
  configuration file is right, a row is wasted only by an answer that did not reach the
  file, and unless a save or the making of the tables was hit, the reporter ends up with
  its row.
* `cl_record`: over lost connections, late and repeated reports a command is started
  at most once, never after it was lost, and its row gets its own end. An instance with three
  commands and two faults (604k states) passes as well.
* `ur_usage`: cpus that went and came back before the first read do no harm. A cpu that goes
  off line during the sleep makes points of two cpus; one that is back in time for the second
  read has a point of its own, up to 100 per cent, or 0 of 0 if it did not count. After a bad
  point the average is a number again once the container has dropped it, or once a new
  connection has brought new containers.

Runs in which the code departs from what the repository says of it:

| Run | Property | What happens |
|---|---|---|
| `rc_stop_server_dead` | `StopEnds` | with the server gone, Ctrl+C waits for consumers that wait for `mtx_`, held by the work thread, which reconnects until `main` tells it to stop: `todo` lines 29-30 describe the symptom |
| `cr_reconnect` | `ConnectedListed` | the release of a reporter's old connection removes the new one, which has the same identifier, from the list |
| `cs_race` | `IdentifiersDistinct` | two handshakes insert before either reads `last_insert_rowid`, and both computers get one identifier |
| `cs_added` | `AddedDeviceStored` | a drive added after the first handshake is only ever UPDATEd, with identifier -1, and never stored |

Further departures the models reach. Each is kept as a property of its module with a
configuration to be run by hand; TLC reports the violation (`cr_clients` has three
properties, and reports all three with `-continue`; `ui_race` has two, and reports the second
if the first is taken from its line):

| Configuration | Property | What happens |
|---|---|---|
| `rc_stop_early` | `StopEnds` | a signal before the work thread's first store is overwritten by it |
| `rc_reconnect` | `SurvivesServerDeath` | the server dies between `open()` and the answer to `handshake()`: the exception is not caught |
| `cr_clients` | `LookupAnswers` | `getClient()` follows the null `computer_` of a client before its handshake |
| `cr_clients` | `ClientOutlivesUse` | the client found is deleted before the command uses it |
| `cr_clients` | `PrintSeesStableList` | `printClients()` walks the list without the lock |
| `ce_inherit` | `EndIsItsOwn` | a command forked between another's `pipe()` and `close()` inherits the write end of its stdout: the end of the first waits for the end of the second |
| `ce_lost` | `SurvivesOutput` | output is reported through a failed connection: the exception leaves the executor's thread and ends the reporter |
| `ui_race` | `OnePushPerDeadline` | two threads see the same deadline and both push |
| `ui_race` | `ColumnExists` | one thread sees a tick of 22, another makes it 23, the first adds one: `tick24` is no column of `usage_table`, and the UPDATEs of the push that follows fail |
| `ui_late` | `TickIsTheHour` | the first reporter comes late: deadlines since boot are caught up, ticks run ahead of the clock and into the wrong day's columns |
| `cs_command` | `CommandIdOwn` | a command is sent with the identifier of another table's row |
| `cs_stale` | `ProvisionedKeepsId` | a computer whose identifier the database does not have is given a new one |
| `cs_gone` | `GoneIsDisconnected` | a drive that is no longer reported stays `connected_` ("Does the drive currently exist.", `rms_computer.h` line 77) |
| `cs_net` | `AddressIsItsOwn` | every interface is reported with the address of the first entry (`sys_reporter.cpp` line 75) |
| `pv_no_id` | `AsksForIdentifier` | without a `computer_id` in the file `stol` throws, where the other settings are asked for in words |
| `pv_torn` | `StartsAgain` | a reporter killed in `save()` may have lost the settings it needs to start |
| `pv_tables` | `TablesExist` | a first start that is interrupted leaves a database whose missing tables are never made |
| `pv_log` | `LogServerStays` | with `db_type log` there is no database, and the first handshake ends the server |
| `cl_lost` | `RowsClose` | a command lost with its connection leaves its row open for ever |
| `cl_code` | `RowTellsCode` | "return code should be set" (`executor.h` line 73), and nothing sets it: every row says 0 |
| `ur_hotplug` | `PointsOfOneCpu` | a cpu that goes off line during the sleep shifts the lines, and differences of two cpus are reported |
| `ur_cores` | `UsagePerCpu` | twice "cpu cores" lines are read: without hyper-threading the last cpu is reported again, with more threads some never are |
| `ur_nan` | `HourStored` | a `/proc/meminfo` that did not open gives 0/0; until the point has left the container, UPDATEs say `nan` and are refused |

### Bounds and why they are enough

* `MaxRequests`, `MaxFaults`, `Replies`: two requests per sender are the least that can
  be put out of order; one fault suffices for retry, late ingestion and repetition, two
  for a fault during recovery. The theorems lift these bounds.
* Two connections of two reporters allow a reconnection beside an old connection as well
  as two reporters at once; three, which allow both together, were checked once. Two commands are
  the least that can be swapped.
* `ui_*`: times start shortly before midnight and end past it, so that the hour wraps,
  the date changes and at least two deadlines are missed; a container of one point
  reaches its limit. `MaxPushes` stops pushes from beginning, none half-way. `MaxFailures` is
  a bound on days: statements fail on one of the two days, as often as may be.
* `ce_*`: `MaxWrites` of three units on a pipe of two let the pipe be full, be emptied and
  be written again; the second command only has to exist for its pipes to be inherited.
* `cs_*`: a first handshake, one that fails or changes something and one that repairs are
  three sessions. One device suffices, as devices never interact; it may be missing from a
  report, so that it is added and taken away, and be mounted twice.
* `pv_*`: `MaxId` is above what a reporter brings along plus the rows faults can waste.
  Two faults let a recovery be hit again. The files have a new and an old identifier, a
  key twice, a value of two words, a key without value and a key that is missing.
* `cl_*`: two commands can share an answer, swap their ends and overwrite each other's row;
  three faults are a lost connection, one lost again and a refused statement.
* `ur_*`: three cpus let one in the middle go off line, and two changes let it come back; twice
  the cores is fewer or more lines than there are. A container of one point (it keeps two) drops one within three
  reports.
* Symmetry (of reporters) is used in `cs_store` only, which checks invariants.

### Fairness

* `RequestClient`: weak fairness of every thread's steps. Threads are
  preemptively scheduled, and what they block on (semaphore, mutex, join) is a guard.
  `mtx_` needs no strong fairness in the checked properties: the work thread leaves it
  and blocks on the semaphore when the queue is empty. No fairness for the operator's signal,
  for faults or for a command's end. `RecoveringSpec` adds that a dead server is started
  again, which is the operator's doing and is why `StopEnds` is also checked without it.
* `ClientRegistry`: weak fairness of connection threads (which includes that reporters
  go on reporting: consumers send without end), of a command already begun and of the
  join in exit; none of what the operator types, of connecting or of disconnecting.
* `CommandExecutor`: weak fairness of each executor's thread and of a forked child up to its
  exec. None of commands, which may run for ever: `EndsAnnounced` only speaks of
  behaviours in which from some time on no command is left.
* `UsageIngestor`: weak fairness of each computer's thread, again because reporters
  report without end. The clock may stop.
* `Provisioning`: weak fairness of the reporter and of the server, their being started by
  the operator included: a deployment that nobody starts provisions nothing. Faults,
  commands and lost connections are not fair.
* `CommandLifecycle`: weak fairness of handling an answer, of reconnecting and of the
  terminal's second step; strong fairness of the two kinds of report, because the queue
  of requests is in order and consumers go on sending, so that a ping never keeps a result
  from its turn, nor the reverse. None of commands' ends, of the operator or of faults.
* `UsageReports` and `ComputerStore` state no liveness.

## 4. The proofs

`RequestClientProofs` proves, for every number of consumers and executors, every set of
replies and every bound, from `ConstantsAssumption` (types of the constants; consumers
and executors are different; executors are finitely many):

| Theorem | Statement |
|---|---|
| `TypeCorrect` | `Spec => []TypeOK` |
| `NoWakeupLost` | `Spec => []NoLostWakeup` |
| `FrontNeverMissing` | `ASSUME ~EarlySignal PROVE Spec => []FrontExists` |
| `Delivers` | `Spec => DeliverySpec` (refinement of `FifoDelivery`) |
| `OrderKept` | `Spec => []InOrderNoGaps` |

The argument:

* `TypeInv` strengthens `TypeOK` by what bounds rest on: a sender about to enqueue has
  requests left, a failed connection has been counted as a fault, `main` joins only
  consumers there are, an answer belongs to a request still queued.
* `TokenInv`: while the work thread lives, tokens in the semaphore, in its hand and owed
  by senders add up to the queued requests, plus the one `stop()` added. `NoLostWakeup`
  says nothing about the thread's hand or about `stop()` and is not inductive without
  the sum. The lemmas about cardinality are those of `FiniteSetTheorems`.
* `FrontInv`: if the signal cannot overtake the work thread's first store, then a
  `poll_requests_` seen TRUE after a token was taken means that the token is not
  `stop()`'s, hence stands for a request. Without the assumption the theorem is false:
  the thread may take `stop()`'s token for a request and call `front()` on an empty
  queue.
* `DeliveryInv`: when an answer arrives the front request has been ingested, and
  every report left in a cut connection is the front request or was ingested before.
  This is what makes `WorkerPop` a `Confirm` and `LateIngest` an `Ingest` or a `Repeat`.
* `OrderInv`: every request a sender made is in the log or the queue, and each queued
  request has its predecessor ahead of it in the queue or in the log.

Each step lemma has one case per action.

`ClientRegistryProofs` proves, for every number of reporters, connections and commands,
from `RegistryAssumption`:

| Theorem | Statement |
|---|---|
| `RegistryTypes` | `Spec => []TypeOK` |
| `ListHoldsLive` | `Spec => []ListedAlive` |
| `ReachesRightReporter` | `Spec => []RightReporter` |
| `DeliversOnceInOrder` | `Spec => []OnceInOrder` |

* `Stages` says what a connection has at each stage of its thread, `TerminalFound` that
  the terminal's client did its handshake and, unless deleted since, has the identifier
  typed; `IdsCounted` that identifiers given never outnumber the handshakes that came to an
  end (a count over `FiniteSetTheorems`).
* `ListedAlive` follows from the order remove-then-delete only if the removal takes every
  occurrence out of the list. That is `RemoveClientLeaves`, about the loop over a list of any
  length.
* `RightReporter` needs that a reporter has one live connection (`OneUp`), that the
  connection's computer has the reporter's identifier (`SameIdentifier`), and that what is
  queued on a connection is for its computer (`QueuesAddressed`).
* `OnceInOrder` needs `QueuesOrdered`: what was delivered comes before what is being
  returned, and that before what is queued, on every connection that can still deliver. Old
  connections keep stale queues; only `OneUp` keeps them from mattering.

`CommandLifecycleProofs` proves, for every number of commands, times and faults, from
`LifecycleAssumption`:

| Theorem | Statement |
|---|---|
| `LifecycleTypes` | `Spec => []TypeOK` |
| `StartedAtMostOnce` | `Spec => []RunsOnce` |
| `RowsTellEnds` | `Spec => []RowTellsEnd` |
| `KeepsPromise` | `Spec => PromiseSpec` (refinement of `CommandPromise`) |

* `OnePlace`: a command is with the terminal, in the queue or in the answer, once, or was
  started, once, or was lost; the places are disjoint. `RunsOnce` alone says nothing of
  the places a command may yet be started from.
* `RowFirst`: what has no row is nowhere; `EndsAreTrue`: what waits in the request queue or
  was ingested are ends of commands as they happened.
* The refinement has one step per action. An answer starts, and a lost connection loses, all
  the commands it carries at once (`MovesTogether`); a repeated report changes no status.

`CommandExecutorProofs` proves, for every number of commands, whatever each writes and
whatever a pipe holds, from `ReadAssumption`:

| Theorem | Statement |
|---|---|
| `ExecutorTypes` | `Spec => []TypeOK` |
| `OutputComesFirst` | `Spec => []OutputBeforeEnd` |

* `HangUpIsFinal`: once `poll` saw the hang-up, or the loop was left, nobody holds or
  inherits the write end any more: a fork takes only pipes between `pipe()` and `close()`.
* `PipesHold`: a pipe holds at most its capacity, so the read after the hang-up takes all
  (`LastTurn`); this is where `ReadSize >= Capacity` is used.
* `ReportsKeepUp`: nothing is read and left out of the next report. `AllTold` is the
  property from the end of the loop on.

`UsageIngestorProofs` proves, for every number of computers and their threads, every set
of requests and every bound, from `UsageAssumption`:

| Theorem | Statement |
|---|---|
| `IngestorTypes` | `Spec => []TypeOK` |
| `RowsAtMostComputers` | `Spec => []RowsPerComputer` |
| `OneRowPerUpdate` | `ASSUME OneComputer PROVE Spec => []UpdateMeetsOneRow` |
| `TicksInStep` | `ASSUME OneComputer PROVE Spec => []TickFollowsPushes` |
| `OneComputerColumns` | `ASSUME OneComputer PROVE Spec => []ColumnExists` |

* `IngestorTypes` holds the bounds: containers keep their limit of points through a request
  of any length (`PointsKept`), a push stays within the containers its computer has
  (`ThreadsInRange`) and the dates of the table, and only the threads that found
  a deadline due before the bound push past it (`PushesBounded`). Of the tick it says only that it
  is a natural number or -1: with two threads it is not an hour.
* `RowsBounded` makes `RowsPerComputer` inductive: the rows of a date and kind and the threads
  about to INSERT into it (`Inserting`) are at most as many as computers. A thread comes to the
  INSERT only having counted no row; while it is about to INSERT, the date may change under it in
  `localtime`'s buffer, but only to a day that has no row yet.
* `OneComputer` is what the last three need: with two threads all are false
  (`OnePushPerDeadline` and `ColumnExists` fail in `ui_race`, and two threads may both INSERT).
  `RowsUnique` says what COUNT, INSERT and UPDATE each know of the row, unless a statement of
  its day failed; `InStep` where tick and deadline are at each point of the handler, with
  `TicksGoRound` for the 24 hours.

`ProvisioningProofs` proves, for any files an operator may write and any number of faults,
from `ProvisioningAssumption` (what the files say of `computer_id` is a number or nothing)
and `WordsAssumption` (numbers are written as different words):

| Theorem | Statement |
|---|---|
| `LoadMeansFile` | `\A k : find(load(s), k) = Says(s, k)`, for a file `s` of any length |
| `ProvisioningTypes` | `Spec => []TypeOK` |
| `SettingsStay` | `Spec => []SettingsKept` |
| `IdentifiersHaveRows` | `Spec => []IdentifierHasRow` |
| `NoRowForNothing` | `Spec => []RowPerLostAnswer` |

* `PartlySaved`: while `save()` writes, the file has the lines of the keys that are done, in
  whatever order; `SettingsKept` speaks only of what is then read back, which is
  `LoadMeansFile` once more.
* `IdsHaveRows` and `MapFollowsFile`: file, map and answer may each have another identifier,
  when an answer is on its way or the file cannot be written; each of them is the operator's
  or that of a row.
* `RowsCounted` is what makes `RowPerLostAnswer` inductive: rows are at most as many as
  answers were lost, or one more, and then the reporter goes by a row wherever it is, or
  loses an answer with what it is doing (`GoesByRow`).

`UsageReportsProofs` proves, for any number of cpus, lines read, points, changes of cpus and
lost connections, from `ReportsAssumption` and the model's machine, whose counters never run
back and go on within a second for a cpu that is on line all the while:

| Theorem | Statement |
|---|---|
| `ReportsTypes` | `Spec => []TypeOK` |
| `PointsArePercent` | `Spec => []UsageIsPercent` |
| `OnlyBadPointsLoseHours` | `Spec => HourLostToBadPoint` |

* `BaselinePast`: whatever lines the first read met, each is of a cpu whose counters have not
  run back since, and which was used no more than it counted. That makes the usage of one cpu
  at most all of it, also where it was off line in between; that it is a number needs the cpu
  to have stayed. The line of the whole machine is a sum over all cpus; that sums compare as
  their parts do (`SumsCompare`) holds for any number of cpus.
* `ContainersKeep`: a container is the end of what it was given. An average that is no number
  therefore has its bad point among the last. `SentSane`: what is sent again after a lost
  connection is as good as it was the first time.

`ComputerStoreProofs` proves, for every number of reporters, sessions, devices and failing
statements, from `StoreAssumption`:

| Theorem | Statement |
|---|---|
| `StoreTyped` | `Spec => []TypeOK` |
| `DistinctIdentifiers` | `ASSUME StrangersOnly PROVE SerialSpec => []IdentifiersDistinct` |
| `RowsAreOwned` | `ASSUME StrangersOnly PROVE SerialSpec => []RowsOwned` |
| `SystemIsStored` | `SerialSpec => []SystemStored` |
| `DevicesAreStored` | `ASSUME MountsDiffer PROVE SerialSpec => []DevicesStored` |

* `StoreTyped` is about threads in any order. The others are about one call at a time, without
  which `cs_race` shows them false. Under it a step has one of a few shapes (`Shape`,
  `SysShape`, `DevShape`), and the lemmas about the code say which: `...Does` for identifiers and
  rows, `...Sets` for the system, `...Tells` for devices.
* `StrangersOnly`: an identifier a reporter comes with was never given by this database and will
  not be, since it is past all the rows the sessions can make (`RowPerSession`). A reporter
  that knows another one's identifier does go by it.
* `IdentifiersOwned` says whose identifier is whose from the first statement of a handshake
  on: one read from `last_insert_rowid` is known to nobody yet. `DevicesOwned` says the same
  of devices, and of the row inserted whose identifier is not read yet; `RowsSingle`, that a device
  about to be inserted has no row.
* `SystemsKept` says for each point of the handshake what memory, the row and the report have
  to do with each other, for connections that were spared. The dirty flag compares with
  the last report, not with the row: that is right only because of what the row says at that
  point. Others may write to the row; then `Disturbed` holds, and keeps holding, since a
  reporter that knows an identifier with a row keeps it (`KnowsId`).
* `DevicesKept` is the same for devices, with what the loop of `updateDB()` has still to do
  (`todo`). A device without a dirty flag, whose row is not written, has the figures it had, or
  those of the SELECT, which does not read `free`: hence the exception of devices reported
  full.
* `MountsDiffer`: no two lines for one device in `/proc/mounts` say the same. It is needed:
  `dirty_` is what the last line of a device made it (`rms_computer.cpp` line 27), so a second
  line that repeats the first hides a change, and TLC violates `DevicesStored` on an instance with
  such a file. The machines of `cs_store` satisfy both hypotheses.

Five of these components contain loops over data: `removeClient()`, the points of a request,
`load()`, the lines of `/proc/stat` and their sum, `/proc/mounts` and `setSysInfo()`.
They are recursive functions in the model, and their lemmas are proved without the
library's induction rules, which take an operator as a parameter that the installed provers
cannot instantiate: the rounds for which a claim fails are a set of naturals, which has a
least element (`LeastElement`, from the well-foundedness of `<`), and the round before
it gives a contradiction. The same argument shows that the recursive function exists
(`LoopRuns`, `PointsRun`, `ReadRuns`, `AddRuns`, ...).

Each inductive invariant was checked with TLC before it was proved, on the instance of the
component's run; those of `CommandLifecycle` with three commands (604k states), those of
`ClientRegistry` with three connections (3.6M), those of `UsageIngestor` that hold for any
number of threads with two.

Only model-checked: liveness (TLAPS here does not reason about fairness and ENABLED), that is
`EventuallyIngested`, `StopEnds`, `EndedIsReleased`, `QueuedIsDelivered`, `ExitCompletes`,
`CatchesUp`, `EndsAnnounced`, `Provisioned` and `CommandsSettle`; and all violations.

## 5. Assumptions and limits

* Calls of thrift are external: a call on a failed connection throws, a one-way call
  may be lost, the server runs a connection's calls in order on the connection's thread.
* A reporter has one connection at a time from its own point of view; the server may
  still have older ones.
* Data races on plain variables (`tick_`, `next_usage_push_`) are loads and stores that
  other threads' may come between, as many as the source names: line 94 of
  `request_db_ingestor.cpp` reads `tick_` twice. A compiler may keep the first value instead,
  which gives fewer behaviours; tearing is not considered on the 64-bit targets.
* Of the counters of `/proc/stat` it is assumed that they never run back, that a cpu uses no more
  than it counts, and that a cpu on line throughout the reporter's second of sleep counts in it.
  Nothing is assumed of a cpu that was off line in between. The code checks none of this.
* Statements fail, seen or unseen, in `ComputerStore` and `UsageIngestor`, and an UPDATE of
  `executor_table` may be refused in `CommandLifecycle`. Elsewhere they run: an INSERT that fails
  when stepped and leaves a stale `last_insert_rowid` (`rms_sqlite_database.cpp` lines 71-73) is
  in `ComputerStore` only, so `Provisioning` speaks of kills and missing tables, and
  `CommandLifecycle` takes the identifier of a command's row for its own (`cs_command` shows that
  it may not be). An identifier that the database does not have is in `ComputerStore` as well,
  and not in `ClientRegistry`.
* The server of `CommandLifecycle` notices the end of a connection at once; a half-open one that
  is never released is not in it.
* `kHTTP` and `kLOG` requests are made by nobody and left out. `join()`, `runScript()`
  and `getClientsIdList()` have no callers.
* Identifiers of rows do not overflow.
* Output of commands is counted. That `out = buffer` stops at a NUL and otherwise runs
  on into what the buffer held before is left out, and so are `pipe()` calls that fail.
  `input()` and `sendOutput()` have no callers; `~CommandExecutor` does not run, as
  executors are deleted through `Executor`, whose destructor is not virtual.

* `config_` is not locked; the constructors use it before the work thread starts, and
  everything after on the work thread, so it is used by one thread at a time.
* A `/proc/meminfo` with `SwapFree` in the line where `SwapTotal` is looked for is excluded
  (`ReportsAssumption`): of the lines being elsewhere the models have those in which
  neither stands there.
* Integers of the reports (`i8` core count, `i16` cache size) are far from their limits.

Not modelled, and why:

* the system consumer: its calls no longer match the interfaces, and no build file names it;
* the script executor: its implementation file is empty;
* the log ingestor: it prints requests and keeps nothing;
* `sys_info_data.cpp`: conversions without a caller that keeps their result; formatting in
  general;
* failures of `statfs()`, `uname()` and `getifaddrs()`, entries of `getifaddrs()` without an
  address, and a `/proc/stat` or `/proc/mounts` that does not open;
* the values that are averaged (whether they are numbers is in `UsageReports`);
* the scripts under `setup`, the MySQL headers, the unused headers
  `server/include/rms/server/request_*.h`, thrift's generated code and the Python test server.

## 6. Plan

Done: the request client with its abstract specification and proofs; the client
registry, the usage ingestor, the command executor, the computer store, configuration and
provisioning, and the reporters of cpu and ram with the containers they fill, with proofs of all
their safety invariants; the life of a command across both programs with its abstract
specification and the proof of the refinement.

Next: the bytes of two calls on one transport (executor threads beside the work thread), and
a `ComputerStore` under `ClientRegistry`, so that what the terminal prints of a computer is
related to what its thread is writing.
