---------------------------- MODULE ComputerStore ----------------------------
(***************************************************************************)
(* What the server knows of its computers (server/src/rms_computer.cpp,    *)
(* RmsClient::handshake and sendSysInfo) and what SQLite keeps of it       *)
(* (rms_sqlite_database.cpp, the statements of rms_database.h). Every      *)
(* connection thread uses the one sqlite3 handle: SQLite runs calls one at *)
(* a time, but sqlite3_step() and sqlite3_last_insert_rowid() are two      *)
(* calls, and the identifier a thread reads is that of the last INSERT of  *)
(* any thread into any table.                                              *)
(*                                                                         *)
(* A reporter has one connection at a time. A statement may be refused     *)
(* when it is prepared, which the caller sees, or fail when it is stepped, *)
(* which executeQuery() does not look at.                                  *)
(***************************************************************************)
EXTENDS Integers, Sequences, SequencesExt, FiniteSets

CONSTANTS Reporters,
          Machines,       \* what SysReporter may find: [sys, mounts, addrs]
          NoSystem,       \* a SystemInfo nothing was written to
          Devs,           \* devices whose path begins with a slash
          StartIds,       \* computer_id reporters may have in their config at the start
          MaxSessions,    \* bound: handshakes and system infos sent
          MaxCommands,    \* bound: rows of executor_table
          MaxFaults       \* bound: statements that fail

Info == [free : Nat, total : Nat, mount : STRING]

ASSUME StoreAssumption ==
    /\ \A mc \in Machines :
          /\ mc.sys \in [major : Nat, minor : Nat]
          /\ mc.mounts \in Seq(Range(mc.mounts))
          /\ \A m \in Range(mc.mounts) : m.info \in Info
          /\ 1 \in DOMAIN mc.addrs
          /\ \A a \in Range(mc.addrs) : a.name \in STRING /\ a.ip \in STRING
    /\ NoSystem \notin Machines /\ "" \in STRING
    /\ StartIds \subseteq Nat \cup {-1}
    /\ {MaxSessions, MaxCommands, MaxFaults} \subseteq Nat

VARIABLES computer_table,  \* rows by identifier, 1 onwards: the system
          storage_table,   \* rows by identifier: [computer, dev, info, connected]
          executor_table,  \* number of rows
          last_rowid,      \* sqlite3_last_insert_rowid() of the handle
          mem,             \* per reporter: its RmsComputer
          pc,              \* per reporter: where its thread is
          arg,             \* per reporter: its machine, as reported last
          todo,            \* per reporter: devices left of the loop
          rid,             \* per reporter: computer_id in its config file
          inserted,        \* per connection, history: row its INSERT made, or 0
          hit,             \* per reporter, history: when a statement of its failed
          cmd,             \* the terminal's runCommand(): the row it inserted, or 0
          cmd_ids,         \* history: <<row, identifier sent>> of the commands
          sessions, faults

db == <<computer_table, storage_table, executor_table, last_rowid>>
vars == <<computer_table, storage_table, executor_table, last_rowid, mem, pc, arg,
          todo, rid, inserted, hit, cmd, cmd_ids, sessions, faults>>

\* /proc/mounts, line by line.
Storage(mounts) ==
    LET read[n \in 0..Len(mounts)] ==
            IF n = 0 THEN <<>>
            ELSE IF mounts[n].dev \in Devs THEN Append(read[n - 1], mounts[n]) ELSE read[n - 1]
    IN  read[Len(mounts)]

\* SysReporter::report(). sys is what isSysInfoDirty() compares, [major, minor]
\* for all of it; a device is listed as often as it is mounted. Every interface
\* gets the address of the first entry of getifaddrs().
report(mc) ==
    [sys     |-> mc.sys,
     storage |-> Storage(mc.mounts),
     network |-> {[name |-> a.name, ip |-> mc.addrs[1].ip] :
                     a \in {b \in Range(mc.addrs) : b.inet}}]

Reported(r) == {m.dev : m \in Range(report(arg[r]).storage)}

\* What the last mount of a device says.
ReportedInfo(r, d) ==
    LET s == report(arg[r]).storage
    IN  s[CHOOSE k \in DOMAIN s : /\ s[k].dev = d
                                  /\ \A j \in DOMAIN s : s[j].dev = d => j <= k].info

\* RmsStorageInfo; known says that storage_info_ has an entry for the device.
NoDevice == [known |-> FALSE, id |-> -1, 
             info |-> [free |-> 0, total |-> 0, mount |-> ""], connected |-> FALSE, dirty |-> FALSE]

RmsComputer(id) == [id |-> id, sys |-> NoSystem, dirty |-> FALSE, nets |-> {},
                    devs |-> [d \in Devs |-> NoDevice]]

Threads == {"off", "fetch", "fetchStorage", "insert", "insertId", "dev", "devId",
            "update", "updateDevs", "return", "ready"}

StoredSystems == {NoSystem} \cup [major : Nat, minor : Nat]
Device == [known : BOOLEAN, id : Int, info : Info,
           connected : BOOLEAN, dirty : BOOLEAN]
Computer == [id : Int, sys : StoredSystems, dirty : BOOLEAN,
             nets : SUBSET [name : STRING, ip : STRING], devs : [Devs -> Device]]
StorageRow == [computer : Int, dev : Devs, info : Info, connected : BOOLEAN]

TypeOK ==
    /\ computer_table \in Seq(StoredSystems)
    /\ storage_table \in Seq(StorageRow)
    /\ executor_table \in 0..MaxCommands
    /\ last_rowid \in Nat
    /\ mem \in [Reporters -> Computer]
    /\ pc \in [Reporters -> Threads]
    /\ arg \in [Reporters -> Machines \cup {NoSystem}]
    /\ todo \in [Reporters -> SUBSET Devs]
    /\ rid \in [Reporters -> Int]
    /\ inserted \in [Reporters -> Nat]
    /\ hit \in [Reporters -> {"never", "before", "now"}]
    /\ cmd \in 0..MaxCommands
    /\ sessions \in 0..MaxSessions
    /\ faults \in 0..MaxFaults

Init ==
    /\ computer_table = <<>> /\ storage_table = <<>>
    /\ executor_table = 0 /\ last_rowid = 0
    /\ mem = [r \in Reporters |-> RmsComputer(-1)]
    /\ pc = [r \in Reporters |-> "off"]
    /\ arg = [r \in Reporters |-> NoSystem]
    /\ todo = [r \in Reporters |-> {}]
    /\ rid \in [Reporters -> StartIds]
    /\ inserted = [r \in Reporters |-> 0]
    /\ hit = [r \in Reporters |-> "never"]
    /\ cmd = 0 /\ cmd_ids = {}
    /\ sessions = 0 /\ faults = 0

Goto(r, l) == pc' = [pc EXCEPT ![r] = l]
Put(r, m) == mem' = [mem EXCEPT ![r] = m]

\* How executeQuery() ends: the statement ran, was refused, or failed unseen.
Outcome(r, o) ==
    IF o = "ok" THEN UNCHANGED <<faults, hit>>
    ELSE /\ faults < MaxFaults
         /\ faults' = faults + 1
         /\ hit' = [hit EXCEPT ![r] = "now"]

-----------------------------------------------------------------------------
(* The computer in memory *)

\* Variant: only the size of a known device is compared.
addStorageDeviceTotal(old, info) ==
    IF old.known
    THEN [old EXCEPT !.dirty = (old.info.total # info.total), !.info = info,
                     !.connected = TRUE]
    ELSE [known |-> TRUE, id |-> -1, info |-> info, connected |-> TRUE, dirty |-> TRUE]

\* addStorageDevice(): dirty says that this report differs from the last.
addStorageDevice(old, info) ==
    IF old.known
    THEN [old EXCEPT !.dirty = (old.info # info), !.info = info, !.connected = TRUE]
    ELSE [known |-> TRUE, id |-> -1, info |-> info, connected |-> TRUE, dirty |-> TRUE]

\* addNetworkDevice(), of every entry: an interface keeps every address it was
\* ever given.
addNetworkDevice(nets, devs) == nets \cup devs

\* setSysInfo(): devices that are not reported stay as they are.
setSysInfo(m, a) ==
    LET devs[n \in 0..Len(a.storage)] ==
            IF n = 0 THEN m.devs
            ELSE [devs[n - 1] EXCEPT ![a.storage[n].dev] =
                    addStorageDevice(@, a.storage[n].info)]
    IN  [id |-> m.id, sys |-> a.sys, dirty |-> (m.sys # a.sys),
         nets |-> addNetworkDevice(m.nets, a.network), devs |-> devs[Len(a.storage)]]

Known(m) == {d \in Devs : m.devs[d].known}
Dirty(m) == {d \in Devs : m.devs[d].dirty}

\* INSERT INTO computer_table writes the major version in both places.
AsInserted(s) == IF s = NoSystem THEN s ELSE [s EXCEPT !.minor = s.major]

\* Variant: free is unset until the device reports.
AsFetchedUnset(id) == [known |-> TRUE, id |-> id,
                       info |-> [storage_table[id].info EXCEPT !.free = -1],
                       connected |-> FALSE, dirty |-> FALSE]

\* What SELECT brings back of a device: free is not read, connected is assumed
\* false.
AsFetched(id) == [known |-> TRUE, id |-> id,
                  info |-> [storage_table[id].info EXCEPT !.free = 0],
                  connected |-> FALSE, dirty |-> FALSE]

Fetched(m) ==
    [m EXCEPT !.devs = [d \in Devs |->
        LET ids == {k \in DOMAIN storage_table : /\ storage_table[k].computer = m.id
                                                 /\ storage_table[k].dev = d}
        IN  IF ids = {} THEN m.devs[d]
            ELSE AsFetched(CHOOSE k \in ids : \A j \in ids : k <= j)]]

-----------------------------------------------------------------------------
(* handshake() and sendSysInfo() *)

\* setSysInfo(), then updateDB(), which does nothing without an identifier.
ThenUpdate(r, m, a) ==
    LET n == setSysInfo(m, a) IN
    /\ Put(r, n)
    /\ todo' = [todo EXCEPT ![r] = Dirty(n)]
    /\ Goto(r, IF m.id = -1 THEN "return" ELSE "update")

Handshake(r, mc) ==
    /\ pc[r] = "off"
    /\ sessions < MaxSessions
    /\ sessions' = sessions + 1
    /\ arg' = [arg EXCEPT ![r] = mc]
    /\ IF rid[r] # -1
       THEN Put(r, RmsComputer(rid[r])) /\ Goto(r, "fetch")
       ELSE Put(r, setSysInfo(RmsComputer(-1), report(mc))) /\ Goto(r, "insert")
    /\ inserted' = [inserted EXCEPT ![r] = 0]
    /\ hit' = [hit EXCEPT ![r] = IF @ = "now" THEN "before" ELSE @]
    /\ UNCHANGED <<db, todo, rid, cmd, cmd_ids, faults>>

SendSysInfo(r, mc) ==
    /\ pc[r] = "ready"
    /\ sessions < MaxSessions
    /\ sessions' = sessions + 1
    /\ arg' = [arg EXCEPT ![r] = mc]
    /\ ThenUpdate(r, mem[r], report(mc))
    /\ UNCHANGED <<db, rid, inserted, hit, cmd, cmd_ids, faults>>

\* Variant: an identifier that is not in the table is taken as it is.
FetchComputerTrusts(r, o) ==
    /\ pc[r] = "fetch"
    /\ Outcome(r, o)
    /\ IF o = "ok" /\ mem[r].id \in DOMAIN computer_table
       THEN /\ Put(r, [mem[r] EXCEPT !.sys = computer_table[mem[r].id]])
            /\ Goto(r, "fetchStorage")
            /\ UNCHANGED todo
       ELSE ThenUpdate(r, mem[r], report(arg[r]))
    /\ UNCHANGED <<db, arg, rid, inserted, cmd, cmd_ids, sessions>>

\* getFromDB(): an unknown identifier, or a SELECT that failed unseen, adds
\* the computer anew before the system info is set.
FetchComputer(r, o) ==
    /\ pc[r] = "fetch"
    /\ Outcome(r, o)
    /\ CASE o = "refused" -> ThenUpdate(r, mem[r], report(arg[r]))
         [] o = "ok" /\ mem[r].id \in DOMAIN computer_table ->
                /\ Put(r, [mem[r] EXCEPT !.sys = computer_table[mem[r].id]])
                /\ Goto(r, "fetchStorage")
                /\ UNCHANGED todo
         [] OTHER -> Goto(r, "insert") /\ UNCHANGED <<mem, todo>>
    /\ UNCHANGED <<db, arg, rid, inserted, cmd, cmd_ids, sessions>>

FetchStorage(r, o) ==
    /\ pc[r] = "fetchStorage"
    /\ Outcome(r, o)
    /\ ThenUpdate(r, IF o = "ok" THEN Fetched(mem[r]) ELSE mem[r], report(arg[r]))
    /\ UNCHANGED <<db, arg, rid, inserted, cmd, cmd_ids, sessions>>

\* The end of addToDB(): the caller goes on with what it has.
Added(r, m) ==
    IF rid[r] = -1 THEN Put(r, m) /\ Goto(r, "return") /\ UNCHANGED todo
                   ELSE ThenUpdate(r, m, report(arg[r]))

\* addToDB(): INSERT INTO computer_table.
InsertComputer(r, o) ==
    /\ pc[r] = "insert"
    /\ Outcome(r, o)
    /\ IF o = "ok"
       THEN /\ computer_table' = Append(computer_table, AsInserted(mem[r].sys))
            /\ last_rowid' = Len(computer_table) + 1
            /\ inserted' = [inserted EXCEPT ![r] = Len(computer_table) + 1]
       ELSE UNCHANGED <<computer_table, last_rowid, inserted>>
    /\ IF o = "refused" THEN Added(r, mem[r])
                        ELSE Goto(r, "insertId") /\ UNCHANGED <<mem, todo>>
    /\ UNCHANGED <<storage_table, executor_table, arg, rid, cmd, cmd_ids, sessions>>

\* setComputerId(last_insert_rowid), then the devices.
ReadComputerId(r) ==
    /\ pc[r] = "insertId"
    /\ Put(r, [mem[r] EXCEPT !.id = last_rowid])
    /\ todo' = [todo EXCEPT ![r] = Known(mem[r])]
    /\ Goto(r, "dev")
    /\ UNCHANGED <<db, arg, rid, inserted, hit, cmd, cmd_ids, sessions, faults>>

\* The device the loop is at.
At(r) == CHOOSE d \in todo[r] : TRUE

\* INSERT INTO storage_table, one device.
InsertDevice(r, o) ==
    /\ pc[r] = "dev"
    /\ todo[r] # {}
    /\ Outcome(r, o)
    /\ IF o = "ok"
       THEN /\ storage_table' = Append(storage_table,
                   [computer |-> mem[r].id, dev |-> At(r),
                    info |-> mem[r].devs[At(r)].info, connected |-> TRUE])
            /\ last_rowid' = Len(storage_table) + 1
       ELSE UNCHANGED <<storage_table, last_rowid>>
    /\ IF o = "refused"
       THEN /\ Put(r, [mem[r] EXCEPT !.devs[At(r)].dirty = TRUE])
            /\ todo' = [todo EXCEPT ![r] = @ \ {At(r)}]
            /\ UNCHANGED pc
       ELSE Goto(r, "devId") /\ UNCHANGED <<mem, todo>>
    /\ UNCHANGED <<computer_table, executor_table, arg, rid, inserted, cmd, cmd_ids,
                   sessions>>

\* Variant: the device takes the identifier of the computer.
ReadDeviceIdOfComputer(r) ==
    /\ pc[r] = "devId"
    /\ Put(r, [mem[r] EXCEPT !.devs[At(r)].id = mem[r].id,
                             !.devs[At(r)].dirty = FALSE])
    /\ todo' = [todo EXCEPT ![r] = @ \ {At(r)}]
    /\ Goto(r, "dev")
    /\ UNCHANGED <<db, arg, rid, inserted, hit, cmd, cmd_ids, sessions, faults>>

ReadDeviceId(r) ==
    /\ pc[r] = "devId"
    /\ Put(r, [mem[r] EXCEPT !.devs[At(r)].id = last_rowid,
                             !.devs[At(r)].dirty = FALSE])
    /\ todo' = [todo EXCEPT ![r] = @ \ {At(r)}]
    /\ Goto(r, "dev")
    /\ UNCHANGED <<db, arg, rid, inserted, hit, cmd, cmd_ids, sessions, faults>>

InsertedAll(r) ==
    /\ pc[r] = "dev"
    /\ todo[r] = {}
    /\ Added(r, mem[r])
    /\ UNCHANGED <<db, arg, rid, inserted, hit, cmd, cmd_ids, sessions, faults>>

\* Variant: updateDB() writes what the row was inserted with.
UpdateComputerAsInserted(r, o) ==
    /\ pc[r] = "update"
    /\ Outcome(r, o)
    /\ Goto(r, "updateDevs")
    /\ computer_table' = IF o = "ok" /\ mem[r].dirty /\ mem[r].id \in DOMAIN computer_table
                         THEN [computer_table EXCEPT ![mem[r].id] = AsInserted(mem[r].sys)]
                         ELSE computer_table
    /\ Put(r, [mem[r] EXCEPT !.dirty = (@ /\ o = "refused")])
    /\ UNCHANGED <<storage_table, executor_table, last_rowid, arg, todo, rid, inserted,
                   cmd, cmd_ids, sessions>>

\* updateDB(): UPDATE computer_table, if the system changed.
UpdateComputer(r, o) ==
    /\ pc[r] = "update"
    /\ mem[r].dirty \/ o = "ok"
    /\ Outcome(r, o)
    /\ Goto(r, "updateDevs")
    /\ computer_table' = IF o = "ok" /\ mem[r].dirty /\ mem[r].id \in DOMAIN computer_table
                         THEN [computer_table EXCEPT ![mem[r].id] = mem[r].sys]
                         ELSE computer_table
    /\ Put(r, [mem[r] EXCEPT !.dirty = (@ /\ o = "refused")])
    /\ UNCHANGED <<storage_table, executor_table, last_rowid, arg, todo, rid, inserted,
                   cmd, cmd_ids, sessions>>

\* UPDATE storage_table, one device that changed. No row has the identifier -1.
UpdateDevice(r, o) ==
    LET dev == mem[r].devs[At(r)] IN
    /\ pc[r] = "updateDevs"
    /\ todo[r] # {}
    /\ Outcome(r, o)
    /\ storage_table' = IF o = "ok" /\ dev.id \in DOMAIN storage_table
                        THEN [storage_table EXCEPT ![dev.id].info = dev.info,
                                                   ![dev.id].connected = dev.connected]
                        ELSE storage_table
    /\ Put(r, [mem[r] EXCEPT !.devs[At(r)].dirty = (o = "refused")])
    /\ todo' = [todo EXCEPT ![r] = @ \ {At(r)}]
    /\ UNCHANGED <<computer_table, executor_table, last_rowid, pc, arg, rid, inserted,
                   cmd, cmd_ids, sessions>>

UpdatedAll(r) ==
    /\ pc[r] = "updateDevs"
    /\ todo[r] = {}
    /\ Goto(r, "return")
    /\ UNCHANGED <<db, mem, arg, todo, rid, inserted, hit, cmd, cmd_ids, sessions, faults>>

\* The identifier is answered and the reporter saves it, unless the connection
\* was lost. sendSysInfo() answers nothing: the identifier has not changed.
Return(r) ==
    /\ pc[r] = "return"
    /\ \/ rid' = [rid EXCEPT ![r] = mem[r].id] /\ Goto(r, "ready")
       \/ UNCHANGED rid /\ Goto(r, "off")
    /\ UNCHANGED <<db, mem, arg, todo, inserted, hit, cmd, cmd_ids, sessions, faults>>

Disconnect(r) ==
    /\ pc[r] = "ready"
    /\ Goto(r, "off")
    /\ UNCHANGED <<db, mem, arg, todo, rid, inserted, hit, cmd, cmd_ids, sessions, faults>>

-----------------------------------------------------------------------------
(* The terminal: RmsClient::runCommand() *)

\* The terminal has found a client that is connected.
InsertExecutor ==
    /\ cmd = 0
    /\ \E r \in Reporters : pc[r] = "ready"
    /\ executor_table < MaxCommands
    /\ executor_table' = executor_table + 1
    /\ last_rowid' = executor_table + 1
    /\ cmd' = executor_table + 1
    /\ UNCHANGED <<computer_table, storage_table, mem, pc, arg, todo, rid, inserted, hit,
                   cmd_ids, sessions, faults>>

ReadExecutorId ==
    /\ cmd # 0
    /\ cmd_ids' = cmd_ids \cup {<<cmd, last_rowid>>}
    /\ cmd' = 0
    /\ UNCHANGED <<db, mem, pc, arg, todo, rid, inserted, hit, sessions, faults>>

-----------------------------------------------------------------------------
Statement(r, o) ==
    \/ FetchComputer(r, o) \/ FetchStorage(r, o)
    \/ InsertComputer(r, o) \/ InsertDevice(r, o)
    \/ UpdateComputer(r, o) \/ UpdateDevice(r, o)

Begin(r) == \E mc \in Machines : Handshake(r, mc) \/ SendSysInfo(r, mc)

Continue(r) ==
    \/ \E o \in {"ok", "refused", "failed"} : Statement(r, o)
    \/ ReadComputerId(r) \/ ReadDeviceId(r)
    \/ InsertedAll(r) \/ UpdatedAll(r) \/ Return(r)

Idle(r) == pc[r] \in {"off", "ready"}

\* All handshakes are done that the bound allows.
Over == /\ sessions = MaxSessions /\ cmd = 0
        /\ \A r \in Reporters : pc[r] = "off"
        /\ UNCHANGED vars

Next ==
    \/ \E r \in Reporters : Begin(r) \/ Continue(r) \/ Disconnect(r)
    \/ InsertExecutor
    \/ ReadExecutorId
    \/ Over

Spec == Init /\ [][Next]_vars

\* One call at a time: what the INSERT of one thread left is read before
\* another thread inserts.
SerialNext ==
    \/ \E r \in Reporters : /\ cmd = 0
                            /\ \A q \in Reporters \ {r} : Idle(q)
                            /\ Begin(r) \/ Continue(r) \/ Disconnect(r)
    \/ (\A r \in Reporters : Idle(r)) /\ InsertExecutor
    \/ ReadExecutorId
    \/ Over

SerialSpec == Init /\ [][SerialNext]_vars

-----------------------------------------------------------------------------
(* Properties *)

Ready(r) == pc[r] = "ready"

\* No other reporter goes by the identifier or has had a statement fail: either
\* may have written to this computer's rows.
Alone(r) == \A q \in Reporters \ {r} : /\ hit[q] = "never"
                                       /\ mem[r].id \notin {mem[q].id, rid[q]}

\* Connected, and no statement of this connection failed: one before it may.
Sound(r) == Ready(r) /\ hit[r] # "now" /\ Alone(r)

\* Two connected reporters are different computers: handshake() gave each an
\* identifier of its own, as long as no statement failed.
IdentifiersDistinct == faults = 0 =>
    \A r, q \in Reporters : Ready(r) /\ Ready(q) /\ mem[r].id = mem[q].id => r = q

\* The identifier a command is sent with is the row of executor_table that its
\* result will be written to.
CommandIdOwn == \A c \in cmd_ids : c[1] = c[2]

\* storage_info_ and storage_table agree on which row is whose: a device's row
\* is of this computer and this device, and unless a statement failed no device
\* has two rows.
RowsOwned ==
    /\ \A r \in Reporters : Sound(r) => \A d \in Devs :
          LET k == mem[r].devs[d].id IN
          k # -1 => /\ k \in DOMAIN storage_table
                    /\ storage_table[k].computer = mem[r].id
                    /\ storage_table[k].dev = d
    /\ faults = 0 => \A j, k \in DOMAIN storage_table :
          /\ storage_table[j].computer = storage_table[k].computer
          /\ storage_table[j].dev = storage_table[k].dev
          => j = k

\* The row of a connected computer holds what its reporter sent last, as INSERT
\* or, from the second report on, as UPDATE writes it. What statements of earlier
\* connections failed to write is repaired.
SystemStored ==
    \A r \in Reporters : Sound(r) =>
        /\ mem[r].id \in DOMAIN computer_table
        /\ computer_table[mem[r].id] \in
             IF inserted[r] = mem[r].id THEN {arg[r].sys, AsInserted(arg[r].sys)}
                                        ELSE {arg[r].sys}

\* A device with a row is stored as it was reported, except one reported full.
DevicesStored ==
    \A r \in Reporters : Sound(r) => \A d \in Reported(r) :
        LET dev == mem[r].devs[d] IN
        dev.id # -1 => \/ storage_table[dev.id].info = ReportedInfo(r, d)
                       \/ ReportedInfo(r, d).free = 0

\* Every device the reporter sent is in storage_table: a drive that was added
\* since the last handshake too.
AddedDeviceStored ==
    \A r \in Reporters : Ready(r) /\ mem[r].id # -1 =>
        \A d \in Reported(r) :
            \E k \in DOMAIN storage_table : /\ storage_table[k].computer = mem[r].id
                                            /\ storage_table[k].dev = d

\* A drive that the reporter does not list any more does not currently exist.
GoneIsDisconnected ==
    \A r \in Reporters : Ready(r) => \A d \in Devs \ Reported(r) : ~mem[r].devs[d].connected

\* The server lists an interface with an address that the interface has.
AddressIsItsOwn ==
    \A r \in Reporters : Ready(r) => \A n \in mem[r].nets :
        \E a \in Range(arg[r].addrs) : a.name = n.name /\ a.ip = n.ip

\* A computer that already has an identifier keeps it: addToDB() gives none to
\* one that is provisioned.
ProvisionedKeepsId ==
    [][\A r \in Reporters : mem[r].id # -1 /\ pc[r] # "off" => mem'[r].id = mem[r].id]_vars
=============================================================================
