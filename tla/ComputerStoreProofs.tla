------------------------ MODULE ComputerStoreProofs ------------------------
(***************************************************************************)
(* Theorems about ComputerStore: what is in memory and in the tables, and  *)
(* with one call at a time, whose identifiers and rows are whose.          *)
(***************************************************************************)
EXTENDS ComputerStore, WellFoundedInduction, TLAPS

-----------------------------------------------------------------------------
(* Inductive invariants *)

\* A device that storage_info_ does not have has no row.
Devices == {x \in Device : ~x.known => x.id = -1}
Computers == [id : Int, sys : StoredSystems, dirty : BOOLEAN,
              nets : SUBSET [name : STRING, ip : STRING], devs : [Devs -> Devices]]

TablesTyped ==
    /\ computer_table \in Seq(StoredSystems)
    /\ storage_table \in Seq(StorageRow)
    /\ executor_table \in 0..MaxCommands
    /\ last_rowid \in Nat
    /\ cmd \in 0..MaxCommands

CountsTyped ==
    /\ inserted \in [Reporters -> Nat]
    /\ hit \in [Reporters -> {"never", "before", "now"}]
    /\ sessions \in 0..MaxSessions
    /\ faults \in 0..MaxFaults

\* A thread in a call has the report it was called with, and one that reads the
\* identifier of a device has that device.
ThreadsTyped ==
    /\ mem \in [Reporters -> Computers]
    /\ pc \in [Reporters -> Threads]
    /\ arg \in [Reporters -> Machines \cup {NoSystem}]
    /\ todo \in [Reporters -> SUBSET Devs]
    /\ rid \in [Reporters -> Int]
    /\ \A r \in Reporters : /\ pc[r] # "off" => arg[r] \in Machines
                            /\ pc[r] = "devId" => todo[r] # {}
                            /\ pc[r] \in {"dev", "devId"} =>
                                  \A d \in todo[r] : mem[r].devs[d].known

StoreTypes == TablesTyped /\ CountsTyped /\ ThreadsTyped

\* One call at a time.
OneCall ==
    /\ \A r, q \in Reporters : r # q => Idle(r) \/ Idle(q)
    /\ cmd # 0 => \A r \in Reporters : Idle(r)

\* A handshake makes one row at most.
RowPerSession ==
    /\ Len(computer_table) <= sessions
    /\ \A r \in Reporters : pc[r] \in {"fetch", "insert"} => Len(computer_table) < sessions

HasRow == {"fetchStorage", "dev", "devId", "update", "updateDevs", "return"}
Rows == 1..Len(computer_table)

\* As long as no statement failed: whose identifier is whose.
IdOf(r) ==
    /\ pc[r] \in {"fetch", "insert"} => mem[r].id = rid[r]
    /\ pc[r] = "insert" => rid[r] \notin Rows
    /\ pc[r] = "insertId" => last_rowid = Len(computer_table) /\ last_rowid \in Rows
                             /\ \A q \in Reporters : rid[q] # last_rowid
    /\ pc[r] \in HasRow => mem[r].id \in Rows
                           /\ \A q \in Reporters : q # r => rid[q] # mem[r].id
    /\ pc[r] = "ready" => mem[r].id = rid[r] /\ rid[r] \in Rows

IdentifiersOwned == faults = 0 =>
    /\ \A r \in Reporters : rid[r] \in {-1} \cup Rows \/ rid[r] > MaxSessions
    /\ \A r, q \in Reporters : rid[r] = rid[q] /\ rid[r] \in Rows => r = q
    /\ \A r \in Reporters : IdOf(r)

\* The row k is of this device of this computer.
RowOf(k, id, d) ==
    /\ k \in 1..Len(storage_table)
    /\ storage_table[k].computer = id
    /\ storage_table[k].dev = d

\* Devices go by their own rows, unless a statement of the connection failed.
DevicesOwned ==
    \A r \in Reporters :
        /\ pc[r] \in {"fetch", "insert", "insertId"} => \A d \in Devs : mem[r].devs[d].id = -1
        /\ hit[r] # "now" =>
              /\ \A d \in Devs : mem[r].devs[d].id # -1 =>
                                    RowOf(mem[r].devs[d].id, mem[r].id, d)
              /\ pc[r] = "devId" => RowOf(last_rowid, mem[r].id, At(r))

Rowless(id, d) == \A k \in 1..Len(storage_table) : ~RowOf(k, id, d)

\* As long as no statement failed: no device has two rows, since those to be
\* inserted have none.
RowsSingle == faults = 0 =>
    /\ \A k \in 1..Len(storage_table) : storage_table[k].computer \in Rows
    /\ \A j, k \in 1..Len(storage_table) :
          /\ storage_table[j].computer = storage_table[k].computer
          /\ storage_table[j].dev = storage_table[k].dev
          => j = k
    /\ \A r \in Reporters :
          /\ pc[r] = "insertId" => \A k \in 1..Len(storage_table) :
                                      storage_table[k].computer # Len(computer_table)
          /\ pc[r] = "dev" => \A d \in todo[r] : Rowless(mem[r].id, d)
          /\ pc[r] = "devId" => \A d \in todo[r] : d # At(r) => Rowless(mem[r].id, d)

\* The row of a computer holds what its reporter sent last.
Written(r) == computer_table[mem[r].id] \in
                 IF inserted[r] = mem[r].id THEN {arg[r].sys, AsInserted(arg[r].sys)}
                                            ELSE {arg[r].sys}

\* Another reporter may have written to it: it has had a statement fail, or goes
\* by the same identifier.
Disturbed(r) == \E q \in Reporters : q # r /\ (hit[q] # "never" \/ rid[q] = mem[r].id)

\* No other connected computer goes by k, but one of a connection that failed.
Private(r, k) == \A q \in Reporters : q # r /\ Ready(q) /\ hit[q] # "now" => mem[q].id # k

\* An identifier that has a row is kept, unless a statement failed.
KnowsId(r) ==
    /\ pc[r] \in {"fetch", "insert", "ready"} => mem[r].id = rid[r]
    /\ hit[r] = "never" =>
          /\ pc[r] = "insert" => rid[r] \notin Rows
          /\ pc[r] = "insertId" => (rid[r] \in Rows => rid[r] = Len(computer_table))
          /\ pc[r] \in HasRow => (rid[r] \in Rows => rid[r] = mem[r].id)

\* How far a connection is with writing the system, unless it had a statement fail.
SystemOf(r) == hit[r] # "now" =>
    /\ pc[r] = "fetch" => mem[r].sys = NoSystem /\ rid[r] # -1
    /\ pc[r] \in {"insert", "insertId", "dev", "devId"} =>
          mem[r].sys = IF rid[r] = -1 THEN arg[r].sys ELSE NoSystem
    /\ pc[r] = "insertId" =>
          /\ last_rowid = Len(computer_table) /\ last_rowid \in Rows
          /\ inserted[r] = last_rowid /\ Private(r, last_rowid)
          /\ computer_table[last_rowid] = AsInserted(mem[r].sys)
    /\ pc[r] \in HasRow \cup {"ready"} => mem[r].id \in Rows
    /\ pc[r] \in HasRow => rid[r] = mem[r].id \/ Private(r, mem[r].id)
    /\ pc[r] = "fetchStorage" => mem[r].sys = computer_table[mem[r].id]
    /\ pc[r] \in {"dev", "devId"} =>
          /\ inserted[r] = mem[r].id
          /\ computer_table[mem[r].id] = AsInserted(mem[r].sys)
    /\ pc[r] \in {"update", "updateDevs", "return", "ready"} => mem[r].sys = arg[r].sys
    /\ pc[r] = "update" /\ ~mem[r].dirty => Written(r) \/ Disturbed(r)
    /\ pc[r] \in {"updateDevs", "return", "ready"} => Written(r) \/ Disturbed(r)

SystemsKept == \A r \in Reporters : KnowsId(r) /\ SystemOf(r)

\* The last of the first n lines is k.
IsLast(s, n, d, k) == /\ k \in 1..n /\ s[k].dev = d
                      /\ \A j \in 1..n : s[j].dev = d => j <= k

\* A computer in memory says of its devices what the last lines do.
Told(mc, m) == LET s == report(mc).storage IN
    \A d \in Devs, k \in 1..Len(s) : IsLast(s, Len(s), d, k) => m.devs[d].info = s[k].info

\* The row of a device says what memory says, or the device was reported full.
Says(r, d) == \/ storage_table[mem[r].devs[d].id].info = mem[r].devs[d].info
              \/ mem[r].devs[d].info.free = 0

\* How far a connection is with writing the devices, unless it had a statement fail.
\* What todo has is not written yet.
DevicesOf(r) == hit[r] # "now" =>
    /\ pc[r] = "fetchStorage" => \A d \in Devs : mem[r].devs[d].id = -1
    /\ pc[r] \in {"dev", "devId"} =>
          \A d \in Devs : /\ d \in todo[r] => mem[r].devs[d].id = -1
                          /\ d \notin todo[r] /\ mem[r].devs[d].id # -1 => Says(r, d)
    /\ pc[r] = "devId" => storage_table[last_rowid].info = mem[r].devs[At(r)].info
    /\ pc[r] \in {"update", "updateDevs"} =>
          \A d \in Devs : d \notin todo[r] /\ mem[r].devs[d].id # -1 => Says(r, d) \/ Disturbed(r)
    /\ pc[r] \in {"return", "ready"} =>
          \A d \in Devs : mem[r].devs[d].id # -1 => Says(r, d) \/ Disturbed(r)
    /\ \/ pc[r] \in {"update", "updateDevs", "return", "ready"}
       \/ pc[r] \in {"insert", "insertId", "dev", "devId"} /\ rid[r] = -1
       => Told(arg[r], mem[r])

DevicesKept == \A r \in Reporters : DevicesOf(r)

-----------------------------------------------------------------------------
(* What is reported *)

\* A set of naturals that is not empty has a least element.
LEMMA LeastElement ==
    ASSUME NEW T, T \subseteq Nat, T # {}
    PROVE  \E x \in T : \A y \in T : x <= y
<1>1. PICK x \in T : \A y \in T : <<y, x>> \notin OpToRel(<, Nat)
      BY NatLessThanWellFounded, WFMin
<1>2. \A y \in T : ~(y < x)
      BY <1>1 DEF OpToRel
<1> QED BY <1>2

ReadRound(mounts, s, n) ==
    IF n = 0 THEN <<>>
    ELSE IF mounts[n].dev \in Devs THEN Append(s[n - 1], mounts[n]) ELSE s[n - 1]

\* /proc/mounts can be read to its end.
LEMMA ReadRuns ==
    ASSUME NEW mounts, Len(mounts) \in Nat
    PROVE  \A m \in 0..Len(mounts) : \E s : s = [n \in 0..m |-> ReadRound(mounts, s, n)]
<1> DEFINE Runs(m) == \E s : s = [n \in 0..m |-> ReadRound(mounts, s, n)]
           T == {m \in 0..Len(mounts) : ~Runs(m)}
<1>1. SUFFICES ASSUME T # {} PROVE FALSE
      BY <1>1
<1>2. PICK m \in T : \A y \in T : m <= y
  <2>1. T \subseteq Nat
        OBVIOUS
  <2> HIDE DEF T
  <2> QED BY <1>1, <2>1, LeastElement
<1>3. m \in 0..Len(mounts) /\ ~Runs(m)
      OBVIOUS
<1>4. CASE m = 0
  <2> DEFINE g == [n \in 0..0 |-> <<>>]
  <2>1. g = [n \in 0..0 |-> ReadRound(mounts, g, n)]
        BY DEF ReadRound
  <2> QED BY <1>3, <1>4, <2>1
<1>5. CASE m # 0
  <2>1. m - 1 \in 0..Len(mounts) /\ m - 1 \notin T
        BY <1>2, <1>3, <1>5
  <2>2. PICK s : s = [n \in 0..(m - 1) |-> ReadRound(mounts, s, n)]
        BY <2>1
  <2> DEFINE g == [n \in 0..m |-> IF n = m THEN ReadRound(mounts, s, m) ELSE s[n]]
  <2>3. \A n \in 0..m : ReadRound(mounts, g, n) = ReadRound(mounts, s, n)
        BY <1>3, <1>5 DEF ReadRound
  <2>4. \A n \in 0..m : g[n] = ReadRound(mounts, g, n)
    <3>1. \A n \in 0..m : n # m => n \in 0..(m - 1)
          BY <1>3
    <3>2. \A n \in 0..(m - 1) : s[n] = ReadRound(mounts, s, n)
          BY <2>2
    <3> QED BY <2>3, <3>1, <3>2
  <2>5. g = [n \in 0..m |-> ReadRound(mounts, g, n)]
        BY <2>4
  <2> QED BY <1>3, <2>5
<1> QED BY <1>4, <1>5

\* The lines of /proc/mounts that are devices.
Mounted(mounts) == {m \in Range(mounts) : m.dev \in Devs}

\* Only lines of devices are read.
LEMMA StorageMounted ==
    ASSUME NEW mounts, mounts \in Seq(Range(mounts))
    PROVE  Storage(mounts) \in Seq(Mounted(mounts))
<1> DEFINE Follows(s) == s = [n \in 0..Len(mounts) |-> ReadRound(mounts, s, n)]
           read == CHOOSE s : Follows(s)
           M == Mounted(mounts)
<1>1. Storage(mounts) = read[Len(mounts)]
      BY DEF Storage, ReadRound
<1>2. Len(mounts) \in Nat /\ Len(mounts) \in 0..Len(mounts) /\ DOMAIN mounts = 1..Len(mounts)
      OBVIOUS
<1>3. \E s : Follows(s)
      BY <1>2, ReadRuns
<1>4. Follows(read)
      BY <1>3
<1>5. \A n \in 0..Len(mounts) : read[n] = ReadRound(mounts, read, n)
      BY <1>4
<1> HIDE DEF read, Follows, M
<1> DEFINE Claim(n) == read[n] \in Seq(M)
           T == {n \in 0..Len(mounts) : ~Claim(n)}
<1>6. ASSUME T # {} PROVE FALSE
  <2>1. T \subseteq Nat
        BY <1>2
  <2>2. PICK m \in T : \A y \in T : m <= y
    <3> HIDE DEF T
    <3> QED BY <1>6, <2>1, LeastElement
  <2>3. m \in 0..Len(mounts) /\ ~Claim(m)
        OBVIOUS
  <2>4. m # 0
    <3>1. SUFFICES ASSUME m = 0 PROVE Claim(m)
          BY <2>3
    <3>2. read[m] = <<>>
          BY <1>5, <2>3, <3>1 DEF ReadRound
    <3> QED BY <3>2
  <2>5. m - 1 \in 0..Len(mounts) /\ m - 1 \notin T /\ m \in DOMAIN mounts
        BY <1>2, <2>2, <2>3, <2>4
  <2> DEFINE old == read[m - 1]
             l == mounts[m]
  <2>6. old \in Seq(M)
        BY <2>5
  <2>7. (l \in M /\ read[m] = Append(old, l)) \/ read[m] = old
        BY <1>5, <2>3, <2>4, <2>5 DEF ReadRound, M, Mounted, Range
  <2> HIDE DEF old, l
  <2>8. l \in M => Append(old, l) \in Seq(M)
        BY <2>6
  <2> QED BY <2>3, <2>6, <2>7, <2>8
<1>7. Claim(Len(mounts))
      BY <1>2, <1>6
<1> QED BY <1>1, <1>7 DEF M

Networks == [name : STRING, ip : STRING]
Mounts == {m \in UNION {Range(mc.mounts) : mc \in Machines} : m.dev \in Devs /\ m.info \in Info}

\* A report is of devices and addresses.
LEMMA ReportTyped ==
    ASSUME NEW mc \in Machines
    PROVE  /\ report(mc).sys \in [major : Nat, minor : Nat]
           /\ report(mc).storage \in Seq(Mounts)
           /\ report(mc).network \subseteq Networks
           /\ report(mc).sys = mc.sys
<1>1. /\ mc.sys \in [major : Nat, minor : Nat] /\ mc.mounts \in Seq(Range(mc.mounts))
      /\ \A m \in Range(mc.mounts) : m.info \in Info
      BY StoreAssumption
<1>2. 1 \in DOMAIN mc.addrs /\ \A a \in Range(mc.addrs) : a.name \in STRING /\ a.ip \in STRING
      BY StoreAssumption
<1>3. Storage(mc.mounts) \in Seq(Mounts)
  <2>1. Mounted(mc.mounts) \subseteq Mounts
        BY <1>1 DEF Mounted, Mounts
  <2>2. Storage(mc.mounts) \in Seq(Mounted(mc.mounts))
        BY <1>1, StorageMounted
  <2>3. \A S, U, x : S \subseteq U /\ x \in Seq(S) => x \in Seq(U)
        OBVIOUS
  <2> QED BY <2>1, <2>2, <2>3
<1>4. mc.addrs[1] \in Range(mc.addrs)
      BY <1>2 DEF Range
<1>5. {[name |-> a.name, ip |-> mc.addrs[1].ip] : a \in {b \in Range(mc.addrs) : b.inet}}
         \subseteq Networks
      BY <1>2, <1>4 DEF Networks
<1> QED BY <1>1, <1>3, <1>5 DEF report

\* addStorageDevice() leaves a device its row, and gives none to a new one.
LEMMA DeviceKept ==
    ASSUME NEW old \in Devices, NEW info \in Info
    PROVE  addStorageDevice(old, info) \in Devices /\ addStorageDevice(old, info).id = old.id
<1>1. CASE old.known
  <2> DEFINE new == [old EXCEPT !.dirty = (old.info # info), !.info = info, !.connected = TRUE]
  <2>1. addStorageDevice(old, info) = new
        BY <1>1 DEF addStorageDevice
  <2>2. new \in Device /\ new.id = old.id /\ new.known = old.known
        BY DEF Devices, Device
  <2> HIDE DEF new
  <2> QED BY <1>1, <2>1, <2>2 DEF Devices
<1>2. CASE ~old.known
  <2>1. addStorageDevice(old, info) = [known |-> TRUE, id |-> -1, info |-> info,
                                       connected |-> TRUE, dirty |-> TRUE]
        BY <1>2 DEF addStorageDevice
  <2>2. old.id = -1
        BY <1>2 DEF Devices
  <2> QED BY <2>1, <2>2 DEF Devices, Device
<1> QED BY <1>1, <1>2

AddRound(devs, storage, s, n) ==
    IF n = 0 THEN devs
    ELSE [s[n - 1] EXCEPT ![storage[n].dev] = addStorageDevice(@, storage[n].info)]

\* The loop of setSysInfo() can be run to its end.
LEMMA AddRuns ==
    ASSUME NEW devs, NEW storage, Len(storage) \in Nat
    PROVE  \A m \in 0..Len(storage) :
              \E s : s = [n \in 0..m |-> AddRound(devs, storage, s, n)]
<1> DEFINE Runs(m) == \E s : s = [n \in 0..m |-> AddRound(devs, storage, s, n)]
           T == {m \in 0..Len(storage) : ~Runs(m)}
<1>1. SUFFICES ASSUME T # {} PROVE FALSE
      BY <1>1
<1>2. PICK m \in T : \A y \in T : m <= y
  <2>1. T \subseteq Nat
        OBVIOUS
  <2> HIDE DEF T
  <2> QED BY <1>1, <2>1, LeastElement
<1>3. m \in 0..Len(storage) /\ ~Runs(m)
      OBVIOUS
<1>4. CASE m = 0
  <2> DEFINE g == [n \in 0..0 |-> devs]
  <2>1. g = [n \in 0..0 |-> AddRound(devs, storage, g, n)]
        BY DEF AddRound
  <2> QED BY <1>3, <1>4, <2>1
<1>5. CASE m # 0
  <2>1. m - 1 \in 0..Len(storage) /\ m - 1 \notin T
        BY <1>2, <1>3, <1>5
  <2>2. PICK s : s = [n \in 0..(m - 1) |-> AddRound(devs, storage, s, n)]
        BY <2>1
  <2> DEFINE g == [n \in 0..m |-> IF n = m THEN AddRound(devs, storage, s, m) ELSE s[n]]
  <2>3. \A n \in 0..m : AddRound(devs, storage, g, n) = AddRound(devs, storage, s, n)
    <3>1. \A n \in 0..m : n # 0 => g[n - 1] = s[n - 1]
          BY <1>3
    <3> HIDE DEF g
    <3> QED BY <3>1 DEF AddRound
  <2>4. \A n \in 0..m : g[n] = AddRound(devs, storage, g, n)
    <3>1. \A n \in 0..m : n # m => n \in 0..(m - 1)
          BY <1>3
    <3>2. \A n \in 0..(m - 1) : s[n] = AddRound(devs, storage, s, n)
          BY <2>2
    <3> QED BY <2>3, <3>1, <3>2
  <2>5. g = [n \in 0..m |-> AddRound(devs, storage, g, n)]
        BY <2>4
  <2> QED BY <1>3, <2>5
<1> QED BY <1>4, <1>5

\* The loop of setSysInfo(), round by round.
LEMMA SetSysInfoRounds ==
    ASSUME NEW m, NEW mc \in Machines
    PROVE  LET storage == report(mc).storage
           IN  \E devs :
                  /\ \A n \in 0..Len(storage) : devs[n] = AddRound(m.devs, storage, devs, n)
                  /\ setSysInfo(m, report(mc)) =
                        [id |-> m.id, sys |-> report(mc).sys,
                         dirty |-> (m.sys # report(mc).sys),
                         nets |-> addNetworkDevice(m.nets, report(mc).network),
                         devs |-> devs[Len(storage)]]
<1> DEFINE storage == report(mc).storage
           Follows(s) == s = [n \in 0..Len(storage) |-> AddRound(m.devs, storage, s, n)]
           devs == CHOOSE s : Follows(s)
<1>1. setSysInfo(m, report(mc)) =
         [id |-> m.id, sys |-> report(mc).sys, dirty |-> (m.sys # report(mc).sys),
          nets |-> addNetworkDevice(m.nets, report(mc).network), devs |-> devs[Len(storage)]]
      BY DEF setSysInfo, AddRound
<1>2. storage \in Seq(Mounts)
      BY ReportTyped
<1> HIDE DEF storage
<1>3. Len(storage) \in Nat /\ Len(storage) \in 0..Len(storage)
      BY <1>2
<1>4. \E s : Follows(s)
      BY <1>3, AddRuns
<1>5. Follows(devs)
      BY <1>4
<1>6. \A n \in 0..Len(storage) : devs[n] = AddRound(m.devs, storage, devs, n)
      BY <1>5
<1> HIDE DEF devs, Follows
<1> QED BY <1>1, <1>6 DEF storage

\* setSysInfo() sets the system and leaves the identifiers as they are.
LEMMA SetSysInfoKeeps ==
    ASSUME NEW m \in Computers, NEW mc \in Machines
    PROVE  LET n == setSysInfo(m, report(mc))
           IN  /\ n \in Computers /\ n.id = m.id
               /\ n.sys = mc.sys /\ n.dirty = (m.sys # mc.sys)
               /\ \A d \in Devs : n.devs[d].id = m.devs[d].id
<1> DEFINE storage == report(mc).storage
<1>1. PICK devs :
         /\ \A n \in 0..Len(storage) : devs[n] = AddRound(m.devs, storage, devs, n)
         /\ setSysInfo(m, report(mc)) =
               [id |-> m.id, sys |-> report(mc).sys, dirty |-> (m.sys # report(mc).sys),
                nets |-> addNetworkDevice(m.nets, report(mc).network),
                devs |-> devs[Len(storage)]]
      BY SetSysInfoRounds
<1>2. /\ storage \in Seq(Mounts) /\ report(mc).network \subseteq Networks
      /\ report(mc).sys = mc.sys /\ mc.sys \in [major : Nat, minor : Nat]
      BY ReportTyped
<1> HIDE DEF storage
<1>3. Len(storage) \in Nat /\ Len(storage) \in 0..Len(storage)
      BY <1>2
<1>6. \A n \in 0..Len(storage) : devs[n] = AddRound(m.devs, storage, devs, n)
      BY <1>1
<1> DEFINE Claim(n) == /\ devs[n] \in [Devs -> Devices]
                       /\ \A d \in Devs : devs[n][d].id = m.devs[d].id
           T == {n \in 0..Len(storage) : ~Claim(n)}
<1>7. ASSUME T # {} PROVE FALSE
  <2>1. T \subseteq Nat
        BY <1>3
  <2>2. PICK k \in T : \A y \in T : k <= y
    <3> HIDE DEF T
    <3> QED BY <1>7, <2>1, LeastElement
  <2>3. k \in 0..Len(storage) /\ ~Claim(k)
        OBVIOUS
  <2>4. k # 0
    <3>1. SUFFICES ASSUME k = 0 PROVE Claim(k)
          BY <2>3
    <3>2. devs[k] = m.devs
          BY <1>6, <2>3, <3>1 DEF AddRound
    <3> QED BY <3>2 DEF Computers
  <2>5. k - 1 \in 0..Len(storage) /\ k - 1 \notin T /\ k \in 1..Len(storage)
        BY <1>3, <2>2, <2>3, <2>4
  <2>6. storage[k].dev \in Devs /\ storage[k].info \in Info
    <3>1. storage[k] \in Mounts
          BY <1>2, <2>5
    <3> QED BY <3>1 DEF Mounts
  <2> DEFINE old == devs[k - 1]
             d0 == storage[k].dev
             info0 == storage[k].info
             x == addStorageDevice(old[d0], info0)
  <2>7. old \in [Devs -> Devices] /\ \A d \in Devs : old[d].id = m.devs[d].id
        BY <2>5
  <2>8. devs[k] = [old EXCEPT ![d0] = x]
        BY <1>6, <2>3, <2>4, <2>6, <2>7 DEF AddRound
  <2> HIDE DEF old, d0, info0
  <2>9. x \in Devices /\ x.id = old[d0].id
        BY <2>6, <2>7, DeviceKept DEF d0, info0
  <2> HIDE DEF x
  <2>10. d0 \in Devs
        BY <2>6 DEF d0
  <2> QED BY <2>3, <2>7, <2>8, <2>9, <2>10
<1>8. Claim(Len(storage))
      BY <1>3, <1>7
<1>9. /\ addNetworkDevice(m.nets, report(mc).network) \subseteq Networks
      /\ m.id \in Int
      BY <1>2 DEF addNetworkDevice, Computers, Networks
<1>10. mc.sys \in StoredSystems
      BY <1>2 DEF StoredSystems
<1> QED BY <1>1, <1>2, <1>8, <1>9, <1>10 DEF Computers, Networks

\* No two lines for a device say the same: setSysInfo() takes the second for no
\* change, and forgets that the first was one.
MountsDiffer == \A mc \in Machines : LET s == report(mc).storage IN
    \A j, k \in DOMAIN s : j # k /\ s[j].dev = s[k].dev => s[j].info # s[k].info

\* addStorageDevice() sees a change.
LEMMA DeviceTold ==
    ASSUME NEW old \in Devices, NEW info \in Info
    PROVE  LET x == addStorageDevice(old, info)
           IN  x.info = info /\ (~x.dirty => old.info = info)
<1>1. CASE old.known
  <2> DEFINE new == [old EXCEPT !.dirty = (old.info # info), !.info = info, !.connected = TRUE]
  <2>1. addStorageDevice(old, info) = new
        BY <1>1 DEF addStorageDevice
  <2>2. new.info = info /\ new.dirty = (old.info # info)
        BY DEF Devices, Device
  <2> HIDE DEF new
  <2> QED BY <2>1, <2>2
<1>2. CASE ~old.known
      BY <1>2 DEF addStorageDevice
<1> QED BY <1>1, <1>2

\* setSysInfo() sets the devices, and sees which changed.
LEMMA SetSysInfoTells ==
    ASSUME MountsDiffer, NEW m \in Computers, NEW mc \in Machines
    PROVE  LET n == setSysInfo(m, report(mc))
           IN  /\ Told(mc, n)
               /\ \A d \in Devs : ~n.devs[d].dirty => n.devs[d].info = m.devs[d].info
<1> DEFINE storage == report(mc).storage
<1>1. PICK devs :
         /\ \A n \in 0..Len(storage) : devs[n] = AddRound(m.devs, storage, devs, n)
         /\ setSysInfo(m, report(mc)) =
               [id |-> m.id, sys |-> report(mc).sys, dirty |-> (m.sys # report(mc).sys),
                nets |-> addNetworkDevice(m.nets, report(mc).network),
                devs |-> devs[Len(storage)]]
      BY SetSysInfoRounds
<1>2. storage \in Seq(Mounts)
      BY ReportTyped
<1>3. \A j, k \in DOMAIN storage :
         j # k /\ storage[j].dev = storage[k].dev => storage[j].info # storage[k].info
      BY DEF MountsDiffer
<1>4. setSysInfo(m, report(mc)).devs = devs[Len(storage)]
      BY <1>1
<1> HIDE DEF storage
<1>5. /\ Len(storage) \in Nat /\ Len(storage) \in 0..Len(storage)
      /\ DOMAIN storage = 1..Len(storage)
      BY <1>2
<1>6. \A n \in 0..Len(storage) : devs[n] = AddRound(m.devs, storage, devs, n)
      BY <1>1
<1> DEFINE Fresh(n, d) == /\ \A k \in 1..n : storage[k].dev # d
                          /\ devs[n][d] = m.devs[d]
           Set(n, d) == \E k \in 1..n :
                           /\ IsLast(storage, n, d, k)
                           /\ devs[n][d].info = storage[k].info
                           /\ ~devs[n][d].dirty => devs[n][d].info = m.devs[d].info
           Claim(n) == /\ devs[n] \in [Devs -> Devices]
                       /\ \A d \in Devs : Fresh(n, d) \/ Set(n, d)
           T == {n \in 0..Len(storage) : ~Claim(n)}
<1>7. ASSUME T # {} PROVE FALSE
  <2>1. T \subseteq Nat
        BY <1>5
  <2>2. PICK n \in T : \A y \in T : n <= y
    <3> HIDE DEF T
    <3> QED BY <1>7, <2>1, LeastElement
  <2>3. n \in 0..Len(storage) /\ ~Claim(n)
        OBVIOUS
  <2>4. n # 0
    <3>1. SUFFICES ASSUME n = 0 PROVE Claim(n)
          BY <2>3
    <3>2. devs[n] = m.devs
          BY <1>6, <2>3, <3>1 DEF AddRound
    <3>3. m.devs \in [Devs -> Devices]
          BY DEF Computers
    <3> QED BY <3>1, <3>2, <3>3
  <2>5. n - 1 \in 0..Len(storage) /\ n - 1 \notin T /\ n \in 1..Len(storage)
        BY <1>5, <2>2, <2>3, <2>4
  <2>6. storage[n].dev \in Devs /\ storage[n].info \in Info
    <3>1. storage[n] \in Mounts
          BY <1>2, <2>5
    <3> QED BY <3>1 DEF Mounts
  <2> DEFINE old == devs[n - 1]
             d0 == storage[n].dev
             x == addStorageDevice(old[d0], storage[n].info)
  <2>7. old \in [Devs -> Devices] /\ \A d \in Devs : Fresh(n - 1, d) \/ Set(n - 1, d)
        BY <2>5
  <2>8. devs[n] = [old EXCEPT ![d0] = x]
        BY <1>6, <2>3, <2>4, <2>6, <2>7 DEF AddRound
  <2>9. /\ x \in Devices /\ x.info = storage[n].info
        /\ ~x.dirty => old[d0].info = storage[n].info
        BY <2>6, <2>7, DeviceKept, DeviceTold
  <2> HIDE DEF x
  <2>10. \A k \in 1..n : k = n \/ k \in 1..(n - 1)
         BY <2>5
  <2>11. 1..(n - 1) \subseteq 1..n /\ \A k \in 1..(n - 1) : k <= n /\ k # n
         BY <2>5
  <2>12. ASSUME NEW d \in Devs, d # d0
         PROVE  Fresh(n, d) \/ Set(n, d)
    <3>1. devs[n][d] = old[d]
          BY <2>7, <2>8, <2>12
    <3>2. CASE Fresh(n - 1, d)
          BY <2>10, <2>12, <3>1, <3>2
    <3>3. CASE Set(n - 1, d)
      <4>1. PICK k \in 1..(n - 1) :
               /\ IsLast(storage, n - 1, d, k) /\ old[d].info = storage[k].info
               /\ ~old[d].dirty => old[d].info = m.devs[d].info
            BY <3>3
      <4>2. k \in 1..n /\ IsLast(storage, n, d, k)
            BY <2>10, <2>11, <2>12, <4>1 DEF IsLast
      <4> QED BY <3>1, <4>1, <4>2
    <3> QED BY <2>7, <3>2, <3>3
  <2>13. Set(n, d0)
    <3>1. devs[n][d0] = x
          BY <2>6, <2>7, <2>8
    <3>2. n \in 1..n /\ IsLast(storage, n, d0, n)
          BY <2>5, <2>10, <2>11 DEF IsLast
    <3>3. ~x.dirty => x.info = m.devs[d0].info
      <4>1. CASE Fresh(n - 1, d0)
            BY <2>9, <4>1
      <4>2. CASE Set(n - 1, d0)
        <5>1. PICK k \in 1..(n - 1) : storage[k].dev = d0 /\ old[d0].info = storage[k].info
              BY <4>2 DEF IsLast
        <5>2. k \in DOMAIN storage /\ n \in DOMAIN storage /\ k # n
              BY <1>5, <2>5, <2>11, <5>1
        <5>3. storage[k].info # storage[n].info
              BY <1>3, <5>1, <5>2
        <5> QED BY <2>9, <5>1, <5>3
      <4> QED BY <2>6, <2>7, <4>1, <4>2
    <3> QED BY <2>9, <3>1, <3>2, <3>3
  <2>14. devs[n] \in [Devs -> Devices]
         BY <2>7, <2>8, <2>9
  <2>15. Claim(n)
    <3> HIDE DEF Fresh, Set, d0
    <3> QED BY <2>12, <2>13, <2>14
  <2> QED BY <2>3, <2>15
<1>8. Claim(Len(storage))
      BY <1>5, <1>7
<1>9. \A d \in Devs : ~devs[Len(storage)][d].dirty =>
                         devs[Len(storage)][d].info = m.devs[d].info
      BY <1>8
<1>10. ASSUME NEW d \in Devs, NEW k \in 1..Len(storage), IsLast(storage, Len(storage), d, k)
       PROVE  devs[Len(storage)][d].info = storage[k].info
  <2>1. ~Fresh(Len(storage), d)
        BY <1>10 DEF IsLast
  <2>2. PICK j \in 1..Len(storage) : /\ IsLast(storage, Len(storage), d, j)
                                     /\ devs[Len(storage)][d].info = storage[j].info
        BY <1>8, <2>1
  <2>3. j = k
        BY <1>5, <1>10, <2>2 DEF IsLast
  <2> QED BY <2>2, <2>3
<1> HIDE DEF Claim, T, Fresh, Set
<1>11. Told(mc, setSysInfo(m, report(mc)))
       BY <1>4, <1>10 DEF Told, storage
<1> QED BY <1>4, <1>9, <1>11

-----------------------------------------------------------------------------
(* What a step does: the shapes of steps, as far as identifiers and rows go *)

\* A thread takes a step, and the others do not.
Moves(r) ==
    /\ mem' \in [Reporters -> Computers]
    /\ pc' \in [Reporters -> Threads]
    /\ todo' \in [Reporters -> SUBSET Devs]
    /\ \A q \in Reporters : q # r => /\ pc'[q] = pc[q] /\ mem'[q] = mem[q]
                                     /\ todo'[q] = todo[q]

Others(r) ==
    \A q \in Reporters : q # r => /\ pc'[q] = pc[q] /\ mem'[q] = mem[q]
                                  /\ todo'[q] = todo[q] /\ hit'[q] = hit[q]

\* Devices go by the rows they had.
KeepsDevIds(r) == \A d \in Devs : mem'[r].devs[d].id = mem[r].devs[d].id
KeepsIds(r) == mem'[r].id = mem[r].id /\ KeepsDevIds(r)

\* No row is added, and none changes hands.
SameRows ==
    /\ Len(computer_table') = Len(computer_table)
    /\ Len(storage_table') = Len(storage_table)
    /\ \A k \in 1..Len(storage_table) :
          /\ storage_table'[k].computer = storage_table[k].computer
          /\ storage_table'[k].dev = storage_table[k].dev

Starts(r) ==
    /\ pc[r] = "off" /\ pc'[r] \in {"fetch", "insert"}
    /\ pc'[r] = "insert" => rid[r] = -1
    /\ sessions' = sessions + 1
    /\ mem'[r].id = rid[r] /\ \A d \in Devs : mem'[r].devs[d].id = -1
    /\ hit'[r] # "now"
    /\ UNCHANGED <<db, rid, cmd, faults>>

\* On the way to the answer, with a row; devices may have found theirs.
Goes(r) ==
    /\ pc[r] \in HasRow \cup {"ready"} /\ pc'[r] \in {"update", "updateDevs", "return"}
    /\ mem'[r].id = mem[r].id
    /\ \A d \in Devs : \/ mem'[r].devs[d].id = mem[r].devs[d].id
                       \/ RowOf(mem'[r].devs[d].id, mem[r].id, d)
    /\ SameRows
    /\ UNCHANGED <<last_rowid, rid, cmd>>
    /\ sessions' >= sessions
    /\ faults' = 0 => faults = 0
    /\ hit'[r] # "now" => hit[r] # "now"

\* A statement failed before the computer or a device got its row.
Fails(r) ==
    /\ pc[r] \in {"fetch", "insert", "dev"}
    /\ pc'[r] \in {"insert", "insertId", "dev", "devId", "update", "return"}
    /\ pc'[r] \in {"insert", "insertId"} => pc[r] # "dev"
    /\ KeepsIds(r)
    /\ UNCHANGED <<db, rid, cmd, sessions>>
    /\ faults' # 0 /\ hit'[r] = "now"

\* SELECT: there is such a row, or there is none.
Selects(r) ==
    /\ pc[r] = "fetch"
    /\ pc'[r] = IF mem[r].id \in Rows THEN "fetchStorage" ELSE "insert"
    /\ KeepsIds(r)
    /\ UNCHANGED <<db, rid, cmd, sessions, faults, hit>>

InsertsComputer(r) ==
    /\ pc[r] = "insert" /\ pc'[r] = "insertId"
    /\ KeepsIds(r)
    /\ Len(computer_table') = Len(computer_table) + 1
    /\ last_rowid' = Len(computer_table')
    /\ UNCHANGED <<storage_table, rid, cmd, sessions, faults, hit>>

ReadsComputer(r) ==
    /\ pc[r] = "insertId" /\ pc'[r] = "dev"
    /\ mem'[r].id = last_rowid /\ KeepsDevIds(r)
    /\ UNCHANGED <<db, rid, cmd, sessions, faults, hit>>

InsertsDevice(r) ==
    /\ pc[r] = "dev" /\ pc'[r] = "devId"
    /\ todo[r] # {}
    /\ \E row \in StorageRow : /\ row.computer = mem[r].id /\ row.dev = At(r)
                               /\ storage_table' = Append(storage_table, row)
    /\ last_rowid' = Len(storage_table')
    /\ UNCHANGED <<computer_table, mem, todo, rid, cmd, sessions, faults, hit>>

ReadsDevice(r) ==
    /\ pc[r] = "devId" /\ pc'[r] = "dev"
    /\ mem'[r].id = mem[r].id
    /\ \A d \in Devs : mem'[r].devs[d].id = IF d = At(r) THEN last_rowid
                                                          ELSE mem[r].devs[d].id
    /\ todo'[r] = todo[r] \ {At(r)}
    /\ UNCHANGED <<db, rid, cmd, sessions, faults, hit>>

Answers(r) ==
    /\ pc[r] = "return"
    /\ \/ rid' = [rid EXCEPT ![r] = mem[r].id] /\ pc'[r] = "ready"
       \/ rid' = rid /\ pc'[r] = "off"
    /\ UNCHANGED <<db, mem, cmd, sessions, faults, hit>>

Leaves(r) ==
    /\ pc[r] = "ready" /\ pc'[r] = "off"
    /\ UNCHANGED <<db, mem, rid, cmd, sessions, faults, hit>>

Shape(r) ==
    \/ Starts(r) \/ Goes(r) \/ Fails(r) \/ Selects(r)
    \/ InsertsComputer(r) \/ ReadsComputer(r)
    \/ InsertsDevice(r) \/ ReadsDevice(r) \/ Answers(r) \/ Leaves(r)

-----------------------------------------------------------------------------
(* Steps of a connection's thread, one by one *)

LEMMA Bounds == MaxSessions \in Nat /\ MaxCommands \in Nat /\ MaxFaults \in Nat
    BY StoreAssumption

LEMMA AsInsertedTyped ==
    ASSUME NEW s \in StoredSystems
    PROVE  AsInserted(s) \in StoredSystems
    BY DEF AsInserted, StoredSystems

\* A fresh RmsComputer has no rows.
LEMMA FreshTyped ==
    ASSUME NEW id \in Int
    PROVE  /\ RmsComputer(id) \in Computers /\ RmsComputer(id).id = id
           /\ \A d \in Devs : RmsComputer(id).devs[d].id = -1
<1>1. "" \in STRING
      BY StoreAssumption
<1>2. NoDevice \in Devices /\ NoDevice.id = -1
  <2>1. \A S : \A v \in S : [free |-> 0, total |-> 0, mount |-> v] \in
                               [free : Nat, total : Nat, mount : S]
        OBVIOUS
  <2>2. [free |-> 0, total |-> 0, mount |-> ""] \in Info
        BY <1>1, <2>1, Zenon DEF Info
  <2>3. \A i \in Info : [known |-> FALSE, id |-> -1, info |-> i,
                         connected |-> FALSE, dirty |-> FALSE] \in Devices
        BY DEF Devices, Device
  <2> QED BY <2>2, <2>3 DEF NoDevice
<1>3. NoSystem \in StoredSystems /\ {} \subseteq Networks
      BY DEF StoredSystems
<1> DEFINE m == [id |-> id, sys |-> NoSystem, dirty |-> FALSE, nets |-> {},
                 devs |-> [d \in Devs |-> NoDevice]]
<1>4. m \in Computers /\ m.id = id /\ \A d \in Devs : m.devs[d].id = -1
      BY <1>2, <1>3 DEF Computers, Networks
<1> QED BY <1>4 DEF RmsComputer

\* How a statement ends.
LEMMA OutcomeTyped ==
    ASSUME CountsTyped, NEW r \in Reporters, NEW o, Outcome(r, o)
    PROVE  /\ faults' \in 0..MaxFaults
           /\ hit' \in [Reporters -> {"never", "before", "now"}]
           /\ o = "ok" => UNCHANGED <<faults, hit>>
           /\ o # "ok" => faults' # 0 /\ hit'[r] = "now"
           /\ faults' = 0 => faults = 0
           /\ hit'[r] # "now" => hit[r] # "now"
           /\ \A q \in Reporters : q # r => hit'[q] = hit[q]
<1>1. MaxFaults \in Nat /\ faults \in 0..MaxFaults
      BY Bounds DEF CountsTyped
<1>2. hit \in [Reporters -> {"never", "before", "now"}]
      BY DEF CountsTyped
<1>3. CASE o = "ok"
      BY <1>1, <1>2, <1>3 DEF Outcome
<1>4. CASE o # "ok"
  <2>1. faults < MaxFaults /\ faults' = faults + 1 /\ hit' = [hit EXCEPT ![r] = "now"]
        BY <1>4 DEF Outcome
  <2>2. faults' \in 0..MaxFaults /\ faults' # 0
        BY <1>1, <2>1
  <2> QED BY <1>2, <1>4, <2>1, <2>2
<1> QED BY <1>3, <1>4

\* setSysInfo() and updateDB(), as far as its first statement.
LEMMA ThenUpdateDoes ==
    ASSUME ThreadsTyped, NEW r \in Reporters, NEW m \in Computers, NEW mc \in Machines,
           ThenUpdate(r, m, report(mc))
    PROVE  /\ Moves(r)
           /\ pc'[r] \in {"update", "return"}
           /\ mem'[r].id = m.id /\ \A d \in Devs : mem'[r].devs[d].id = m.devs[d].id
<1> DEFINE n == setSysInfo(m, report(mc))
<1>1. n \in Computers /\ n.id = m.id /\ \A d \in Devs : n.devs[d].id = m.devs[d].id
      BY SetSysInfoKeeps
<1>2. /\ mem' = [mem EXCEPT ![r] = n]
      /\ todo' = [todo EXCEPT ![r] = Dirty(n)]
      /\ pc' = [pc EXCEPT ![r] = IF m.id = -1 THEN "return" ELSE "update"]
      BY DEF ThenUpdate, Put, Goto
<1> HIDE DEF n
<1>3. Dirty(n) \subseteq Devs
      BY DEF Dirty
<1>4. mem \in [Reporters -> Computers] /\ mem'[r] = n /\ mem' \in [Reporters -> Computers]
      BY <1>1, <1>2 DEF ThreadsTyped
<1>5. todo' \in [Reporters -> SUBSET Devs]
      BY <1>2, <1>3 DEF ThreadsTyped
<1>6. pc' \in [Reporters -> Threads] /\ pc'[r] \in {"update", "return"}
      BY <1>2 DEF ThreadsTyped, Threads
<1>7. \A q \in Reporters : q # r => /\ pc'[q] = pc[q] /\ mem'[q] = mem[q]
                                    /\ todo'[q] = todo[q]
      BY <1>2 DEF ThreadsTyped
<1> QED BY <1>1, <1>4, <1>5, <1>6, <1>7 DEF Moves

\* The state of a thread is put in the middle of a call.
LEMMA PutDoes ==
    ASSUME ThreadsTyped, NEW r \in Reporters, NEW n \in Computers, NEW l \in Threads,
           Put(r, n), Goto(r, l), UNCHANGED todo
    PROVE  /\ Moves(r)
           /\ pc'[r] = l /\ mem'[r] = n
    BY DEF ThreadsTyped, Put, Goto, Moves

\* What the invariant of the threads needs of a step in a call.
LEMMA ThreadsStay ==
    ASSUME ThreadsTyped, NEW r \in Reporters,
           Moves(r), UNCHANGED <<arg, rid>>,
           pc'[r] # "off" => pc[r] # "off",
           pc'[r] = "devId" => todo'[r] # {},
           pc'[r] \in {"dev", "devId"} => \A d \in todo'[r] : mem'[r].devs[d].known
    PROVE  ThreadsTyped'
<1>1. ASSUME NEW q \in Reporters
      PROVE  /\ pc'[q] # "off" => arg'[q] \in Machines
             /\ pc'[q] = "devId" => todo'[q] # {}
             /\ pc'[q] \in {"dev", "devId"} => \A d \in todo'[q] : mem'[q].devs[d].known
  <2>1. CASE q = r
        BY <2>1 DEF ThreadsTyped
  <2>2. CASE q # r
        BY <2>2 DEF ThreadsTyped, Moves
  <2> QED BY <2>1, <2>2
<1> QED BY <1>1 DEF ThreadsTyped, Moves

LEMMA HandshakeDoes ==
    ASSUME StoreTypes, NEW r \in Reporters, NEW mc \in Machines, Handshake(r, mc)
    PROVE  StoreTypes' /\ Others(r) /\ Starts(r)
<1>1. /\ pc[r] = "off" /\ sessions < MaxSessions /\ sessions' = sessions + 1
      /\ arg' = [arg EXCEPT ![r] = mc]
      /\ hit' = [hit EXCEPT ![r] = IF hit[r] = "now" THEN "before" ELSE hit[r]]
      /\ inserted' = [inserted EXCEPT ![r] = 0]
      /\ UNCHANGED <<db, todo, rid, cmd, cmd_ids, faults>>
      BY DEF Handshake
<1>2. rid[r] \in Int /\ -1 \in Int
      BY DEF StoreTypes, ThreadsTyped
<1>3. \E n \in Computers, l \in {"fetch", "insert"} :
         /\ Put(r, n) /\ Goto(r, l)
         /\ n.id = rid[r] /\ \A d \in Devs : n.devs[d].id = -1
         /\ l = "insert" => rid[r] = -1
  <2>1. CASE rid[r] # -1
    <3>1. Put(r, RmsComputer(rid[r])) /\ Goto(r, "fetch")
          BY <2>1 DEF Handshake
    <3>2. /\ RmsComputer(rid[r]) \in Computers /\ RmsComputer(rid[r]).id = rid[r]
          /\ \A d \in Devs : RmsComputer(rid[r]).devs[d].id = -1
          BY <1>2, FreshTyped
    <3> QED BY <3>1, <3>2
  <2>2. CASE rid[r] = -1
    <3> DEFINE m == RmsComputer(-1)
               n == setSysInfo(m, report(mc))
    <3>1. Put(r, n) /\ Goto(r, "insert")
          BY <2>2 DEF Handshake
    <3>2. m \in Computers /\ m.id = -1 /\ \A d \in Devs : m.devs[d].id = -1
          BY <1>2, FreshTyped
    <3> HIDE DEF m
    <3>3. n \in Computers /\ n.id = m.id /\ \A d \in Devs : n.devs[d].id = m.devs[d].id
          BY <3>2, SetSysInfoKeeps
    <3> HIDE DEF n
    <3> QED BY <2>2, <3>1, <3>2, <3>3
  <2> QED BY <2>1, <2>2
<1>4. PICK n \in Computers, l \in {"fetch", "insert"} :
         /\ Put(r, n) /\ Goto(r, l)
         /\ n.id = rid[r] /\ \A d \in Devs : n.devs[d].id = -1
         /\ l = "insert" => rid[r] = -1
      BY <1>3
<1>5. /\ Moves(r)
      /\ pc'[r] = l /\ mem'[r] = n
  <2>1. l \in Threads
        BY DEF Threads
  <2> QED BY <1>1, <1>4, <2>1, PutDoes DEF StoreTypes
<1>6. /\ hit' \in [Reporters -> {"never", "before", "now"}] /\ hit'[r] # "now"
      /\ \A q \in Reporters : q # r => hit'[q] = hit[q]
      BY <1>1 DEF StoreTypes, CountsTyped
<1>7. CountsTyped'
  <2>1. inserted' \in [Reporters -> Nat]
        BY <1>1 DEF StoreTypes, CountsTyped
  <2>2. sessions' \in 0..MaxSessions
        BY <1>1, Bounds DEF StoreTypes, CountsTyped
  <2> QED BY <1>1, <1>6, <2>1, <2>2 DEF StoreTypes, CountsTyped
<1>8. TablesTyped'
      BY <1>1 DEF StoreTypes, TablesTyped, db
<1>9. ThreadsTyped'
  <2>1. /\ arg' \in [Reporters -> Machines \cup {NoSystem}] /\ arg'[r] = mc
        /\ \A q \in Reporters : q # r => arg'[q] = arg[q]
        BY <1>1 DEF StoreTypes, ThreadsTyped
  <2>2. rid' \in [Reporters -> Int]
        BY <1>1 DEF StoreTypes, ThreadsTyped
  <2>3. ASSUME NEW q \in Reporters
        PROVE  /\ pc'[q] # "off" => arg'[q] \in Machines
               /\ pc'[q] = "devId" => todo'[q] # {}
               /\ pc'[q] \in {"dev", "devId"} => \A d \in todo'[q] : mem'[q].devs[d].known
    <3>1. CASE q = r
          BY <1>5, <2>1, <3>1
    <3>2. CASE q # r
          BY <1>5, <2>1, <3>2 DEF StoreTypes, ThreadsTyped, Moves
    <3> QED BY <3>1, <3>2
  <2> QED BY <1>5, <2>1, <2>2, <2>3 DEF ThreadsTyped, Moves
<1>10. Others(r)
      BY <1>5, <1>6 DEF Others, Moves
<1>11. Starts(r)
      BY <1>1, <1>4, <1>5, <1>6 DEF Starts
<1> QED BY <1>7, <1>8, <1>9, <1>10, <1>11 DEF StoreTypes

LEMMA SendDoes ==
    ASSUME StoreTypes, NEW r \in Reporters, NEW mc \in Machines, SendSysInfo(r, mc)
    PROVE  StoreTypes' /\ Others(r) /\ Goes(r)
<1>1. /\ pc[r] = "ready" /\ sessions < MaxSessions /\ sessions' = sessions + 1
      /\ arg' = [arg EXCEPT ![r] = mc]
      /\ ThenUpdate(r, mem[r], report(mc))
      /\ UNCHANGED <<db, rid, inserted, hit, cmd, cmd_ids, faults>>
      BY DEF SendSysInfo
<1>2. mem[r] \in Computers /\ ThreadsTyped
      BY DEF StoreTypes, ThreadsTyped
<1>3. /\ Moves(r)
      /\ pc'[r] \in {"update", "return"}
      /\ mem'[r].id = mem[r].id /\ \A d \in Devs : mem'[r].devs[d].id = mem[r].devs[d].id
      BY <1>1, <1>2, ThenUpdateDoes
<1>4. CountsTyped'
  <2>1. sessions' \in 0..MaxSessions
        BY <1>1, Bounds DEF StoreTypes, CountsTyped
  <2> QED BY <1>1, <2>1 DEF StoreTypes, CountsTyped
<1>5. TablesTyped'
      BY <1>1 DEF StoreTypes, TablesTyped, db
<1>6. ThreadsTyped'
  <2>1. /\ arg' \in [Reporters -> Machines \cup {NoSystem}] /\ arg'[r] = mc
        /\ \A q \in Reporters : q # r => arg'[q] = arg[q]
        BY <1>1, <1>2 DEF ThreadsTyped
  <2>2. rid' \in [Reporters -> Int]
        BY <1>1, <1>2 DEF ThreadsTyped
  <2>3. ASSUME NEW q \in Reporters
        PROVE  /\ pc'[q] # "off" => arg'[q] \in Machines
               /\ pc'[q] = "devId" => todo'[q] # {}
               /\ pc'[q] \in {"dev", "devId"} => \A d \in todo'[q] : mem'[q].devs[d].known
    <3>1. CASE q = r
          BY <1>3, <2>1, <3>1
    <3>2. CASE q # r
          BY <1>2, <1>3, <2>1, <3>2 DEF ThreadsTyped, Moves
    <3> QED BY <3>1, <3>2
  <2> QED BY <1>3, <2>1, <2>2, <2>3 DEF ThreadsTyped, Moves
<1>7. Others(r)
      BY <1>1, <1>3 DEF Others, Moves
<1>8. sessions' >= sessions
      BY <1>1 DEF StoreTypes, CountsTyped
<1>9. Goes(r)
      BY <1>1, <1>3, <1>8 DEF Goes, SameRows, db
<1> QED BY <1>4, <1>5, <1>6, <1>7, <1>9 DEF StoreTypes

LEMMA FetchComputerDoes ==
    ASSUME StoreTypes, NEW r \in Reporters, NEW o, FetchComputer(r, o)
    PROVE  StoreTypes' /\ Others(r) /\ (Selects(r) \/ Fails(r))
<1>1. /\ pc[r] = "fetch" /\ Outcome(r, o)
      /\ UNCHANGED <<db, arg, rid, inserted, cmd, cmd_ids, sessions>>
      BY DEF FetchComputer
<1>2. /\ mem[r] \in Computers /\ ThreadsTyped /\ CountsTyped /\ arg[r] \in Machines
      /\ DOMAIN computer_table = Rows /\ TablesTyped
  <2>1. DOMAIN computer_table = Rows
        BY DEF StoreTypes, TablesTyped, Rows
  <2> QED BY <1>1, <2>1 DEF StoreTypes, ThreadsTyped
<1>3. /\ faults' \in 0..MaxFaults
      /\ hit' \in [Reporters -> {"never", "before", "now"}]
      /\ o = "ok" => UNCHANGED <<faults, hit>>
      /\ o # "ok" => faults' # 0 /\ hit'[r] = "now"
      /\ \A q \in Reporters : q # r => hit'[q] = hit[q]
      BY <1>1, <1>2, OutcomeTyped
<1>4. CountsTyped' /\ TablesTyped'
      BY <1>1, <1>2, <1>3 DEF CountsTyped, TablesTyped, db
<1>5. CASE o = "refused"
  <2>1. ThenUpdate(r, mem[r], report(arg[r]))
        BY <1>5 DEF FetchComputer
  <2>2. Moves(r) /\ KeepsIds(r) /\ pc'[r] \in {"update", "return"}
        BY <1>2, <2>1, ThenUpdateDoes DEF KeepsIds, KeepsDevIds
  <2>3. Others(r)
        BY <1>3, <2>2 DEF Others, Moves
  <2>4. ThreadsTyped'
        BY <1>1, <1>2, <2>2, <2>3, ThreadsStay
  <2>5. Fails(r)
        BY <1>1, <1>3, <1>5, <2>2 DEF Fails
  <2> QED BY <1>4, <2>3, <2>4, <2>5 DEF StoreTypes
<1>6. CASE o = "ok" /\ mem[r].id \in DOMAIN computer_table
  <2> DEFINE n == [mem[r] EXCEPT !.sys = computer_table[mem[r].id]]
  <2>1. Put(r, n) /\ Goto(r, "fetchStorage") /\ UNCHANGED todo
        BY <1>6 DEF FetchComputer
  <2>2. computer_table[mem[r].id] \in StoredSystems
        BY <1>2, <1>6 DEF TablesTyped
  <2>3. n \in Computers /\ n.id = mem[r].id /\ n.devs = mem[r].devs
        BY <1>2, <2>2 DEF Computers
  <2> HIDE DEF n
  <2>4. "fetchStorage" \in Threads
        BY DEF Threads
  <2>5. Moves(r) /\ KeepsIds(r) /\ pc'[r] = "fetchStorage"
        BY <1>2, <2>1, <2>3, <2>4, PutDoes DEF KeepsIds, KeepsDevIds
  <2>6. Others(r)
        BY <1>3, <2>5 DEF Others, Moves
  <2>7. ThreadsTyped'
        BY <1>1, <1>2, <2>5, <2>6, ThreadsStay
  <2>8. Selects(r)
        BY <1>1, <1>2, <1>3, <1>6, <2>5 DEF Selects
  <2> QED BY <1>4, <2>6, <2>7, <2>8 DEF StoreTypes
<1>7. CASE o # "refused" /\ ~(o = "ok" /\ mem[r].id \in DOMAIN computer_table)
  <2>1. Goto(r, "insert") /\ UNCHANGED <<mem, todo>>
        BY <1>7 DEF FetchComputer
  <2>2. Moves(r) /\ KeepsIds(r) /\ pc'[r] = "insert"
        BY <1>2, <2>1 DEF ThreadsTyped, Goto, Threads, KeepsIds, KeepsDevIds, Moves
  <2>3. Others(r)
        BY <1>3, <2>2 DEF Others, Moves
  <2>4. ThreadsTyped'
        BY <1>1, <1>2, <2>2, <2>3, ThreadsStay
  <2>5. Selects(r) \/ Fails(r)
    <3>1. CASE o = "ok"
          BY <1>1, <1>2, <1>3, <1>7, <2>2, <3>1 DEF Selects
    <3>2. CASE o # "ok"
          BY <1>1, <1>3, <2>2, <3>2 DEF Fails
    <3> QED BY <3>1, <3>2
  <2> QED BY <1>4, <2>3, <2>4, <2>5 DEF StoreTypes
<1> QED BY <1>5, <1>6, <1>7

\* What SELECT brings back are the computer's own rows.
LEMMA FetchedOwn ==
    ASSUME TablesTyped, NEW m \in Computers
    PROVE  /\ Fetched(m) \in Computers /\ Fetched(m).id = m.id /\ Fetched(m).sys = m.sys
           /\ \A d \in Devs : \/ Fetched(m).devs[d] = m.devs[d]
                              \/ /\ RowOf(Fetched(m).devs[d].id, m.id, d)
                                 /\ Fetched(m).devs[d].info.free = 0
<1> DEFINE Ids(d) == {k \in DOMAIN storage_table : /\ storage_table[k].computer = m.id
                                                   /\ storage_table[k].dev = d}
           Least(d) == CHOOSE k \in Ids(d) : \A j \in Ids(d) : k <= j
           devs == [d \in Devs |-> IF Ids(d) = {} THEN m.devs[d] ELSE AsFetched(Least(d))]
<1>1. Fetched(m) = [m EXCEPT !.devs = devs]
      BY DEF Fetched
<1>2. DOMAIN storage_table = 1..Len(storage_table) /\ Len(storage_table) \in Nat
      BY DEF TablesTyped
<1>3. ASSUME NEW d \in Devs
      PROVE  /\ devs[d] \in Devices
             /\ \/ devs[d] = m.devs[d]
                \/ RowOf(devs[d].id, m.id, d) /\ devs[d].info.free = 0
  <2>1. CASE Ids(d) = {}
    <3>1. devs[d] = m.devs[d]
          BY <2>1
    <3> QED BY <3>1 DEF Computers
  <2>2. CASE Ids(d) # {}
    <3> DEFINE I == Ids(d)
    <3>1. I \subseteq Nat /\ I # {}
          BY <1>2, <2>2
    <3>2. \E k \in I : \A j \in I : k <= j
      <4> HIDE DEF I
      <4> QED BY <3>1, LeastElement
    <3>3. Least(d) \in I
          BY <3>2
    <3>4. PICK k \in I : k = Least(d)
          BY <3>3
    <3>5. devs[d] = AsFetched(k)
          BY <2>2, <3>4
    <3>6. /\ k \in 1..Len(storage_table) /\ k \in Int /\ storage_table[k] \in StorageRow
          /\ storage_table[k].computer = m.id /\ storage_table[k].dev = d
      <4>1. k \in DOMAIN storage_table
            OBVIOUS
      <4>2. storage_table[k] \in StorageRow
            BY <4>1 DEF TablesTyped
      <4> QED BY <1>2, <4>1, <4>2
    <3> HIDE DEF I, devs
    <3> DEFINE info == [storage_table[k].info EXCEPT !.free = 0]
    <3>7. info \in Info /\ info.free = 0
          BY <3>6 DEF StorageRow, Info
    <3>8. AsFetched(k) \in Devices /\ AsFetched(k).id = k /\ AsFetched(k).info.free = 0
          BY <3>6, <3>7 DEF AsFetched, Devices, Device
    <3> QED BY <3>5, <3>6, <3>8 DEF RowOf
  <2> QED BY <2>1, <2>2
<1>4. devs \in [Devs -> Devices]
      BY <1>3
<1> HIDE DEF devs
<1>5. Fetched(m) \in Computers /\ Fetched(m).devs = devs /\ Fetched(m).id = m.id
      /\ Fetched(m).sys = m.sys
      BY <1>1, <1>4 DEF Computers
<1> QED BY <1>3, <1>5

LEMMA FetchStorageDoes ==
    ASSUME StoreTypes, NEW r \in Reporters, NEW o, FetchStorage(r, o)
    PROVE  StoreTypes' /\ Others(r) /\ Goes(r)
<1> DEFINE m == IF o = "ok" THEN Fetched(mem[r]) ELSE mem[r]
<1>1. /\ pc[r] = "fetchStorage" /\ Outcome(r, o)
      /\ ThenUpdate(r, m, report(arg[r]))
      /\ UNCHANGED <<db, arg, rid, inserted, cmd, cmd_ids, sessions>>
      BY DEF FetchStorage
<1>2. mem[r] \in Computers /\ ThreadsTyped /\ CountsTyped /\ TablesTyped /\ arg[r] \in Machines
      BY <1>1 DEF StoreTypes, ThreadsTyped
<1>3. /\ faults' \in 0..MaxFaults
      /\ hit' \in [Reporters -> {"never", "before", "now"}]
      /\ faults' = 0 => faults = 0
      /\ hit'[r] # "now" => hit[r] # "now"
      /\ \A q \in Reporters : q # r => hit'[q] = hit[q]
      BY <1>1, <1>2, OutcomeTyped
<1>4. /\ m \in Computers /\ m.id = mem[r].id
      /\ \A d \in Devs : m.devs[d].id = mem[r].devs[d].id \/ RowOf(m.devs[d].id, mem[r].id, d)
      BY <1>2, FetchedOwn
<1> HIDE DEF m
<1>5. /\ Moves(r) /\ pc'[r] \in {"update", "return"}
      /\ mem'[r].id = m.id /\ \A d \in Devs : mem'[r].devs[d].id = m.devs[d].id
      BY <1>1, <1>2, <1>4, ThenUpdateDoes
<1>6. CountsTyped' /\ TablesTyped'
      BY <1>1, <1>2, <1>3 DEF CountsTyped, TablesTyped, db
<1>7. Others(r)
      BY <1>3, <1>5 DEF Others, Moves
<1>8. ThreadsTyped'
      BY <1>1, <1>2, <1>5, ThreadsStay
<1>9. sessions' >= sessions
      BY <1>1, <1>2 DEF CountsTyped
<1>10. Goes(r)
      BY <1>1, <1>3, <1>4, <1>5, <1>9 DEF Goes, SameRows, db, HasRow
<1> QED BY <1>6, <1>7, <1>8, <1>10 DEF StoreTypes

\* The end of addToDB().
LEMMA AddedDoes ==
    ASSUME ThreadsTyped, NEW r \in Reporters, pc[r] # "off", Added(r, mem[r])
    PROVE  Moves(r) /\ KeepsIds(r) /\ pc'[r] \in {"update", "return"}
<1>1. mem[r] \in Computers /\ arg[r] \in Machines
      BY DEF ThreadsTyped
<1>2. CASE rid[r] = -1
  <2>1. Put(r, mem[r]) /\ Goto(r, "return") /\ UNCHANGED todo
        BY <1>2 DEF Added
  <2>2. "return" \in Threads
        BY DEF Threads
  <2> QED BY <1>1, <2>1, <2>2, PutDoes DEF KeepsIds, KeepsDevIds
<1>3. CASE rid[r] # -1
      BY <1>1, <1>3, ThenUpdateDoes DEF Added, KeepsIds, KeepsDevIds
<1> QED BY <1>2, <1>3

LEMMA InsertComputerDoes ==
    ASSUME StoreTypes, NEW r \in Reporters, NEW o, InsertComputer(r, o)
    PROVE  StoreTypes' /\ Others(r) /\ (InsertsComputer(r) \/ Fails(r))
<1>1. /\ pc[r] = "insert" /\ Outcome(r, o)
      /\ UNCHANGED <<storage_table, executor_table, arg, rid, cmd, cmd_ids, sessions>>
      BY DEF InsertComputer
<1>2. mem[r] \in Computers /\ ThreadsTyped /\ CountsTyped /\ TablesTyped
      BY DEF StoreTypes, ThreadsTyped
<1>3. /\ faults' \in 0..MaxFaults
      /\ hit' \in [Reporters -> {"never", "before", "now"}]
      /\ o = "ok" => UNCHANGED <<faults, hit>>
      /\ o # "ok" => faults' # 0 /\ hit'[r] = "now"
      /\ \A q \in Reporters : q # r => hit'[q] = hit[q]
      BY <1>1, <1>2, OutcomeTyped
<1>4. CASE o = "ok"
  <2> DEFINE s == AsInserted(mem[r].sys)
  <2>1. /\ computer_table' = Append(computer_table, s)
        /\ last_rowid' = Len(computer_table) + 1
        /\ inserted' = [inserted EXCEPT ![r] = Len(computer_table) + 1]
        /\ Goto(r, "insertId") /\ UNCHANGED <<mem, todo>>
        BY <1>4 DEF InsertComputer
  <2>2. s \in StoredSystems
        BY <1>2, AsInsertedTyped DEF Computers
  <2> HIDE DEF s
  <2>3. /\ computer_table' \in Seq(StoredSystems) /\ last_rowid' \in Nat
        /\ Len(computer_table') = Len(computer_table) + 1 /\ Len(computer_table) \in Nat
        BY <1>2, <2>1, <2>2 DEF TablesTyped
  <2>4. TablesTyped'
        BY <1>1, <1>2, <2>3 DEF TablesTyped
  <2>5. inserted' \in [Reporters -> Nat]
        BY <1>2, <2>1, <2>3 DEF CountsTyped
  <2>6. CountsTyped'
        BY <1>1, <1>2, <1>3, <2>5 DEF CountsTyped
  <2>7. Moves(r) /\ KeepsIds(r) /\ pc'[r] = "insertId"
        BY <1>2, <2>1 DEF ThreadsTyped, Goto, Threads, KeepsIds, KeepsDevIds, Moves
  <2>8. Others(r)
        BY <1>3, <2>7 DEF Others, Moves
  <2>9. ThreadsTyped'
        BY <1>1, <1>2, <2>7, ThreadsStay
  <2>10. InsertsComputer(r)
        BY <1>1, <1>3, <1>4, <2>1, <2>3, <2>7 DEF InsertsComputer
  <2> QED BY <2>4, <2>6, <2>8, <2>9, <2>10 DEF StoreTypes
<1>5. CASE o # "ok"
  <2>1. UNCHANGED <<computer_table, last_rowid, inserted>>
        BY <1>5 DEF InsertComputer
  <2>2. Moves(r) /\ KeepsIds(r) /\ pc'[r] \in {"insertId", "update", "return"}
    <3>1. CASE o = "refused"
      <4>1. Added(r, mem[r])
            BY <3>1 DEF InsertComputer
      <4>2. pc[r] # "off"
            BY <1>1
      <4> QED BY <1>2, <4>1, <4>2, AddedDoes
    <3>2. CASE o # "refused"
      <4>1. Goto(r, "insertId") /\ UNCHANGED <<mem, todo>>
            BY <3>2 DEF InsertComputer
      <4> QED BY <1>2, <4>1 DEF ThreadsTyped, Goto, Threads, KeepsIds, KeepsDevIds, Moves
    <3> QED BY <3>1, <3>2
  <2>3. TablesTyped' /\ CountsTyped'
        BY <1>1, <1>2, <1>3, <2>1 DEF TablesTyped, CountsTyped
  <2>4. Others(r)
        BY <1>3, <2>2 DEF Others, Moves
  <2>5. ThreadsTyped'
        BY <1>1, <1>2, <2>2, ThreadsStay
  <2>6. Fails(r)
        BY <1>1, <1>3, <1>5, <2>1, <2>2 DEF Fails, db
  <2> QED BY <2>3, <2>4, <2>5, <2>6 DEF StoreTypes
<1> QED BY <1>4, <1>5

LEMMA ReadComputerIdDoes ==
    ASSUME StoreTypes, NEW r \in Reporters, ReadComputerId(r)
    PROVE  StoreTypes' /\ Others(r) /\ ReadsComputer(r)
<1> DEFINE n == [mem[r] EXCEPT !.id = last_rowid]
<1>1. /\ pc[r] = "insertId" /\ mem' = [mem EXCEPT ![r] = n]
      /\ todo' = [todo EXCEPT ![r] = Known(mem[r])]
      /\ pc' = [pc EXCEPT ![r] = "dev"]
      /\ UNCHANGED <<db, arg, rid, inserted, hit, cmd, cmd_ids, sessions, faults>>
      BY DEF ReadComputerId, Put, Goto
<1>2. mem[r] \in Computers /\ ThreadsTyped /\ CountsTyped /\ TablesTyped
      BY DEF StoreTypes, ThreadsTyped
<1>3. n \in Computers /\ n.id = last_rowid /\ n.devs = mem[r].devs
      BY <1>2 DEF Computers, TablesTyped
<1> HIDE DEF n
<1>4. Known(mem[r]) \subseteq Devs
      BY DEF Known
<1>5. Moves(r) /\ pc'[r] = "dev" /\ mem'[r] = n
      BY <1>1, <1>2, <1>3, <1>4 DEF ThreadsTyped, Moves, Threads
<1>6. Others(r)
      BY <1>1, <1>5 DEF Others, Moves
<1>7. ThreadsTyped'
  <2>1. \A d \in todo'[r] : mem'[r].devs[d].known
        BY <1>1, <1>2, <1>3, <1>5 DEF ThreadsTyped, Known
  <2> QED BY <1>1, <1>2, <1>5, <2>1, ThreadsStay
<1>8. TablesTyped' /\ CountsTyped'
      BY <1>1, <1>2 DEF TablesTyped, CountsTyped, db
<1>9. ReadsComputer(r)
      BY <1>1, <1>3, <1>5 DEF ReadsComputer, KeepsDevIds
<1> QED BY <1>6, <1>7, <1>8, <1>9 DEF StoreTypes

WithRow(m, d, i) == [m EXCEPT !.devs[d].id = i, !.devs[d].dirty = FALSE]

\* A device of a computer is given its row, or marked.
LEMMA DeviceSet ==
    ASSUME NEW m \in Computers, NEW d \in Devs, NEW i \in Int, m.devs[d].known
    PROVE  LET n == WithRow(m, d, i)
           IN  /\ n \in Computers /\ n.id = m.id /\ n.sys = m.sys
               /\ \A e \in Devs : n.devs[e].id = IF e = d THEN i ELSE m.devs[e].id
               /\ \A e \in Devs : /\ n.devs[e].known = m.devs[e].known
                                  /\ n.devs[e].info = m.devs[e].info
<1> DEFINE x == [m.devs[d] EXCEPT !.id = i, !.dirty = FALSE]
           n == WithRow(m, d, i)
<1>1. m.devs \in [Devs -> Devices] /\ m.devs[d] \in Devices
      BY DEF Computers
<1>2. x \in Devices /\ x.id = i /\ x.known = m.devs[d].known
      /\ x.info = m.devs[d].info
      BY <1>1 DEF Devices, Device
<1>3. n = [m EXCEPT !.devs = [m.devs EXCEPT ![d] = x]]
      BY <1>1 DEF Computers, WithRow
<1> HIDE DEF x, n
<1> DEFINE devs == [m.devs EXCEPT ![d] = x]
<1>4. /\ devs \in [Devs -> Devices]
      /\ \A e \in Devs : devs[e].id = IF e = d THEN i ELSE m.devs[e].id
      /\ \A e \in Devs : devs[e].known = m.devs[e].known /\ devs[e].info = m.devs[e].info
      BY <1>1, <1>2
<1>5. n = [m EXCEPT !.devs = devs]
      BY <1>3
<1> HIDE DEF devs
<1>6. n \in Computers /\ n.id = m.id /\ n.sys = m.sys /\ n.devs = devs
      BY <1>4, <1>5 DEF Computers
<1> QED BY <1>4, <1>6 DEF n

LEMMA DeviceMarked ==
    ASSUME NEW m \in Computers, NEW d \in Devs, NEW b \in BOOLEAN
    PROVE  LET n == [m EXCEPT !.devs[d].dirty = b]
           IN  /\ n \in Computers /\ n.id = m.id /\ n.sys = m.sys
               /\ \A e \in Devs : n.devs[e].id = m.devs[e].id
               /\ \A e \in Devs : /\ n.devs[e].known = m.devs[e].known
                                  /\ n.devs[e].info = m.devs[e].info
<1> DEFINE x == [m.devs[d] EXCEPT !.dirty = b]
           n == [m EXCEPT !.devs[d].dirty = b]
           devs == [m.devs EXCEPT ![d] = x]
<1>1. m.devs \in [Devs -> Devices] /\ m.devs[d] \in Devices
      BY DEF Computers
<1>2. x \in Devices /\ x.id = m.devs[d].id /\ x.known = m.devs[d].known
      /\ x.info = m.devs[d].info
      BY <1>1 DEF Devices, Device
<1>3. n = [m EXCEPT !.devs = devs]
      BY <1>1 DEF Computers
<1> HIDE DEF x, n
<1>4. /\ devs \in [Devs -> Devices] /\ \A e \in Devs : devs[e].id = m.devs[e].id
      /\ \A e \in Devs : devs[e].known = m.devs[e].known /\ devs[e].info = m.devs[e].info
      BY <1>1, <1>2
<1> HIDE DEF devs
<1>5. n \in Computers /\ n.id = m.id /\ n.sys = m.sys /\ n.devs = devs
      BY <1>3, <1>4 DEF Computers
<1> QED BY <1>4, <1>5 DEF n

LEMMA InsertDeviceDoes ==
    ASSUME StoreTypes, NEW r \in Reporters, NEW o, InsertDevice(r, o)
    PROVE  StoreTypes' /\ Others(r) /\ (InsertsDevice(r) \/ Fails(r))
<1>1. /\ pc[r] = "dev" /\ todo[r] # {} /\ Outcome(r, o)
      /\ UNCHANGED <<computer_table, executor_table, arg, rid, inserted, cmd, cmd_ids, sessions>>
      BY DEF InsertDevice
<1>2. mem[r] \in Computers /\ ThreadsTyped /\ CountsTyped /\ TablesTyped
      BY DEF StoreTypes, ThreadsTyped
<1>3. /\ faults' \in 0..MaxFaults
      /\ hit' \in [Reporters -> {"never", "before", "now"}]
      /\ o = "ok" => UNCHANGED <<faults, hit>>
      /\ o # "ok" => faults' # 0 /\ hit'[r] = "now"
      /\ \A q \in Reporters : q # r => hit'[q] = hit[q]
      BY <1>1, <1>2, OutcomeTyped
<1>4. At(r) \in todo[r] /\ At(r) \in Devs /\ todo[r] \subseteq Devs
      BY <1>1, <1>2 DEF At, ThreadsTyped
<1>5. CountsTyped'
      BY <1>1, <1>2, <1>3 DEF CountsTyped
<1>6. CASE o = "ok"
  <2> DEFINE row == [computer |-> mem[r].id, dev |-> At(r), info |-> mem[r].devs[At(r)].info,
                     connected |-> TRUE]
  <2>1. /\ storage_table' = Append(storage_table, row)
        /\ last_rowid' = Len(storage_table) + 1
        /\ Goto(r, "devId") /\ UNCHANGED <<mem, todo>>
        BY <1>6 DEF InsertDevice
  <2>2. row \in StorageRow /\ row.computer = mem[r].id /\ row.dev = At(r)
    <3>1. mem[r].devs[At(r)] \in Devices /\ mem[r].id \in Int
          BY <1>2, <1>4 DEF Computers
    <3>2. mem[r].devs[At(r)].info \in Info
          BY <3>1 DEF Devices, Device
    <3> QED BY <1>4, <3>1, <3>2 DEF StorageRow
  <2> HIDE DEF row
  <2>3. /\ storage_table' \in Seq(StorageRow) /\ last_rowid' \in Nat
        /\ Len(storage_table') = Len(storage_table) + 1
        BY <1>2, <2>1, <2>2 DEF TablesTyped
  <2>4. TablesTyped'
        BY <1>1, <1>2, <2>3 DEF TablesTyped
  <2>5. Moves(r) /\ pc'[r] = "devId" /\ mem' = mem /\ todo' = todo
        BY <1>2, <2>1 DEF ThreadsTyped, Goto, Threads, Moves
  <2>6. Others(r)
        BY <1>3, <2>5 DEF Others, Moves
  <2>7. ThreadsTyped'
    <3>1. \A d \in todo'[r] : mem'[r].devs[d].known
          BY <1>1, <1>2, <2>5 DEF ThreadsTyped
    <3> QED BY <1>1, <1>2, <2>5, <3>1, ThreadsStay
  <2>8. InsertsDevice(r)
        BY <1>1, <1>3, <1>6, <2>1, <2>2, <2>3, <2>5 DEF InsertsDevice
  <2> QED BY <1>5, <2>4, <2>6, <2>7, <2>8 DEF StoreTypes
<1>7. CASE o # "ok"
  <2>1. UNCHANGED <<storage_table, last_rowid>>
        BY <1>7 DEF InsertDevice
  <2>2. TablesTyped'
        BY <1>1, <1>2, <2>1 DEF TablesTyped
  <2>3. /\ Moves(r) /\ KeepsIds(r) /\ pc'[r] \in {"dev", "devId"}
        /\ pc'[r] = "devId" => todo'[r] # {}
        /\ \A d \in todo'[r] : mem'[r].devs[d].known
    <3>1. CASE o = "refused"
      <4> DEFINE n == [mem[r] EXCEPT !.devs[At(r)].dirty = TRUE]
      <4>1. /\ mem' = [mem EXCEPT ![r] = n]
            /\ todo' = [todo EXCEPT ![r] = todo[r] \ {At(r)}]
            /\ UNCHANGED pc
            BY <3>1 DEF InsertDevice, Put
      <4>2. /\ n \in Computers /\ n.id = mem[r].id
            /\ \A e \in Devs : n.devs[e].id = mem[r].devs[e].id
            /\ \A e \in Devs : n.devs[e].known = mem[r].devs[e].known
            BY <1>2, <1>4, DeviceMarked
      <4> HIDE DEF n
      <4>3. Moves(r) /\ mem'[r] = n /\ todo'[r] = todo[r] \ {At(r)} /\ pc'[r] = "dev"
            BY <1>1, <1>2, <1>4, <4>1, <4>2 DEF ThreadsTyped, Moves
      <4>4. \A d \in todo[r] : mem[r].devs[d].known
            BY <1>1, <1>2 DEF ThreadsTyped
      <4> QED BY <1>4, <4>2, <4>3, <4>4 DEF KeepsIds, KeepsDevIds
    <3>2. CASE o # "refused"
      <4>1. Goto(r, "devId") /\ UNCHANGED <<mem, todo>>
            BY <3>2 DEF InsertDevice
      <4>2. Moves(r) /\ pc'[r] = "devId" /\ KeepsIds(r)
            BY <1>2, <4>1 DEF ThreadsTyped, Goto, Threads, Moves, KeepsIds, KeepsDevIds
      <4>3. \A d \in todo[r] : mem[r].devs[d].known
            BY <1>1, <1>2 DEF ThreadsTyped
      <4> QED BY <1>1, <4>1, <4>2, <4>3
    <3> QED BY <3>1, <3>2
  <2>4. Others(r)
        BY <1>3, <2>3 DEF Others, Moves
  <2>5. ThreadsTyped'
        BY <1>1, <1>2, <2>3, ThreadsStay
  <2>6. Fails(r)
        BY <1>1, <1>3, <1>7, <2>1, <2>3 DEF Fails, db
  <2> QED BY <1>5, <2>2, <2>4, <2>5, <2>6 DEF StoreTypes
<1> QED BY <1>6, <1>7

LEMMA ReadDeviceIdDoes ==
    ASSUME StoreTypes, NEW r \in Reporters, ReadDeviceId(r)
    PROVE  StoreTypes' /\ Others(r) /\ ReadsDevice(r)
<1> DEFINE n == WithRow(mem[r], At(r), last_rowid)
<1>1. /\ pc[r] = "devId" /\ mem' = [mem EXCEPT ![r] = n]
      /\ todo' = [todo EXCEPT ![r] = todo[r] \ {At(r)}]
      /\ pc' = [pc EXCEPT ![r] = "dev"]
      /\ UNCHANGED <<db, arg, rid, inserted, hit, cmd, cmd_ids, sessions, faults>>
      BY DEF ReadDeviceId, Put, Goto, WithRow
<1>2. mem[r] \in Computers /\ ThreadsTyped /\ CountsTyped /\ TablesTyped
      BY DEF StoreTypes, ThreadsTyped
<1>3. At(r) \in todo[r] /\ At(r) \in Devs /\ todo[r] \subseteq Devs
      BY <1>1, <1>2 DEF At, ThreadsTyped
<1>4. \A d \in todo[r] : mem[r].devs[d].known
      BY <1>1, <1>2 DEF ThreadsTyped
<1>5. last_rowid \in Int /\ mem[r].devs[At(r)].known
      BY <1>2, <1>3, <1>4 DEF TablesTyped
<1>6. /\ n \in Computers /\ n.id = mem[r].id
      /\ \A e \in Devs : n.devs[e].id = IF e = At(r) THEN last_rowid ELSE mem[r].devs[e].id
      /\ \A e \in Devs : n.devs[e].known = mem[r].devs[e].known
      BY <1>2, <1>3, <1>5, DeviceSet
<1> HIDE DEF n
<1>7. Moves(r) /\ pc'[r] = "dev" /\ mem'[r] = n /\ todo'[r] = todo[r] \ {At(r)}
      BY <1>1, <1>2, <1>3, <1>6 DEF ThreadsTyped, Moves, Threads
<1>8. Others(r)
      BY <1>1, <1>7 DEF Others, Moves
<1>9. ThreadsTyped'
  <2>1. \A d \in todo'[r] : mem'[r].devs[d].known
        BY <1>3, <1>4, <1>6, <1>7
  <2> QED BY <1>1, <1>2, <1>7, <2>1, ThreadsStay
<1>10. TablesTyped' /\ CountsTyped'
      BY <1>1, <1>2 DEF TablesTyped, CountsTyped, db
<1>11. ReadsDevice(r)
      BY <1>1, <1>6, <1>7 DEF ReadsDevice
<1> QED BY <1>8, <1>9, <1>10, <1>11 DEF StoreTypes

LEMMA InsertedAllDoes ==
    ASSUME StoreTypes, NEW r \in Reporters, InsertedAll(r)
    PROVE  StoreTypes' /\ Others(r) /\ Goes(r)
<1>1. /\ pc[r] = "dev" /\ Added(r, mem[r])
      /\ UNCHANGED <<db, arg, rid, inserted, hit, cmd, cmd_ids, sessions, faults>>
      BY DEF InsertedAll
<1>2. ThreadsTyped /\ CountsTyped /\ TablesTyped /\ pc[r] # "off"
      BY <1>1 DEF StoreTypes
<1>3. Moves(r) /\ KeepsIds(r) /\ pc'[r] \in {"update", "return"}
      BY <1>1, <1>2, AddedDoes
<1>4. Others(r)
      BY <1>1, <1>3 DEF Others, Moves
<1>5. ThreadsTyped'
      BY <1>1, <1>2, <1>3, ThreadsStay
<1>6. TablesTyped' /\ CountsTyped'
      BY <1>1, <1>2 DEF TablesTyped, CountsTyped, db
<1>7. sessions' >= sessions
      BY <1>1, <1>2 DEF CountsTyped
<1>8. Goes(r)
      BY <1>1, <1>3, <1>7 DEF Goes, SameRows, KeepsIds, KeepsDevIds, HasRow, db
<1> QED BY <1>4, <1>5, <1>6, <1>8 DEF StoreTypes

\* A row of a table is replaced.
LEMMA RowReplaced ==
    ASSUME NEW S, NEW t \in Seq(S), NEW k \in DOMAIN t, NEW x \in S
    PROVE  /\ [t EXCEPT ![k] = x] \in Seq(S) /\ Len([t EXCEPT ![k] = x]) = Len(t)
           /\ \A j \in 1..Len(t) : [t EXCEPT ![k] = x][j] = IF j = k THEN x ELSE t[j]
<1> DEFINE u == [t EXCEPT ![k] = x]
<1>1. Len(t) \in Nat /\ t \in [1..Len(t) -> S]
      OBVIOUS
<1>2. u \in [1..Len(t) -> S] /\ \A j \in 1..Len(t) : u[j] = IF j = k THEN x ELSE t[j]
      BY <1>1
<1> HIDE DEF u
<1>3. u \in Seq(S) /\ Len(u) = Len(t)
      BY <1>1, <1>2
<1> QED BY <1>2, <1>3 DEF u

LEMMA UpdateComputerDoes ==
    ASSUME StoreTypes, NEW r \in Reporters, NEW o, UpdateComputer(r, o)
    PROVE  StoreTypes' /\ Others(r) /\ Goes(r)
<1> DEFINE n == [mem[r] EXCEPT !.dirty = (mem[r].dirty /\ o = "refused")]
<1>1. /\ pc[r] = "update" /\ Outcome(r, o) /\ Goto(r, "updateDevs")
      /\ Put(r, n)
      /\ UNCHANGED <<storage_table, executor_table, last_rowid, arg, todo, rid, inserted,
                     cmd, cmd_ids, sessions>>
      BY DEF UpdateComputer
<1>2. mem[r] \in Computers /\ ThreadsTyped /\ CountsTyped /\ TablesTyped
      BY DEF StoreTypes, ThreadsTyped
<1>3. /\ faults' \in 0..MaxFaults
      /\ hit' \in [Reporters -> {"never", "before", "now"}]
      /\ faults' = 0 => faults = 0
      /\ hit'[r] # "now" => hit[r] # "now"
      /\ \A q \in Reporters : q # r => hit'[q] = hit[q]
      BY <1>1, <1>2, OutcomeTyped
<1>4. n \in Computers /\ n.id = mem[r].id /\ n.devs = mem[r].devs
      BY <1>2 DEF Computers
<1> HIDE DEF n
<1>5. "updateDevs" \in Threads
      BY DEF Threads
<1>6. Moves(r) /\ pc'[r] = "updateDevs" /\ mem'[r] = n
      BY <1>1, <1>2, <1>4, <1>5, PutDoes
<1>7. computer_table' \in Seq(StoredSystems) /\ Len(computer_table') = Len(computer_table)
  <2>1. CASE o = "ok" /\ mem[r].dirty /\ mem[r].id \in DOMAIN computer_table
    <3>1. computer_table' = [computer_table EXCEPT ![mem[r].id] = mem[r].sys]
          BY <2>1 DEF UpdateComputer
    <3>2. mem[r].sys \in StoredSystems
          BY <1>2 DEF Computers
    <3> QED BY <1>2, <2>1, <3>1, <3>2, RowReplaced DEF TablesTyped
  <2>2. CASE ~(o = "ok" /\ mem[r].dirty /\ mem[r].id \in DOMAIN computer_table)
        BY <1>2, <2>2 DEF UpdateComputer, TablesTyped
  <2> QED BY <2>1, <2>2
<1>8. TablesTyped' /\ CountsTyped'
      BY <1>1, <1>2, <1>3, <1>7 DEF TablesTyped, CountsTyped
<1>9. Others(r)
      BY <1>3, <1>6 DEF Others, Moves
<1>10. ThreadsTyped'
      BY <1>1, <1>2, <1>6, ThreadsStay
<1>11. sessions' >= sessions
      BY <1>1, <1>2 DEF CountsTyped
<1>12. Goes(r)
      BY <1>1, <1>3, <1>4, <1>6, <1>7, <1>11 DEF Goes, SameRows, HasRow
<1> QED BY <1>8, <1>9, <1>10, <1>12 DEF StoreTypes

WithInfo(t, k, i, b) == [t EXCEPT ![k].info = i, ![k].connected = b]

\* UPDATE changes what a row says of its device, never whose it is.
LEMMA RowUpdated ==
    ASSUME TablesTyped, NEW k \in DOMAIN storage_table, NEW i \in Info, NEW b \in BOOLEAN
    PROVE  LET t == WithInfo(storage_table, k, i, b)
           IN  /\ t \in Seq(StorageRow) /\ Len(t) = Len(storage_table)
               /\ \A j \in 1..Len(storage_table) : /\ t[j].computer = storage_table[j].computer
                                                   /\ t[j].dev = storage_table[j].dev
<1> DEFINE row == [storage_table[k] EXCEPT !.info = i, !.connected = b]
           t == WithInfo(storage_table, k, i, b)
<1>1. storage_table \in Seq(StorageRow) /\ storage_table[k] \in StorageRow
      BY DEF TablesTyped
<1>2. /\ row \in StorageRow
      /\ row.computer = storage_table[k].computer /\ row.dev = storage_table[k].dev
      BY <1>1 DEF StorageRow
<1>3. t = [storage_table EXCEPT ![k] = row]
      BY <1>1 DEF WithInfo
<1> HIDE DEF row, t
<1>4. /\ t \in Seq(StorageRow) /\ Len(t) = Len(storage_table)
      /\ \A j \in 1..Len(storage_table) : t[j] = IF j = k THEN row ELSE storage_table[j]
      BY <1>1, <1>2, <1>3
<1>5. \A j \in 1..Len(storage_table) : /\ t[j].computer = storage_table[j].computer
                                       /\ t[j].dev = storage_table[j].dev
      BY <1>2, <1>4
<1> QED BY <1>4, <1>5 DEF t

LEMMA UpdateDeviceDoes ==
    ASSUME StoreTypes, NEW r \in Reporters, NEW o, UpdateDevice(r, o)
    PROVE  StoreTypes' /\ Others(r) /\ Goes(r)
<1> DEFINE dev == mem[r].devs[At(r)]
           b == (o = "refused")
           n == [mem[r] EXCEPT !.devs[At(r)].dirty = b]
<1>1. /\ pc[r] = "updateDevs" /\ todo[r] # {} /\ Outcome(r, o)
      /\ mem' = [mem EXCEPT ![r] = n]
      /\ todo' = [todo EXCEPT ![r] = todo[r] \ {At(r)}]
      /\ UNCHANGED <<computer_table, executor_table, last_rowid, pc, arg, rid, inserted,
                     cmd, cmd_ids, sessions>>
      BY DEF UpdateDevice, Put
<1>2. mem[r] \in Computers /\ ThreadsTyped /\ CountsTyped /\ TablesTyped
      BY DEF StoreTypes, ThreadsTyped
<1>3. /\ faults' \in 0..MaxFaults
      /\ hit' \in [Reporters -> {"never", "before", "now"}]
      /\ faults' = 0 => faults = 0
      /\ hit'[r] # "now" => hit[r] # "now"
      /\ \A q \in Reporters : q # r => hit'[q] = hit[q]
      BY <1>1, <1>2, OutcomeTyped
<1>4. At(r) \in todo[r] /\ At(r) \in Devs /\ todo[r] \subseteq Devs
      BY <1>1, <1>2 DEF At, ThreadsTyped
<1>5. /\ n \in Computers /\ n.id = mem[r].id
      /\ \A e \in Devs : n.devs[e].id = mem[r].devs[e].id
  <2>1. b \in BOOLEAN
        OBVIOUS
  <2> HIDE DEF b
  <2> QED BY <1>2, <1>4, <2>1, DeviceMarked
<1> HIDE DEF n
<1>6. Moves(r) /\ pc'[r] = "updateDevs" /\ mem'[r] = n
      BY <1>1, <1>2, <1>4, <1>5 DEF ThreadsTyped, Moves
<1>7. /\ storage_table' \in Seq(StorageRow) /\ Len(storage_table') = Len(storage_table)
      /\ \A k \in 1..Len(storage_table) :
            /\ storage_table'[k].computer = storage_table[k].computer
            /\ storage_table'[k].dev = storage_table[k].dev
  <2>1. CASE o = "ok" /\ dev.id \in DOMAIN storage_table
    <3>1. storage_table' = WithInfo(storage_table, dev.id, dev.info, dev.connected)
          BY <2>1 DEF UpdateDevice, WithInfo
    <3>2. dev \in Devices
          BY <1>2, <1>4 DEF Computers
    <3>3. dev.info \in Info /\ dev.connected \in BOOLEAN
          BY <3>2 DEF Devices, Device
    <3> HIDE DEF dev
    <3> QED BY <1>2, <2>1, <3>1, <3>3, RowUpdated
  <2>2. CASE ~(o = "ok" /\ dev.id \in DOMAIN storage_table)
        BY <1>2, <2>2 DEF UpdateDevice, TablesTyped
  <2> QED BY <2>1, <2>2
<1>8. TablesTyped' /\ CountsTyped'
      BY <1>1, <1>2, <1>3, <1>7 DEF TablesTyped, CountsTyped
<1>9. Others(r)
      BY <1>3, <1>6 DEF Others, Moves
<1>10. ThreadsTyped'
      BY <1>1, <1>2, <1>6, ThreadsStay
<1>11. sessions' >= sessions
      BY <1>1, <1>2 DEF CountsTyped
<1>12. Goes(r)
      BY <1>1, <1>3, <1>5, <1>6, <1>7, <1>11 DEF Goes, SameRows, HasRow
<1> QED BY <1>8, <1>9, <1>10, <1>12 DEF StoreTypes

LEMMA UpdatedAllDoes ==
    ASSUME StoreTypes, NEW r \in Reporters, UpdatedAll(r)
    PROVE  StoreTypes' /\ Others(r) /\ Goes(r)
<1>1. /\ pc[r] = "updateDevs" /\ pc' = [pc EXCEPT ![r] = "return"]
      /\ UNCHANGED <<db, mem, arg, todo, rid, inserted, hit, cmd, cmd_ids, sessions, faults>>
      BY DEF UpdatedAll, Goto
<1>2. ThreadsTyped /\ CountsTyped /\ TablesTyped
      BY DEF StoreTypes
<1>3. Moves(r) /\ pc'[r] = "return"
      BY <1>1, <1>2 DEF ThreadsTyped, Moves, Threads
<1>4. Others(r)
      BY <1>1, <1>3 DEF Others, Moves
<1>5. ThreadsTyped'
      BY <1>1, <1>2, <1>3, ThreadsStay
<1>6. TablesTyped' /\ CountsTyped'
      BY <1>1, <1>2 DEF TablesTyped, CountsTyped, db
<1>7. sessions' >= sessions
      BY <1>1, <1>2 DEF CountsTyped
<1>8. Goes(r)
      BY <1>1, <1>3, <1>7 DEF Goes, SameRows, HasRow, db
<1> QED BY <1>4, <1>5, <1>6, <1>8 DEF StoreTypes

\* A thread that only goes on to another place.
LEMMA OnlyMoves ==
    ASSUME StoreTypes, NEW r \in Reporters, pc[r] # "off", NEW l \in {"ready", "off"},
           pc' = [pc EXCEPT ![r] = l], rid' \in [Reporters -> Int],
           UNCHANGED <<db, mem, arg, todo, inserted, hit, cmd, cmd_ids, sessions, faults>>
    PROVE  StoreTypes' /\ Others(r) /\ pc'[r] = l
<1>1. ThreadsTyped /\ CountsTyped /\ TablesTyped
      BY DEF StoreTypes
<1>2. pc' \in [Reporters -> Threads] /\ pc'[r] = l /\ \A q \in Reporters : q # r => pc'[q] = pc[q]
      BY <1>1 DEF ThreadsTyped, Threads
<1>3. Others(r)
      BY <1>2 DEF Others
<1>4. ThreadsTyped'
  <2>1. ASSUME NEW q \in Reporters
        PROVE  /\ pc'[q] # "off" => arg'[q] \in Machines
               /\ pc'[q] = "devId" => todo'[q] # {}
               /\ pc'[q] \in {"dev", "devId"} => \A d \in todo'[q] : mem'[q].devs[d].known
    <3>1. CASE q = r
          BY <1>1, <1>2, <3>1 DEF ThreadsTyped
    <3>2. CASE q # r
          BY <1>1, <1>2, <3>2 DEF ThreadsTyped
    <3> QED BY <3>1, <3>2
  <2> QED BY <1>1, <1>2, <2>1 DEF ThreadsTyped
<1>5. TablesTyped' /\ CountsTyped'
      BY <1>1 DEF TablesTyped, CountsTyped, db
<1> QED BY <1>2, <1>3, <1>4, <1>5 DEF StoreTypes

LEMMA ReturnDoes ==
    ASSUME StoreTypes, NEW r \in Reporters, Return(r)
    PROVE  StoreTypes' /\ Others(r) /\ Answers(r)
<1>1. /\ pc[r] = "return"
      /\ UNCHANGED <<db, mem, arg, todo, inserted, hit, cmd, cmd_ids, sessions, faults>>
      BY DEF Return
<1>2. rid \in [Reporters -> Int] /\ mem[r].id \in Int
      BY DEF StoreTypes, ThreadsTyped, Computers
<1>3. PICK l \in {"ready", "off"} :
         /\ pc' = [pc EXCEPT ![r] = l]
         /\ l = "ready" => rid' = [rid EXCEPT ![r] = mem[r].id]
         /\ l = "off" => rid' = rid
      BY DEF Return, Goto
<1>4. rid' \in [Reporters -> Int]
      BY <1>2, <1>3
<1>5. StoreTypes' /\ Others(r) /\ pc'[r] = l
      BY <1>1, <1>3, <1>4, OnlyMoves
<1>6. Answers(r)
      BY <1>1, <1>3, <1>5 DEF Answers
<1> QED BY <1>5, <1>6

LEMMA DisconnectDoes ==
    ASSUME StoreTypes, NEW r \in Reporters, Disconnect(r)
    PROVE  StoreTypes' /\ Others(r) /\ Leaves(r)
<1>1. /\ pc[r] = "ready" /\ pc' = [pc EXCEPT ![r] = "off"]
      /\ UNCHANGED <<db, mem, arg, todo, rid, inserted, hit, cmd, cmd_ids, sessions, faults>>
      BY DEF Disconnect, Goto
<1>2. rid' \in [Reporters -> Int]
      BY <1>1 DEF StoreTypes, ThreadsTyped
<1>3. StoreTypes' /\ Others(r) /\ pc'[r] = "off"
      BY <1>1, <1>2, OnlyMoves
<1> QED BY <1>1, <1>3 DEF Leaves

LEMMA ReporterDoes ==
    ASSUME StoreTypes, NEW r \in Reporters, Begin(r) \/ Continue(r) \/ Disconnect(r)
    PROVE  StoreTypes' /\ Others(r) /\ Shape(r)
<1>1. ASSUME NEW mc \in Machines, Handshake(r, mc) PROVE StoreTypes' /\ Others(r) /\ Shape(r)
      BY <1>1, HandshakeDoes DEF Shape
<1>2. ASSUME NEW mc \in Machines, SendSysInfo(r, mc) PROVE StoreTypes' /\ Others(r) /\ Shape(r)
      BY <1>2, SendDoes DEF Shape
<1>3. ASSUME NEW o, Statement(r, o) PROVE StoreTypes' /\ Others(r) /\ Shape(r)
      BY <1>3, FetchComputerDoes, FetchStorageDoes, InsertComputerDoes, InsertDeviceDoes,
         UpdateComputerDoes, UpdateDeviceDoes DEF Statement, Shape
<1>4. ASSUME ReadComputerId(r) PROVE StoreTypes' /\ Others(r) /\ Shape(r)
      BY <1>4, ReadComputerIdDoes DEF Shape
<1>5. ASSUME ReadDeviceId(r) PROVE StoreTypes' /\ Others(r) /\ Shape(r)
      BY <1>5, ReadDeviceIdDoes DEF Shape
<1>6. ASSUME InsertedAll(r) PROVE StoreTypes' /\ Others(r) /\ Shape(r)
      BY <1>6, InsertedAllDoes DEF Shape
<1>7. ASSUME UpdatedAll(r) PROVE StoreTypes' /\ Others(r) /\ Shape(r)
      BY <1>7, UpdatedAllDoes DEF Shape
<1>8. ASSUME Return(r) PROVE StoreTypes' /\ Others(r) /\ Shape(r)
      BY <1>8, ReturnDoes DEF Shape
<1>9. ASSUME Disconnect(r) PROVE StoreTypes' /\ Others(r) /\ Shape(r)
      BY <1>9, DisconnectDoes DEF Shape
<1> QED BY <1>1, <1>2, <1>3, <1>4, <1>5, <1>6, <1>7, <1>8, <1>9 DEF Begin, Continue

-----------------------------------------------------------------------------
(* Steps of the whole, and what they keep *)

\* The terminal moves no thread and changes no table of computers.
TerminalStep ==
    /\ UNCHANGED <<computer_table, storage_table, mem, pc, arg, todo, rid, inserted, hit,
                   sessions, faults>>
    /\ executor_table' \in 0..MaxCommands /\ last_rowid' \in Nat /\ cmd' \in 0..MaxCommands

LEMMA TerminalDoes ==
    ASSUME StoreTypes, InsertExecutor \/ ReadExecutorId
    PROVE  StoreTypes' /\ TerminalStep
<1>1. executor_table \in 0..MaxCommands /\ last_rowid \in Nat /\ cmd \in 0..MaxCommands
      BY DEF StoreTypes, TablesTyped
<1>2. TerminalStep
      BY <1>1, Bounds DEF InsertExecutor, ReadExecutorId, TerminalStep, db
<1>3. ThreadsTyped' /\ CountsTyped'
      BY <1>2 DEF StoreTypes, ThreadsTyped, CountsTyped, TerminalStep
<1> QED BY <1>2, <1>3 DEF StoreTypes, TablesTyped, TerminalStep

LEMMA TypesStep ==
    ASSUME StoreTypes, [Next]_vars
    PROVE  StoreTypes'
<1>1. ASSUME UNCHANGED vars
      PROVE  StoreTypes'
      BY <1>1 DEF vars, StoreTypes, ThreadsTyped, CountsTyped, TablesTyped
<1> QED BY <1>1, ReporterDoes, TerminalDoes DEF Next, Over

LEMMA TypesInit == Init => StoreTypes
<1> SUFFICES ASSUME Init PROVE StoreTypes
    OBVIOUS
<1>1. RmsComputer(-1) \in Computers
      BY FreshTyped
<1>2. \A x \in StartIds : x \in Int
  <2>1. StartIds \subseteq Nat \cup {-1}
        BY StoreAssumption
  <2> QED BY <2>1
<1>3. rid \in [Reporters -> Int]
      BY <1>2 DEF Init
<1> QED BY <1>1, <1>3, Bounds
           DEF Init, StoreTypes, TablesTyped, CountsTyped, ThreadsTyped, Threads

\* A step of one call at a time: of a thread while the others do nothing, or of
\* the terminal.
Turn(r) == /\ cmd = 0 /\ \A q \in Reporters : q # r => Idle(q)
           /\ Others(r) /\ Shape(r)

TerminalTurn == (\A q \in Reporters : Idle(q)) /\ TerminalStep

LEMMA SerialTurn ==
    ASSUME StoreTypes, OneCall, [SerialNext]_vars
    PROVE  (\E r \in Reporters : Turn(r)) \/ TerminalTurn \/ UNCHANGED vars
<1>1. ASSUME NEW r \in Reporters, cmd = 0, \A q \in Reporters \ {r} : Idle(q),
             Begin(r) \/ Continue(r) \/ Disconnect(r)
      PROVE  Turn(r)
      BY <1>1, ReporterDoes DEF Turn
<1>2. ASSUME InsertExecutor, \A r \in Reporters : Idle(r)
      PROVE  TerminalTurn
      BY <1>2, TerminalDoes DEF TerminalTurn
<1>3. ASSUME ReadExecutorId
      PROVE  TerminalTurn
  <2>1. cmd # 0
        BY <1>3 DEF ReadExecutorId
  <2> QED BY <1>3, <2>1, TerminalDoes DEF TerminalTurn, OneCall
<1> QED BY <1>1, <1>2, <1>3 DEF SerialNext, Over

LEMMA OneCallStep ==
    ASSUME OneCall, (\E r \in Reporters : Turn(r)) \/ TerminalTurn \/ UNCHANGED vars
    PROVE  OneCall'
<1>1. ASSUME NEW r \in Reporters, Turn(r)
      PROVE  OneCall'
  <2>1. cmd' = 0
        BY <1>1 DEF Turn, Shape, Starts, Goes, Fails, Selects, InsertsComputer, ReadsComputer,
                    InsertsDevice, ReadsDevice, Answers, Leaves
  <2>2. \A q \in Reporters : q # r => Idle(q)'
        BY <1>1 DEF Turn, Others, Idle
  <2> QED BY <2>1, <2>2 DEF OneCall
<1>2. CASE TerminalTurn
      BY <1>2 DEF TerminalTurn, TerminalStep, OneCall, Idle
<1>3. CASE UNCHANGED vars
      BY <1>3 DEF vars, OneCall, Idle
<1> QED BY <1>1, <1>2, <1>3

LEMMA RowPerSessionStep ==
    ASSUME StoreTypes, StoreTypes', RowPerSession,
           (\E r \in Reporters : Turn(r)) \/ TerminalTurn \/ UNCHANGED vars
    PROVE  RowPerSession'
<1>0. Len(computer_table) \in Nat /\ sessions \in Nat /\ sessions' \in Nat
      BY Bounds DEF StoreTypes, TablesTyped, CountsTyped
<1>1. ASSUME NEW r \in Reporters, Turn(r)
      PROVE  RowPerSession'
  <2>1. \A q \in Reporters : pc'[q] \in {"fetch", "insert"} => q = r
        BY <1>1 DEF Turn, Others, Idle
  <2>2. Shape(r)
        BY <1>1 DEF Turn
  <2>3. CASE Starts(r)
    <3>1. Len(computer_table') = Len(computer_table) /\ sessions' = sessions + 1
          BY <2>3 DEF Starts, db
    <3> QED BY <1>0, <2>1, <3>1 DEF RowPerSession
  <2>4. CASE Goes(r)
    <3>1. /\ Len(computer_table') = Len(computer_table) /\ sessions' >= sessions
          /\ pc'[r] \notin {"fetch", "insert"}
          BY <2>4 DEF Goes, SameRows
    <3> QED BY <1>0, <2>1, <3>1 DEF RowPerSession
  <2>5. CASE InsertsComputer(r)
    <3>1. /\ Len(computer_table') = Len(computer_table) + 1 /\ sessions' = sessions
          /\ pc[r] = "insert" /\ pc'[r] = "insertId"
          BY <2>5 DEF InsertsComputer
    <3> QED BY <1>0, <2>1, <3>1 DEF RowPerSession
  <2>6. CASE Fails(r) \/ Selects(r) \/ ReadsComputer(r) \/ InsertsDevice(r) \/ ReadsDevice(r)
                      \/ Answers(r) \/ Leaves(r)
    <3>1. /\ computer_table' = computer_table /\ sessions' = sessions
          /\ pc'[r] \in {"fetch", "insert"} => pc[r] \in {"fetch", "insert"}
          BY <2>6 DEF Fails, Selects, ReadsComputer, InsertsDevice, ReadsDevice, Answers,
                      Leaves, db
    <3> QED BY <1>0, <2>1, <3>1 DEF RowPerSession
  <2> QED BY <2>2, <2>3, <2>4, <2>5, <2>6 DEF Shape
<1>2. CASE TerminalTurn
      BY <1>2 DEF TerminalTurn, TerminalStep, RowPerSession
<1>3. CASE UNCHANGED vars
      BY <1>3 DEF vars, RowPerSession
<1> QED BY <1>1, <1>2, <1>3

LEMMA IdentifiersOwnedStep ==
    ASSUME StoreTypes, StoreTypes', RowPerSession, IdentifiersOwned,
           (\E r \in Reporters : Turn(r)) \/ TerminalTurn \/ UNCHANGED vars
    PROVE  IdentifiersOwned'
<1>0. Len(computer_table) \in Nat /\ MaxSessions \in Nat /\ sessions \in 0..MaxSessions
      /\ rid \in [Reporters -> Int]
      BY Bounds DEF StoreTypes, TablesTyped, CountsTyped, ThreadsTyped
<1>1. ASSUME NEW r \in Reporters, Turn(r), faults' = 0
      PROVE  IdentifiersOwned'
  <2>1. Shape(r) /\ Others(r) /\ ~Fails(r) /\ faults = 0
        BY <1>1 DEF Turn, Shape, Starts, Goes, Fails, Selects, InsertsComputer, ReadsComputer,
                    InsertsDevice, ReadsDevice, Answers, Leaves
  <2>2. /\ \A q \in Reporters : rid[q] \in {-1} \cup Rows \/ rid[q] > MaxSessions
        /\ \A p, q \in Reporters : rid[p] = rid[q] /\ rid[p] \in Rows => p = q
        /\ \A q \in Reporters : IdOf(q)
        BY <2>1 DEF IdentifiersOwned
  <2>3. Rows \subseteq Rows' /\ (~InsertsComputer(r) => Rows' = Rows)
    <3>1. \/ Len(computer_table') = Len(computer_table)
          \/ InsertsComputer(r) /\ Len(computer_table') = Len(computer_table) + 1
          BY <2>1 DEF Shape, Starts, Goes, SameRows, Selects, InsertsComputer, ReadsComputer,
                      InsertsDevice, ReadsDevice, Answers, Leaves, db
    <3> QED BY <1>0, <3>1 DEF Rows
  <2>4. \A q \in Reporters : q # r => rid'[q] = rid[q]
        BY <1>0, <2>1 DEF Shape, Starts, Goes, Selects, InsertsComputer, ReadsComputer,
                          InsertsDevice, ReadsDevice, Answers, Leaves
  <2>5. /\ ~Answers(r) => rid' = rid
        /\ Answers(r) => rid'[r] \in {rid[r], mem[r].id}
        BY <1>0, <2>1 DEF Shape, Starts, Goes, Selects, InsertsComputer, ReadsComputer,
                          InsertsDevice, ReadsDevice, Answers, Leaves
  <2>6. Answers(r) => mem[r].id \in Rows /\ \A q \in Reporters : q # r => rid[q] # mem[r].id
    <3>1. Answers(r) => pc[r] \in HasRow
          BY DEF Answers, HasRow
    <3> QED BY <2>2, <3>1 DEF IdOf
  <2>7. ASSUME NEW q \in Reporters
        PROVE  rid'[q] \in {-1} \cup Rows' \/ rid'[q] > MaxSessions
        BY <2>2, <2>3, <2>4, <2>5, <2>6
  <2>8. InsertsComputer(r) => /\ Len(computer_table') = Len(computer_table) + 1
                              /\ Rows' = Rows \cup {Len(computer_table')}
                              /\ last_rowid' = Len(computer_table')
                              /\ \A q \in Reporters : rid[q] # Len(computer_table')
    <3> SUFFICES ASSUME InsertsComputer(r)
                 PROVE  /\ Len(computer_table') = Len(computer_table) + 1
                        /\ Rows' = Rows \cup {Len(computer_table')}
                        /\ last_rowid' = Len(computer_table')
                        /\ \A q \in Reporters : rid[q] # Len(computer_table')
        OBVIOUS
    <3>1. /\ Len(computer_table') = Len(computer_table) + 1
          /\ last_rowid' = Len(computer_table') /\ pc[r] = "insert"
          BY DEF InsertsComputer
    <3>2. Len(computer_table') <= MaxSessions
          BY <1>0, <3>1 DEF RowPerSession
    <3>3. Rows' = Rows \cup {Len(computer_table')}
          BY <1>0, <3>1 DEF Rows
    <3>4. ASSUME NEW q \in Reporters
          PROVE  rid[q] # Len(computer_table')
          BY <1>0, <2>2, <3>1, <3>2 DEF Rows
    <3> QED BY <3>1, <3>3, <3>4
  <2>9. ASSUME NEW p \in Reporters, NEW q \in Reporters, rid'[p] = rid'[q], rid'[p] \in Rows'
        PROVE  p = q
    <3>1. CASE InsertsComputer(r)
      <4>1. rid' = rid
            BY <3>1, <2>5 DEF InsertsComputer, Answers
      <4> QED BY <2>2, <2>8, <2>9, <3>1, <4>1
    <3>2. CASE Answers(r)
      <4>1. Rows' = Rows
            BY <2>3, <3>2 DEF InsertsComputer, Answers
      <4> QED BY <2>2, <2>4, <2>5, <2>6, <2>9, <3>2, <4>1
    <3>3. CASE ~InsertsComputer(r) /\ ~Answers(r)
          BY <2>2, <2>3, <2>5, <2>9, <3>3
    <3> QED BY <3>1, <3>2, <3>3
  <2>10. ASSUME NEW q \in Reporters, q # r
         PROVE  IdOf(q)'
    <3>1. Idle(q) /\ pc'[q] = pc[q] /\ mem'[q] = mem[q] /\ rid'[q] = rid[q]
          BY <1>1, <2>4, <2>10 DEF Turn, Others
    <3>2. pc[q] = "ready" => mem[q].id = rid[q] /\ rid[q] \in Rows
          BY <2>2 DEF IdOf
    <3> QED BY <2>3, <3>1, <3>2 DEF IdOf, Idle, HasRow
  <2>11. IdOf(r)'
    <3>1. CASE Starts(r)
      <4>1. /\ pc'[r] \in {"fetch", "insert"} /\ mem'[r].id = rid[r] /\ rid' = rid
            /\ pc'[r] = "insert" => rid[r] = -1
            BY <3>1 DEF Starts
      <4>2. -1 \notin Rows'
            BY <1>0 DEF Rows, StoreTypes, TablesTyped
      <4> QED BY <4>1, <4>2 DEF IdOf, HasRow
    <3>2. CASE Goes(r)
      <4>1. /\ pc[r] \in HasRow \cup {"ready"} /\ pc'[r] \in {"update", "updateDevs", "return"}
            /\ mem'[r].id = mem[r].id /\ rid' = rid
            BY <3>2 DEF Goes
      <4>2. mem[r].id \in Rows /\ \A q \in Reporters : q # r => rid[q] # mem[r].id
        <5>1. CASE pc[r] \in HasRow
              BY <2>2, <5>1 DEF IdOf
        <5>2. CASE pc[r] = "ready"
          <6>1. mem[r].id = rid[r] /\ rid[r] \in Rows
                BY <2>2, <5>2 DEF IdOf
          <6> QED BY <2>2, <6>1
        <5> QED BY <4>1, <5>1, <5>2
      <4> QED BY <2>3, <4>1, <4>2 DEF IdOf
    <3>3. CASE Selects(r)
      <4>1. /\ pc[r] = "fetch" /\ pc'[r] = IF mem[r].id \in Rows THEN "fetchStorage" ELSE "insert"
            /\ mem'[r].id = mem[r].id /\ rid' = rid /\ computer_table' = computer_table
            BY <3>3 DEF Selects, KeepsIds, db
      <4>2. mem[r].id = rid[r] /\ Rows' = Rows
            BY <2>2, <4>1 DEF IdOf, Rows
      <4>3. CASE mem[r].id \in Rows
        <5>1. \A q \in Reporters : q # r => rid[q] # mem[r].id
              BY <2>2, <4>2, <4>3
        <5> QED BY <4>1, <4>2, <4>3, <5>1 DEF IdOf
      <4>4. CASE mem[r].id \notin Rows
            BY <4>1, <4>2, <4>4 DEF IdOf, HasRow
      <4> QED BY <4>3, <4>4
    <3>4. CASE InsertsComputer(r)
      <4>1. pc'[r] = "insertId" /\ rid' = rid
            BY <3>4 DEF InsertsComputer
      <4> QED BY <2>8, <3>4, <4>1 DEF IdOf, HasRow
    <3>5. CASE ReadsComputer(r)
      <4>1. /\ pc[r] = "insertId" /\ pc'[r] = "dev" /\ mem'[r].id = last_rowid /\ rid' = rid
            BY <3>5 DEF ReadsComputer
      <4>2. last_rowid \in Rows /\ \A q \in Reporters : rid[q] # last_rowid
            BY <2>2, <4>1 DEF IdOf
      <4> QED BY <2>3, <4>1, <4>2 DEF IdOf
    <3>6. CASE InsertsDevice(r) \/ ReadsDevice(r)
      <4>1. /\ pc[r] \in HasRow /\ pc'[r] \in {"dev", "devId"} /\ mem'[r].id = mem[r].id
            /\ rid' = rid
            BY <3>6 DEF InsertsDevice, ReadsDevice, HasRow
      <4>2. mem[r].id \in Rows /\ \A q \in Reporters : q # r => rid[q] # mem[r].id
            BY <2>2, <4>1 DEF IdOf
      <4> QED BY <2>3, <4>1, <4>2 DEF IdOf
    <3>7. CASE Answers(r)
      <4>1. /\ pc'[r] = "ready" => rid'[r] = mem[r].id
            /\ pc'[r] \in {"ready", "off"} /\ mem' = mem
            BY <1>0, <3>7 DEF Answers
      <4> QED BY <2>3, <2>6, <3>7, <4>1 DEF IdOf, HasRow
    <3>8. CASE Leaves(r)
          BY <3>8 DEF Leaves, IdOf, HasRow
    <3> QED BY <2>1, <3>1, <3>2, <3>3, <3>4, <3>5, <3>6, <3>7, <3>8 DEF Shape
  <2> QED BY <2>7, <2>9, <2>10, <2>11 DEF IdentifiersOwned
<1>2. CASE TerminalTurn
      BY <1>2 DEF TerminalTurn, TerminalStep, IdentifiersOwned, IdOf, Idle, HasRow, Rows
<1>3. CASE UNCHANGED vars
      BY <1>3 DEF vars, IdentifiersOwned, IdOf, Rows
<1> QED BY <1>1, <1>2, <1>3 DEF IdentifiersOwned

\* Rows stay whose they are.
LEMMA RowsKept ==
    ASSUME StoreTypes, NEW r \in Reporters, Shape(r)
    PROVE  \A k \in 1..Len(storage_table) :
              /\ k \in 1..Len(storage_table')
              /\ storage_table'[k].computer = storage_table[k].computer
              /\ storage_table'[k].dev = storage_table[k].dev
<1>0. storage_table \in Seq(StorageRow) /\ Len(storage_table) \in Nat
      BY DEF StoreTypes, TablesTyped
<1>1. CASE Goes(r)
      BY <1>1 DEF Goes, SameRows
<1>2. CASE InsertsDevice(r)
  <2>1. PICK row \in StorageRow : storage_table' = Append(storage_table, row)
        BY <1>2 DEF InsertsDevice
  <2>2. /\ Len(storage_table') = Len(storage_table) + 1
        /\ \A k \in 1..Len(storage_table) : storage_table'[k] = storage_table[k]
        BY <1>0, <2>1
  <2> QED BY <1>0, <2>2
<1>3. CASE ~Goes(r) /\ ~InsertsDevice(r)
  <2>1. storage_table' = storage_table
        BY <1>3 DEF Shape, Starts, Fails, Selects, InsertsComputer, ReadsComputer,
                    ReadsDevice, Answers, Leaves, db
  <2> QED BY <2>1
<1> QED BY <1>1, <1>2, <1>3

\* The row of a device that is inserted.
LEMMA RowAdded ==
    ASSUME StoreTypes, NEW r \in Reporters, InsertsDevice(r)
    PROVE  LET k == Len(storage_table) + 1
           IN  /\ Len(storage_table') = k /\ last_rowid' = k
               /\ storage_table'[k].computer = mem[r].id
               /\ storage_table'[k].dev = At(r)
<1>0. storage_table \in Seq(StorageRow) /\ Len(storage_table) \in Nat
      BY DEF StoreTypes, TablesTyped
<1>1. PICK row \in StorageRow : /\ row.computer = mem[r].id /\ row.dev = At(r)
                                /\ storage_table' = Append(storage_table, row)
      BY DEF InsertsDevice
<1>2. /\ Len(storage_table') = Len(storage_table) + 1
      /\ storage_table'[Len(storage_table) + 1] = row
      BY <1>0, <1>1
<1> QED BY <1>1, <1>2 DEF InsertsDevice

LEMMA DevicesOwnedStep ==
    ASSUME StoreTypes, StoreTypes', DevicesOwned,
           (\E r \in Reporters : Turn(r)) \/ TerminalTurn \/ UNCHANGED vars
    PROVE  DevicesOwned'
<1> DEFINE Owns(k, id, d) == /\ k \in 1..Len(storage_table')
                             /\ storage_table'[k].computer = id
                             /\ storage_table'[k].dev = d
           Bare(q) == pc'[q] \in {"fetch", "insert", "insertId"} =>
                         \A d \in Devs : mem'[q].devs[d].id = -1
           Own(q) == hit'[q] # "now" => \A d \in Devs : mem'[q].devs[d].id # -1 =>
                                           Owns(mem'[q].devs[d].id, mem'[q].id, d)
           Last1(q) == hit'[q] # "now" /\ pc'[q] = "devId" =>
                          Owns(last_rowid', mem'[q].id, At(q)')
<1>1. ASSUME NEW r \in Reporters, Turn(r)
      PROVE  \A q \in Reporters : Bare(q) /\ Own(q) /\ Last1(q)
  <2>1. Shape(r) /\ Others(r) /\ \A q \in Reporters : q # r => Idle(q)
        BY <1>1 DEF Turn
  <2>2. \A k, id, d : RowOf(k, id, d) => Owns(k, id, d)
        BY <2>1, RowsKept DEF RowOf
  <2>3. ASSUME NEW q \in Reporters, q # r
        PROVE  Bare(q) /\ Own(q) /\ Last1(q)
    <3>1. /\ pc'[q] = pc[q] /\ mem'[q] = mem[q] /\ hit'[q] = hit[q]
          /\ pc[q] \in {"off", "ready"}
          BY <2>1, <2>3 DEF Others, Idle
    <3>2. \A d \in Devs : hit[q] # "now" /\ mem[q].devs[d].id # -1 =>
                             RowOf(mem[q].devs[d].id, mem[q].id, d)
          BY DEF DevicesOwned
    <3> HIDE DEF Owns
    <3> QED BY <2>2, <3>1, <3>2
  <2>4. /\ pc[r] \in {"fetch", "insert", "insertId"} => \A d \in Devs : mem[r].devs[d].id = -1
        /\ \A d \in Devs : hit[r] # "now" /\ mem[r].devs[d].id # -1 =>
                              RowOf(mem[r].devs[d].id, mem[r].id, d)
        /\ hit[r] # "now" /\ pc[r] = "devId" => RowOf(last_rowid, mem[r].id, At(r))
        BY DEF DevicesOwned
  <2>5. Bare(r) /\ Own(r) /\ Last1(r)
    <3>1. CASE Starts(r)
          BY <3>1 DEF Starts
    <3>2. CASE Goes(r)
      <4>1. /\ pc'[r] \in {"update", "updateDevs", "return"}
            /\ mem'[r].id = mem[r].id
            /\ \A d \in Devs : \/ mem'[r].devs[d].id = mem[r].devs[d].id
                               \/ RowOf(mem'[r].devs[d].id, mem[r].id, d)
            /\ hit'[r] # "now" => hit[r] # "now"
            BY <3>2 DEF Goes
      <4> HIDE DEF Owns
      <4> QED BY <2>2, <2>4, <4>1
    <3>3. CASE Fails(r)
          BY <2>4, <3>3 DEF Fails, KeepsIds, KeepsDevIds
    <3>4. CASE Selects(r) \/ InsertsComputer(r) \/ ReadsComputer(r)
      <4>1. /\ pc[r] \in {"fetch", "insert", "insertId"} /\ pc'[r] # "devId"
            /\ \A d \in Devs : mem'[r].devs[d].id = mem[r].devs[d].id
            BY <3>4 DEF Selects, InsertsComputer, ReadsComputer, KeepsIds, KeepsDevIds
      <4> QED BY <2>4, <4>1
    <3>5. CASE InsertsDevice(r)
      <4>1. /\ pc[r] = "dev" /\ pc'[r] = "devId" /\ mem' = mem /\ hit' = hit /\ At(r)' = At(r)
            BY <3>5 DEF InsertsDevice, At
      <4>2. Owns(last_rowid', mem[r].id, At(r))
        <5>1. Len(storage_table) \in Nat
              BY DEF StoreTypes, TablesTyped
        <5> QED BY <3>5, <5>1, RowAdded
      <4> HIDE DEF Owns
      <4> QED BY <2>2, <2>4, <4>1, <4>2
    <3>6. CASE ReadsDevice(r)
      <4>1. /\ pc[r] = "devId" /\ pc'[r] = "dev" /\ mem'[r].id = mem[r].id /\ hit' = hit
            /\ \A d \in Devs : mem'[r].devs[d].id = IF d = At(r) THEN last_rowid
                                                                  ELSE mem[r].devs[d].id
            BY <3>6 DEF ReadsDevice
      <4>2. hit[r] # "now" => Owns(last_rowid, mem[r].id, At(r))
            BY <2>2, <2>4, <4>1
      <4> HIDE DEF Owns
      <4> QED BY <2>2, <2>4, <4>1, <4>2
    <3>7. CASE Answers(r) \/ Leaves(r)
      <4>1. pc'[r] \in {"ready", "off"} /\ mem' = mem /\ hit' = hit
            BY <3>7, <2>1 DEF Answers, Leaves, StoreTypes, ThreadsTyped
      <4> HIDE DEF Owns
      <4> QED BY <2>2, <2>4, <4>1
    <3> QED BY <2>1, <3>1, <3>2, <3>3, <3>4, <3>5, <3>6, <3>7 DEF Shape
  <2> HIDE DEF Bare, Own, Last1
  <2> QED BY <2>3, <2>5
<1>2. ASSUME TerminalTurn
      PROVE  \A q \in Reporters : Bare(q) /\ Own(q) /\ Last1(q)
      BY <1>2 DEF TerminalTurn, TerminalStep, Idle, DevicesOwned, RowOf
<1>3. ASSUME UNCHANGED vars
      PROVE  \A q \in Reporters : Bare(q) /\ Own(q) /\ Last1(q)
      BY <1>3 DEF vars, DevicesOwned, RowOf, At
<1>4. \A q \in Reporters : Bare(q) /\ Own(q) /\ Last1(q)
  <2> HIDE DEF Bare, Own, Last1
  <2> QED BY <1>1, <1>2, <1>3
<1> QED BY <1>4 DEF DevicesOwned, RowOf

LEMMA RowsSingleStep ==
    ASSUME StoreTypes, StoreTypes', IdentifiersOwned, RowsSingle,
           (\E r \in Reporters : Turn(r)) \/ TerminalTurn \/ UNCHANGED vars
    PROVE  RowsSingle'
<1> DEFINE Bare(id, d) == \A k \in 1..Len(storage_table') :
                             ~(storage_table'[k].computer = id /\ storage_table'[k].dev = d)
           Listed == \A k \in 1..Len(storage_table') : storage_table'[k].computer \in Rows'
           Single == \A j, k \in 1..Len(storage_table') :
                        /\ storage_table'[j].computer = storage_table'[k].computer
                        /\ storage_table'[j].dev = storage_table'[k].dev
                        => j = k
           Free(q) == /\ pc'[q] = "insertId" =>
                            \A k \in 1..Len(storage_table') :
                               storage_table'[k].computer # Len(computer_table')
                      /\ pc'[q] = "dev" => \A d \in todo'[q] : Bare(mem'[q].id, d)
                      /\ pc'[q] = "devId" => \A d \in todo'[q] :
                                                d # At(q)' => Bare(mem'[q].id, d)
<1>0. Len(computer_table) \in Nat /\ Len(storage_table) \in Nat /\ mem \in [Reporters -> Computers]
      /\ todo \in [Reporters -> SUBSET Devs]
      BY DEF StoreTypes, TablesTyped, ThreadsTyped
<1>1. ASSUME NEW r \in Reporters, Turn(r), faults' = 0
      PROVE  Listed /\ Single /\ \A q \in Reporters : Free(q)
  <2>1. Shape(r) /\ Others(r) /\ ~Fails(r) /\ faults = 0 /\ \A q \in Reporters : q # r => Idle(q)
        BY <1>1 DEF Turn, Shape, Starts, Goes, Fails, Selects, InsertsComputer, ReadsComputer,
                    InsertsDevice, ReadsDevice, Answers, Leaves
  <2>2. /\ \A k \in 1..Len(storage_table) : storage_table[k].computer \in Rows
        /\ \A j, k \in 1..Len(storage_table) :
              /\ storage_table[j].computer = storage_table[k].computer
              /\ storage_table[j].dev = storage_table[k].dev
              => j = k
        BY <2>1 DEF RowsSingle
  <2>3. /\ pc[r] = "insertId" => \A k \in 1..Len(storage_table) :
                                    storage_table[k].computer # Len(computer_table)
        /\ pc[r] = "dev" => \A d \in todo[r] : Rowless(mem[r].id, d)
        /\ pc[r] = "devId" => \A d \in todo[r] : d # At(r) => Rowless(mem[r].id, d)
        BY <2>1 DEF RowsSingle
  <2>4. IdOf(r)
        BY <2>1 DEF IdentifiersOwned
  <2>5. \A q \in Reporters : q # r => Free(q)
    <3>1. \A q \in Reporters : q # r => pc'[q] \in {"off", "ready"}
          BY <2>1 DEF Others, Idle
    <3> HIDE DEF Bare
    <3> QED BY <3>1
  <2>6. CASE InsertsDevice(r)
    <3> DEFINE n == Len(storage_table) + 1
    <3>1. /\ Len(storage_table') = n
          /\ storage_table'[n].computer = mem[r].id /\ storage_table'[n].dev = At(r)
          BY <2>6, RowAdded
    <3>2. \A k \in 1..Len(storage_table) :
             /\ storage_table'[k].computer = storage_table[k].computer
             /\ storage_table'[k].dev = storage_table[k].dev
          BY <2>1, RowsKept
    <3>3. \A k \in 1..Len(storage_table') : k = n \/ k \in 1..Len(storage_table)
          BY <1>0, <3>1
    <3>4. /\ pc[r] = "dev" /\ pc'[r] = "devId" /\ todo[r] # {}
          /\ mem' = mem /\ todo' = todo /\ computer_table' = computer_table
          BY <2>6 DEF InsertsDevice
    <3>5. At(r) \in todo[r] /\ At(r)' = At(r)
          BY <3>4 DEF At
    <3> HIDE DEF n
    <3>6. \A k \in 1..Len(storage_table), d \in todo[r] :
             ~(storage_table[k].computer = mem[r].id /\ storage_table[k].dev = d)
          BY <2>3, <3>4 DEF Rowless, RowOf
    <3>7. mem[r].id \in Rows /\ Rows' = Rows
          BY <2>4, <3>4 DEF IdOf, HasRow, Rows
    <3>8. Listed
          BY <2>2, <3>1, <3>2, <3>3, <3>7
    <3>9. Single
          BY <2>2, <3>1, <3>2, <3>3, <3>5, <3>6
    <3>10. Free(r)
          BY <3>1, <3>2, <3>3, <3>4, <3>5, <3>6
    <3> HIDE DEF Listed, Single, Free
    <3> QED BY <2>5, <3>8, <3>9, <3>10
  <2>7. CASE ~InsertsDevice(r)
    <3>1. /\ Len(storage_table') = Len(storage_table)
          /\ \A k \in 1..Len(storage_table) :
                /\ storage_table'[k].computer = storage_table[k].computer
                /\ storage_table'[k].dev = storage_table[k].dev
          BY <2>1, <2>7 DEF Shape, Starts, Goes, SameRows, Selects, InsertsComputer,
                            ReadsComputer, ReadsDevice, Answers, Leaves, db
    <3>2. Len(computer_table') = IF InsertsComputer(r) THEN Len(computer_table) + 1
                                                       ELSE Len(computer_table)
          BY <1>0, <2>1, <2>7 DEF Shape, Starts, Goes, SameRows, Selects, InsertsComputer,
                            ReadsComputer, ReadsDevice, Answers, Leaves, db
    <3>3. Rows \subseteq Rows'
          BY <1>0, <3>2 DEF Rows
    <3>4. Listed
          BY <2>2, <3>1, <3>3
    <3>5. Single
          BY <2>2, <3>1
    <3>6. Free(r)
      <4>1. CASE InsertsComputer(r)
        <5>1. pc'[r] = "insertId" /\ Len(computer_table') \notin Rows
              BY <1>0, <3>2, <4>1 DEF InsertsComputer, Rows
        <5> QED BY <2>2, <3>1, <5>1
      <4>2. CASE ReadsComputer(r)
        <5>1. /\ pc[r] = "insertId" /\ pc'[r] = "dev" /\ mem'[r].id = Len(computer_table)
              BY <2>4, <4>2 DEF ReadsComputer, IdOf
        <5> QED BY <2>3, <3>1, <5>1
      <4>3. CASE ReadsDevice(r)
        <5>1. /\ pc[r] = "devId" /\ pc'[r] = "dev" /\ mem'[r].id = mem[r].id
              /\ todo'[r] = todo[r] \ {At(r)}
              BY <4>3 DEF ReadsDevice
        <5> QED BY <2>3, <3>1, <5>1 DEF Rowless, RowOf
      <4>4. CASE ~InsertsComputer(r) /\ ~ReadsComputer(r) /\ ~ReadsDevice(r)
        <5>1. pc'[r] \notin {"insertId", "dev", "devId"}
              BY <2>1, <2>7, <4>4 DEF Shape, Starts, Goes, Selects, Answers, Leaves
        <5> QED BY <5>1
      <4> QED BY <4>1, <4>2, <4>3, <4>4
    <3> HIDE DEF Listed, Single, Free
    <3> QED BY <2>5, <3>4, <3>5, <3>6
  <2> QED BY <2>6, <2>7
<1>2. ASSUME TerminalTurn, faults' = 0
      PROVE  Listed /\ Single /\ \A q \in Reporters : Free(q)
      BY <1>2 DEF TerminalTurn, TerminalStep, Idle, RowsSingle, Rows
<1>3. ASSUME UNCHANGED vars, faults' = 0
      PROVE  Listed /\ Single /\ \A q \in Reporters : Free(q)
      BY <1>3 DEF vars, RowsSingle, Rowless, RowOf, Rows, At
<1>4. faults' = 0 => Listed /\ Single /\ \A q \in Reporters : Free(q)
  <2> HIDE DEF Listed, Single, Free
  <2> QED BY <1>1, <1>2, <1>3
<1> QED BY <1>4 DEF RowsSingle, Rowless, RowOf

-----------------------------------------------------------------------------
(* What a step does to the system in memory and to its row *)

KeepsSystem(r) == mem'[r].id = mem[r].id /\ mem'[r].sys = mem[r].sys
RestKept == UNCHANGED <<computer_table, arg, rid, inserted, hit>>

SysStarts(r) ==
    /\ pc[r] = "off" /\ pc'[r] = IF rid[r] = -1 THEN "insert" ELSE "fetch"
    /\ mem'[r].id = rid[r]
    /\ mem'[r].sys = IF rid[r] = -1 THEN arg'[r].sys ELSE NoSystem
    /\ hit'[r] # "now" /\ (hit'[r] = "never" => hit[r] = "never")
    /\ UNCHANGED <<computer_table, rid>>

\* setSysInfo(), on the way to updateDB().
SysReports(r) ==
    /\ pc[r] \in {"ready", "fetchStorage", "dev"}
    /\ pc[r] = "dev" => rid[r] # -1
    /\ pc'[r] = IF mem[r].id = -1 THEN "return" ELSE "update"
    /\ mem'[r].id = mem[r].id /\ mem'[r].sys = arg'[r].sys
    /\ ~mem'[r].dirty => mem[r].sys = arg'[r].sys
    /\ pc[r] # "ready" => arg'[r] = arg[r]
    /\ UNCHANGED <<computer_table, rid, inserted, hit>>

SysFails(r) ==
    /\ ~Idle(r) /\ pc'[r] \notin {"off", "ready", "fetch"}
    /\ pc'[r] = "insert" => pc[r] = "fetch"
    /\ mem'[r].id = mem[r].id
    /\ hit'[r] = "now"
    /\ UNCHANGED <<computer_table, rid>>

SysFetches(r) ==
    /\ pc[r] = "fetch" /\ pc'[r] = "fetchStorage"
    /\ mem[r].id \in Rows
    /\ mem'[r].id = mem[r].id /\ mem'[r].sys = computer_table[mem[r].id]
    /\ RestKept

SysMisses(r) ==
    /\ pc[r] = "fetch" /\ pc'[r] = "insert"
    /\ mem[r].id \notin Rows
    /\ KeepsSystem(r) /\ RestKept

SysInserts(r) ==
    /\ pc[r] = "insert" /\ pc'[r] = "insertId"
    /\ KeepsSystem(r)
    /\ computer_table' = Append(computer_table, AsInserted(mem[r].sys))
    /\ last_rowid' = Len(computer_table) + 1 /\ inserted'[r] = last_rowid'
    /\ UNCHANGED <<arg, rid, hit>>

SysReads(r) ==
    /\ pc[r] = "insertId" /\ pc'[r] = "dev"
    /\ mem'[r].id = last_rowid /\ mem'[r].sys = mem[r].sys
    /\ RestKept

SysDevices(r) ==
    /\ pc[r] \in {"dev", "devId"} /\ pc'[r] \in {"dev", "devId"}
    /\ KeepsSystem(r) /\ RestKept

\* The end of addToDB(), of a computer that had no identifier.
SysAdded(r) ==
    /\ pc[r] = "dev" /\ pc'[r] = "return"
    /\ rid[r] = -1
    /\ KeepsSystem(r) /\ RestKept

SysWrites(r) ==
    /\ pc[r] = "update" /\ pc'[r] = "updateDevs"
    /\ KeepsSystem(r)
    /\ computer_table' = IF mem[r].dirty /\ mem[r].id \in Rows
                         THEN [computer_table EXCEPT ![mem[r].id] = mem[r].sys]
                         ELSE computer_table
    /\ UNCHANGED <<arg, rid, inserted, hit>>

SysGoes(r) ==
    /\ pc[r] = "updateDevs" /\ pc'[r] \in {"updateDevs", "return"}
    /\ KeepsSystem(r) /\ RestKept

SysAnswers(r) ==
    /\ pc[r] = "return"
    /\ \/ rid' = [rid EXCEPT ![r] = mem[r].id] /\ pc'[r] = "ready"
       \/ rid' = rid /\ pc'[r] = "off"
    /\ UNCHANGED <<computer_table, mem, arg, inserted, hit>>

SysLeaves(r) == pc[r] = "ready" /\ pc'[r] = "off" /\ mem' = mem /\ RestKept

SysShape(r) ==
    \/ SysStarts(r) \/ SysReports(r) \/ SysFails(r) \/ SysFetches(r) \/ SysMisses(r)
    \/ SysInserts(r) \/ SysReads(r) \/ SysDevices(r) \/ SysAdded(r) \/ SysWrites(r)
    \/ SysGoes(r) \/ SysAnswers(r) \/ SysLeaves(r)

\* Of the others nothing changes.
SysOthers(r) == \A q \in Reporters : q # r => /\ arg'[q] = arg[q] /\ inserted'[q] = inserted[q]
                                              /\ rid'[q] = rid[q]

\* What setSysInfo() and updateDB() begin with.
LEMMA ThenUpdateSets ==
    ASSUME ThreadsTyped, NEW r \in Reporters, NEW m \in Computers, NEW mc \in Machines,
           ThenUpdate(r, m, report(mc))
    PROVE  /\ mem'[r].id = m.id /\ mem'[r].sys = mc.sys
           /\ ~mem'[r].dirty => m.sys = mc.sys
           /\ pc'[r] = IF m.id = -1 THEN "return" ELSE "update"
<1> DEFINE n == setSysInfo(m, report(mc))
<1>1. n.id = m.id /\ n.sys = mc.sys /\ n.dirty = (m.sys # mc.sys)
      BY SetSysInfoKeeps
<1>2. /\ mem' = [mem EXCEPT ![r] = n]
      /\ pc' = [pc EXCEPT ![r] = IF m.id = -1 THEN "return" ELSE "update"]
      BY DEF ThenUpdate, Put, Goto
<1> HIDE DEF n
<1>3. mem'[r] = n /\ pc'[r] = IF m.id = -1 THEN "return" ELSE "update"
      BY <1>2 DEF ThreadsTyped
<1>4. ~n.dirty => m.sys = mc.sys
      BY <1>1
<1> QED BY <1>1, <1>3, <1>4

LEMMA HandshakeSets ==
    ASSUME StoreTypes, NEW r \in Reporters, NEW mc \in Machines, Handshake(r, mc)
    PROVE  SysOthers(r) /\ SysStarts(r)
<1>1. /\ pc[r] = "off"
      /\ arg' = [arg EXCEPT ![r] = mc]
      /\ hit' = [hit EXCEPT ![r] = IF hit[r] = "now" THEN "before" ELSE hit[r]]
      /\ inserted' = [inserted EXCEPT ![r] = 0]
      /\ UNCHANGED <<db, rid>>
      BY DEF Handshake
<1>2. /\ rid[r] \in Int /\ pc \in [Reporters -> Threads] /\ mem \in [Reporters -> Computers]
      /\ arg \in [Reporters -> Machines \cup {NoSystem}] /\ inserted \in [Reporters -> Nat]
      /\ hit \in [Reporters -> {"never", "before", "now"}]
      BY DEF StoreTypes, ThreadsTyped, CountsTyped
<1>3. SysOthers(r) /\ arg'[r] = mc /\ hit'[r] # "now" /\ (hit'[r] = "never" => hit[r] = "never")
      BY <1>1, <1>2 DEF SysOthers
<1>4. CASE rid[r] # -1
  <2> DEFINE n == RmsComputer(rid[r])
  <2>1. Put(r, n) /\ Goto(r, "fetch")
        BY <1>4 DEF Handshake
  <2>2. n.id = rid[r] /\ n.sys = NoSystem
        BY DEF RmsComputer
  <2> HIDE DEF n
  <2>3. mem'[r] = n /\ pc'[r] = "fetch"
        BY <1>2, <2>1 DEF Put, Goto
  <2> QED BY <1>1, <1>3, <1>4, <2>2, <2>3 DEF SysStarts, db
<1>5. CASE rid[r] = -1
  <2> DEFINE n == setSysInfo(RmsComputer(-1), report(mc))
  <2>1. Put(r, n) /\ Goto(r, "insert")
        BY <1>5 DEF Handshake
  <2>2. n.id = -1 /\ n.sys = mc.sys
        BY FreshTyped, SetSysInfoKeeps
  <2> HIDE DEF n
  <2>3. mem'[r] = n /\ pc'[r] = "insert"
        BY <1>2, <2>1 DEF Put, Goto
  <2> QED BY <1>1, <1>3, <1>5, <2>2, <2>3 DEF SysStarts, db
<1> QED BY <1>4, <1>5

LEMMA SendSets ==
    ASSUME StoreTypes, NEW r \in Reporters, NEW mc \in Machines, SendSysInfo(r, mc)
    PROVE  SysOthers(r) /\ SysReports(r)
<1>1. /\ pc[r] = "ready"
      /\ arg' = [arg EXCEPT ![r] = mc]
      /\ ThenUpdate(r, mem[r], report(mc))
      /\ UNCHANGED <<db, rid, inserted, hit>>
      BY DEF SendSysInfo
<1>2. ThreadsTyped /\ mem[r] \in Computers
      BY DEF StoreTypes, ThreadsTyped
<1>3. arg'[r] = mc /\ SysOthers(r)
      BY <1>1, <1>2 DEF SysOthers, ThreadsTyped
<1> QED BY <1>1, <1>2, <1>3, ThenUpdateSets DEF SysReports, db

LEMMA FetchComputerSets ==
    ASSUME StoreTypes, NEW r \in Reporters, NEW o, FetchComputer(r, o)
    PROVE  SysOthers(r) /\ (SysFetches(r) \/ SysMisses(r) \/ SysFails(r))
<1>1. pc[r] = "fetch" /\ Outcome(r, o) /\ UNCHANGED <<db, arg, rid, inserted>>
      BY DEF FetchComputer
<1>2. /\ mem[r] \in Computers /\ ThreadsTyped /\ CountsTyped /\ arg[r] \in Machines
      /\ DOMAIN computer_table = Rows
  <2>1. DOMAIN computer_table = Rows
        BY DEF StoreTypes, TablesTyped, Rows
  <2> QED BY <1>1, <2>1 DEF StoreTypes, ThreadsTyped
<1>3. SysOthers(r)
      BY <1>1 DEF SysOthers
<1>4. /\ o = "ok" => hit' = hit
      /\ o # "ok" => hit'[r] = "now"
      BY <1>1, <1>2, OutcomeTyped
<1>5. CASE o = "refused"
  <2>1. ThenUpdate(r, mem[r], report(arg[r]))
        BY <1>5 DEF FetchComputer
  <2>2. mem'[r].id = mem[r].id /\ pc'[r] \in {"return", "update"}
        BY <1>2, <2>1, ThenUpdateSets
  <2> QED BY <1>1, <1>3, <1>4, <1>5, <2>2 DEF SysFails, Idle, db
<1>6. CASE o = "ok" /\ mem[r].id \in DOMAIN computer_table
  <2> DEFINE n == [mem[r] EXCEPT !.sys = computer_table[mem[r].id]]
  <2>1. Put(r, n) /\ Goto(r, "fetchStorage")
        BY <1>6 DEF FetchComputer
  <2>2. n.id = mem[r].id /\ n.sys = computer_table[mem[r].id]
        BY <1>2 DEF Computers
  <2> HIDE DEF n
  <2>3. mem'[r] = n /\ pc'[r] = "fetchStorage"
        BY <1>2, <2>1 DEF Put, Goto, ThreadsTyped
  <2> QED BY <1>1, <1>2, <1>3, <1>4, <1>6, <2>2, <2>3 DEF SysFetches, RestKept, db
<1>7. CASE o # "refused" /\ ~(o = "ok" /\ mem[r].id \in DOMAIN computer_table)
  <2>1. Goto(r, "insert") /\ UNCHANGED mem
        BY <1>7 DEF FetchComputer
  <2>2. pc'[r] = "insert"
        BY <1>2, <2>1 DEF Goto, ThreadsTyped
  <2>3. CASE o = "ok"
        BY <1>1, <1>2, <1>3, <1>4, <1>7, <2>1, <2>2, <2>3
           DEF SysMisses, KeepsSystem, RestKept, db
  <2>4. CASE o # "ok"
        BY <1>1, <1>3, <1>4, <2>1, <2>2, <2>4 DEF SysFails, Idle, db
  <2> QED BY <2>3, <2>4
<1> QED BY <1>5, <1>6, <1>7

LEMMA FetchStorageSets ==
    ASSUME StoreTypes, NEW r \in Reporters, NEW o, FetchStorage(r, o)
    PROVE  SysOthers(r) /\ (SysReports(r) \/ SysFails(r))
<1> DEFINE m == IF o = "ok" THEN Fetched(mem[r]) ELSE mem[r]
<1>1. /\ pc[r] = "fetchStorage" /\ Outcome(r, o)
      /\ ThenUpdate(r, m, report(arg[r]))
      /\ UNCHANGED <<db, arg, rid, inserted>>
      BY DEF FetchStorage
<1>2. mem[r] \in Computers /\ ThreadsTyped /\ CountsTyped /\ TablesTyped /\ arg[r] \in Machines
      BY <1>1 DEF StoreTypes, ThreadsTyped
<1>3. SysOthers(r)
      BY <1>1 DEF SysOthers
<1>4. /\ o = "ok" => hit' = hit
      /\ o # "ok" => hit'[r] = "now"
      BY <1>1, <1>2, OutcomeTyped
<1>5. m \in Computers /\ m.id = mem[r].id /\ m.sys = mem[r].sys
      BY <1>2, FetchedOwn
<1> HIDE DEF m
<1>6. /\ mem'[r].id = m.id /\ mem'[r].sys = arg[r].sys
      /\ ~mem'[r].dirty => m.sys = arg[r].sys
      /\ pc'[r] = IF m.id = -1 THEN "return" ELSE "update"
      BY <1>1, <1>2, <1>5, ThenUpdateSets
<1>7. CASE o = "ok"
      BY <1>1, <1>3, <1>4, <1>5, <1>6, <1>7 DEF SysReports, db
<1>8. CASE o # "ok"
      BY <1>1, <1>3, <1>4, <1>5, <1>6, <1>8 DEF SysFails, Idle, db
<1> QED BY <1>7, <1>8

\* The end of addToDB(): the computer keeps its identifier.
LEMMA AddedSets ==
    ASSUME ThreadsTyped, NEW r \in Reporters, pc[r] # "off", Added(r, mem[r])
    PROVE  /\ mem'[r].id = mem[r].id
           /\ rid[r] = -1 => mem'[r] = mem[r] /\ pc'[r] = "return"
           /\ rid[r] # -1 => /\ mem'[r].sys = arg[r].sys
                             /\ ~mem'[r].dirty => mem[r].sys = arg[r].sys
                             /\ pc'[r] = IF mem[r].id = -1 THEN "return" ELSE "update"
<1>1. mem[r] \in Computers /\ arg[r] \in Machines
      BY DEF ThreadsTyped
<1>2. CASE rid[r] = -1
      BY <1>2 DEF Added, Put, Goto, ThreadsTyped
<1>3. CASE rid[r] # -1
  <2>1. ThenUpdate(r, mem[r], report(arg[r]))
        BY <1>3 DEF Added
  <2> QED BY <1>1, <1>3, <2>1, ThenUpdateSets
<1> QED BY <1>2, <1>3

LEMMA InsertComputerSets ==
    ASSUME StoreTypes, NEW r \in Reporters, NEW o, InsertComputer(r, o)
    PROVE  SysOthers(r) /\ (SysInserts(r) \/ SysFails(r))
<1>1. pc[r] = "insert" /\ Outcome(r, o) /\ UNCHANGED <<arg, rid>>
      BY DEF InsertComputer
<1>2. ThreadsTyped /\ CountsTyped
      BY DEF StoreTypes
<1>3. /\ o = "ok" => hit' = hit
      /\ o # "ok" => hit'[r] = "now"
      BY <1>1, <1>2, OutcomeTyped
<1>4. CASE o = "ok"
  <2>1. /\ computer_table' = Append(computer_table, AsInserted(mem[r].sys))
        /\ last_rowid' = Len(computer_table) + 1
        /\ inserted' = [inserted EXCEPT ![r] = Len(computer_table) + 1]
        /\ Goto(r, "insertId") /\ UNCHANGED mem
        BY <1>4 DEF InsertComputer
  <2>2. /\ inserted'[r] = Len(computer_table) + 1
        /\ \A q \in Reporters : q # r => inserted'[q] = inserted[q]
        BY <1>2, <2>1 DEF CountsTyped
  <2>3. pc'[r] = "insertId"
        BY <1>2, <2>1 DEF Goto, ThreadsTyped
  <2>4. SysOthers(r)
        BY <1>1, <2>2 DEF SysOthers
  <2> QED BY <1>1, <1>3, <1>4, <2>1, <2>2, <2>3, <2>4 DEF SysInserts, KeepsSystem
<1>5. CASE o # "ok"
  <2>1. UNCHANGED <<computer_table, inserted>>
        BY <1>5 DEF InsertComputer
  <2>2. mem'[r].id = mem[r].id /\ pc'[r] \in {"insertId", "update", "return"}
    <3>1. CASE o = "refused"
      <4>1. Added(r, mem[r]) /\ pc[r] # "off"
            BY <1>1, <3>1 DEF InsertComputer
      <4> QED BY <1>2, <4>1, AddedSets
    <3>2. CASE o # "refused"
      <4>1. Goto(r, "insertId") /\ UNCHANGED mem
            BY <3>2 DEF InsertComputer
      <4> QED BY <1>2, <4>1 DEF Goto, ThreadsTyped
    <3> QED BY <3>1, <3>2
  <2>3. SysOthers(r)
        BY <1>1, <2>1 DEF SysOthers
  <2> QED BY <1>1, <1>3, <1>5, <2>1, <2>2, <2>3 DEF SysFails, Idle
<1> QED BY <1>4, <1>5

LEMMA ReadComputerIdSets ==
    ASSUME StoreTypes, NEW r \in Reporters, ReadComputerId(r)
    PROVE  SysOthers(r) /\ SysReads(r)
<1> DEFINE n == [mem[r] EXCEPT !.id = last_rowid]
<1>1. /\ pc[r] = "insertId" /\ mem' = [mem EXCEPT ![r] = n]
      /\ pc' = [pc EXCEPT ![r] = "dev"]
      /\ UNCHANGED <<db, arg, rid, inserted, hit>>
      BY DEF ReadComputerId, Put, Goto
<1>2. mem[r] \in Computers /\ ThreadsTyped
      BY DEF StoreTypes, ThreadsTyped
<1>3. n.id = last_rowid /\ n.sys = mem[r].sys
      BY <1>2 DEF Computers
<1> HIDE DEF n
<1>4. mem'[r] = n /\ pc'[r] = "dev"
      BY <1>1, <1>2 DEF ThreadsTyped
<1> QED BY <1>1, <1>3, <1>4 DEF SysReads, SysOthers, RestKept, db

LEMMA InsertDeviceSets ==
    ASSUME StoreTypes, NEW r \in Reporters, NEW o, InsertDevice(r, o)
    PROVE  SysOthers(r) /\ (SysDevices(r) \/ SysFails(r))
<1>1. pc[r] = "dev" /\ Outcome(r, o) /\ UNCHANGED <<computer_table, arg, rid, inserted>>
      BY DEF InsertDevice
<1>2. mem[r] \in Computers /\ ThreadsTyped /\ CountsTyped
      BY DEF StoreTypes, ThreadsTyped
<1>3. /\ o = "ok" => hit' = hit
      /\ o # "ok" => hit'[r] = "now"
      BY <1>1, <1>2, OutcomeTyped
<1>4. /\ KeepsSystem(r) /\ pc'[r] \in {"dev", "devId"}
  <2>1. CASE o = "refused"
    <3> DEFINE n == [mem[r] EXCEPT !.devs[At(r)].dirty = TRUE]
    <3>1. Put(r, n) /\ UNCHANGED pc
          BY <2>1 DEF InsertDevice
    <3>2. n.id = mem[r].id /\ n.sys = mem[r].sys
          BY <1>2 DEF Computers
    <3> HIDE DEF n
    <3>3. mem'[r] = n
          BY <1>2, <3>1 DEF ThreadsTyped, Put
    <3> QED BY <1>1, <3>1, <3>2, <3>3 DEF KeepsSystem
  <2>2. CASE o # "refused"
    <3>1. Goto(r, "devId") /\ UNCHANGED mem
          BY <2>2 DEF InsertDevice
    <3> QED BY <1>2, <3>1 DEF Goto, ThreadsTyped, KeepsSystem
  <2> QED BY <2>1, <2>2
<1>5. SysOthers(r)
      BY <1>1 DEF SysOthers
<1>6. CASE o = "ok"
      BY <1>1, <1>3, <1>4, <1>5, <1>6 DEF SysDevices, RestKept
<1>7. CASE o # "ok"
      BY <1>1, <1>3, <1>4, <1>5, <1>7 DEF SysFails, KeepsSystem, Idle
<1> QED BY <1>6, <1>7

LEMMA ReadDeviceIdSets ==
    ASSUME StoreTypes, NEW r \in Reporters, ReadDeviceId(r)
    PROVE  SysOthers(r) /\ SysDevices(r)
<1> DEFINE n == WithRow(mem[r], At(r), last_rowid)
<1>1. /\ pc[r] = "devId" /\ mem' = [mem EXCEPT ![r] = n]
      /\ pc' = [pc EXCEPT ![r] = "dev"]
      /\ UNCHANGED <<db, arg, rid, inserted, hit>>
      BY DEF ReadDeviceId, Put, Goto, WithRow
<1>2. mem[r] \in Computers /\ ThreadsTyped
      BY DEF StoreTypes, ThreadsTyped
<1>3. n.id = mem[r].id /\ n.sys = mem[r].sys
      BY <1>2 DEF Computers, WithRow
<1> HIDE DEF n
<1>4. mem'[r] = n /\ pc'[r] = "dev"
      BY <1>1, <1>2 DEF ThreadsTyped
<1> QED BY <1>1, <1>3, <1>4 DEF SysDevices, SysOthers, KeepsSystem, RestKept, db

LEMMA InsertedAllSets ==
    ASSUME StoreTypes, NEW r \in Reporters, InsertedAll(r)
    PROVE  SysOthers(r) /\ (SysAdded(r) \/ SysReports(r))
<1>1. /\ pc[r] = "dev" /\ Added(r, mem[r])
      /\ UNCHANGED <<db, arg, rid, inserted, hit>>
      BY DEF InsertedAll
<1>2. ThreadsTyped /\ pc[r] # "off"
      BY <1>1 DEF StoreTypes
<1>3. /\ mem'[r].id = mem[r].id
      /\ rid[r] = -1 => mem'[r] = mem[r] /\ pc'[r] = "return"
      /\ rid[r] # -1 => /\ mem'[r].sys = arg[r].sys
                        /\ ~mem'[r].dirty => mem[r].sys = arg[r].sys
                        /\ pc'[r] = IF mem[r].id = -1 THEN "return" ELSE "update"
      BY <1>1, <1>2, AddedSets
<1> QED BY <1>1, <1>3 DEF SysAdded, SysReports, SysOthers, KeepsSystem, RestKept, db

LEMMA UpdateComputerSets ==
    ASSUME StoreTypes, NEW r \in Reporters, NEW o, UpdateComputer(r, o)
    PROVE  SysOthers(r) /\ (SysWrites(r) \/ SysFails(r))
<1> DEFINE n == [mem[r] EXCEPT !.dirty = (mem[r].dirty /\ o = "refused")]
<1>1. /\ pc[r] = "update" /\ Outcome(r, o) /\ Goto(r, "updateDevs")
      /\ Put(r, n)
      /\ computer_table' = IF o = "ok" /\ mem[r].dirty /\ mem[r].id \in DOMAIN computer_table
                           THEN [computer_table EXCEPT ![mem[r].id] = mem[r].sys]
                           ELSE computer_table
      /\ UNCHANGED <<arg, rid, inserted>>
      BY DEF UpdateComputer
<1>2. /\ mem[r] \in Computers /\ ThreadsTyped /\ CountsTyped
      /\ DOMAIN computer_table = Rows
  <2>1. DOMAIN computer_table = Rows
        BY DEF StoreTypes, TablesTyped, Rows
  <2> QED BY <2>1 DEF StoreTypes, ThreadsTyped
<1>3. /\ o = "ok" => hit' = hit
      /\ o # "ok" => hit'[r] = "now"
      BY <1>1, <1>2, OutcomeTyped
<1>4. n.id = mem[r].id /\ n.sys = mem[r].sys
      BY <1>2 DEF Computers
<1> HIDE DEF n
<1>5. mem'[r] = n /\ pc'[r] = "updateDevs"
      BY <1>1, <1>2 DEF Put, Goto, ThreadsTyped
<1>6. SysOthers(r) /\ KeepsSystem(r)
      BY <1>1, <1>4, <1>5 DEF SysOthers, KeepsSystem
<1>7. CASE o = "ok"
      BY <1>1, <1>2, <1>3, <1>5, <1>6, <1>7 DEF SysWrites
<1>8. CASE o # "ok"
      BY <1>1, <1>3, <1>5, <1>6, <1>8 DEF SysFails, KeepsSystem, Idle
<1> QED BY <1>7, <1>8

LEMMA UpdateDeviceSets ==
    ASSUME StoreTypes, NEW r \in Reporters, NEW o, UpdateDevice(r, o)
    PROVE  SysOthers(r) /\ (SysGoes(r) \/ SysFails(r))
<1> DEFINE n == [mem[r] EXCEPT !.devs[At(r)].dirty = (o = "refused")]
<1>1. /\ pc[r] = "updateDevs" /\ Outcome(r, o) /\ Put(r, n)
      /\ UNCHANGED <<computer_table, pc, arg, rid, inserted>>
      BY DEF UpdateDevice
<1>2. mem[r] \in Computers /\ ThreadsTyped /\ CountsTyped
      BY DEF StoreTypes, ThreadsTyped
<1>3. /\ o = "ok" => hit' = hit
      /\ o # "ok" => hit'[r] = "now"
      BY <1>1, <1>2, OutcomeTyped
<1>4. n.id = mem[r].id /\ n.sys = mem[r].sys
      BY <1>2 DEF Computers
<1> HIDE DEF n
<1>5. mem'[r] = n
      BY <1>1, <1>2 DEF Put, ThreadsTyped
<1>6. SysOthers(r) /\ KeepsSystem(r)
      BY <1>1, <1>4, <1>5 DEF SysOthers, KeepsSystem
<1>7. CASE o = "ok"
      BY <1>1, <1>3, <1>6, <1>7 DEF SysGoes, RestKept
<1>8. CASE o # "ok"
      BY <1>1, <1>3, <1>6, <1>8 DEF SysFails, KeepsSystem, Idle
<1> QED BY <1>7, <1>8

LEMMA LastSets ==
    ASSUME StoreTypes, NEW r \in Reporters, UpdatedAll(r) \/ Return(r) \/ Disconnect(r)
    PROVE  SysOthers(r) /\ (SysGoes(r) \/ SysAnswers(r) \/ SysLeaves(r))
<1>1. UNCHANGED <<db, mem, arg, inserted, hit>>
      BY DEF UpdatedAll, Return, Disconnect
<1>2. pc \in [Reporters -> Threads] /\ rid \in [Reporters -> Int]
      BY DEF StoreTypes, ThreadsTyped
<1>3. CASE UpdatedAll(r)
      BY <1>1, <1>2, <1>3 DEF UpdatedAll, Goto, SysGoes, SysOthers, KeepsSystem, RestKept, db
<1>4. CASE Return(r)
      BY <1>1, <1>2, <1>4 DEF Return, Goto, SysAnswers, SysOthers, db
<1>5. CASE Disconnect(r)
      BY <1>1, <1>2, <1>5 DEF Disconnect, Goto, SysLeaves, SysOthers, RestKept, db
<1> QED BY <1>3, <1>4, <1>5

LEMMA ReporterSets ==
    ASSUME StoreTypes, NEW r \in Reporters, Begin(r) \/ Continue(r) \/ Disconnect(r)
    PROVE  SysOthers(r) /\ SysShape(r)
<1>1. ASSUME Begin(r) PROVE SysOthers(r) /\ SysShape(r)
      BY <1>1, HandshakeSets, SendSets DEF Begin, SysShape
<1>2. ASSUME NEW o, Statement(r, o) PROVE SysOthers(r) /\ SysShape(r)
      BY <1>2, FetchComputerSets, FetchStorageSets, InsertComputerSets, InsertDeviceSets,
         UpdateComputerSets, UpdateDeviceSets DEF Statement, SysShape
<1>3. ASSUME ReadComputerId(r) \/ ReadDeviceId(r) \/ InsertedAll(r)
      PROVE  SysOthers(r) /\ SysShape(r)
      BY <1>3, ReadComputerIdSets, ReadDeviceIdSets, InsertedAllSets DEF SysShape
<1>4. ASSUME UpdatedAll(r) \/ Return(r) \/ Disconnect(r)
      PROVE  SysOthers(r) /\ SysShape(r)
      BY <1>4, LastSets DEF SysShape
<1> QED BY <1>1, <1>2, <1>3, <1>4 DEF Continue

-----------------------------------------------------------------------------
(* The system is kept: by the thread that takes the step, and by the others *)

\* What another reporter may have written to stays so.
LEMMA StaysDisturbed ==
    ASSUME StoreTypes, SystemsKept, NEW r \in Reporters, NEW q \in Reporters, q # r,
           Others(r), SysOthers(r), SysShape(r), hit[q] # "now", pc[q] = "ready"
    PROVE  Disturbed(q) => Disturbed(q)'
<1>0. /\ computer_table \in Seq(StoredSystems) /\ Len(computer_table) \in Nat
      /\ rid \in [Reporters -> Int]
      BY DEF StoreTypes, TablesTyped, ThreadsTyped
<1>1. mem'[q] = mem[q]
      BY DEF Others
<1>2. CASE hit'[r] # "never"
      BY <1>2 DEF Disturbed
<1>3. CASE hit'[r] = "never"
  <2>1. ~SysFails(r) /\ hit[r] = "never"
        BY <1>3 DEF SysShape, SysStarts, SysReports, SysFails, SysFetches, SysMisses,
                    SysInserts, SysReads, SysDevices, SysAdded, SysWrites, SysGoes,
                    SysAnswers, SysLeaves, RestKept
  <2>2. KnowsId(r) /\ mem[q].id \in Rows
        BY DEF SystemsKept, SystemOf
  <2>3. rid[r] = mem[q].id => rid'[r] = mem[q].id
    <3>1. CASE SysAnswers(r)
      <4>1. rid[r] \in Rows => rid[r] = mem[r].id
            BY <2>1, <2>2, <3>1 DEF KnowsId, SysAnswers, HasRow
      <4> QED BY <1>0, <2>2, <3>1, <4>1 DEF SysAnswers
    <3>2. CASE ~SysAnswers(r)
          BY <3>2 DEF SysShape, SysStarts, SysReports, SysFails, SysFetches, SysMisses,
                      SysInserts, SysReads, SysDevices, SysAdded, SysWrites, SysGoes,
                      SysLeaves, RestKept
    <3> QED BY <3>1, <3>2
  <2> SUFFICES ASSUME NEW p \in Reporters, p # q, hit[p] # "never" \/ rid[p] = mem[q].id
               PROVE  hit'[p] # "never" \/ rid'[p] = mem[q].id
      BY <1>1 DEF Disturbed
  <2>4. CASE p = r
        BY <2>1, <2>3, <2>4
  <2>5. CASE p # r
        BY <2>5 DEF Others, SysOthers
  <2> QED BY <2>4, <2>5
<1> QED BY <1>2, <1>3

\* A connected computer that another thread's step does not touch.
LEMMA BystanderKept ==
    ASSUME StoreTypes, SystemsKept, NEW r \in Reporters, NEW q \in Reporters, q # r,
           Idle(q), Others(r), SysOthers(r), SysShape(r)
    PROVE  KnowsId(q)' /\ SystemOf(q)'
<1>0. /\ computer_table \in Seq(StoredSystems) /\ Len(computer_table) \in Nat
      /\ rid \in [Reporters -> Int]
      BY DEF StoreTypes, TablesTyped, ThreadsTyped
<1>1. /\ pc'[q] = pc[q] /\ mem'[q] = mem[q] /\ hit'[q] = hit[q] /\ rid'[q] = rid[q]
      /\ arg'[q] = arg[q] /\ inserted'[q] = inserted[q] /\ pc[q] \in {"off", "ready"}
      BY DEF Others, SysOthers, Idle
<1>2. KnowsId(q)'
  <2>1. pc[q] = "ready" => mem[q].id = rid[q]
        BY DEF SystemsKept, KnowsId
  <2> QED BY <1>1, <2>1 DEF KnowsId, HasRow
<1>3. ASSUME hit[q] # "now", pc[q] = "ready"
      PROVE  mem[q].id \in Rows' /\ mem[q].sys = arg[q].sys /\ (Written(q)' \/ Disturbed(q)')
  <2>1. mem[q].id \in Rows /\ mem[q].sys = arg[q].sys /\ (Written(q) \/ Disturbed(q))
        BY <1>3 DEF SystemsKept, SystemOf
  <2>2. CASE hit'[r] # "never"
    <3>1. Disturbed(q)'
          BY <2>2 DEF Disturbed
    <3>2. Rows \subseteq Rows'
          BY <1>0 DEF SysShape, SysStarts, SysReports, SysFails, SysFetches, SysMisses,
                      SysInserts, SysReads, SysDevices, SysAdded, SysWrites, SysGoes,
                      SysAnswers, SysLeaves, RestKept, Rows
    <3> QED BY <2>1, <3>1, <3>2
  <2>3. CASE hit'[r] = "never"
    <3>1. ~SysFails(r) /\ hit[r] = "never"
          BY <2>3 DEF SysShape, SysStarts, SysReports, SysFails, SysFetches, SysMisses,
                      SysInserts, SysReads, SysDevices, SysAdded, SysWrites, SysGoes,
                      SysAnswers, SysLeaves, RestKept
    <3>2. KnowsId(r) /\ SystemOf(r)
          BY DEF SystemsKept
    <3>4. Disturbed(q) => Disturbed(q)'
          BY <1>3, StaysDisturbed
    <3>5. rid[r] = mem[q].id => Disturbed(q)'
          BY <3>4 DEF Disturbed
    <3>6. CASE SysWrites(r)
      <4>1. Rows' = Rows
        <5>1. computer_table' = computer_table
              \/ (mem[r].id \in Rows /\
                  computer_table' = [computer_table EXCEPT ![mem[r].id] = mem[r].sys])
              BY <3>6 DEF SysWrites
        <5>2. DOMAIN computer_table = Rows /\ mem[r].sys \in StoredSystems
              BY <1>0 DEF Rows, StoreTypes, ThreadsTyped, Computers
        <5>3. Len(computer_table') = Len(computer_table)
              BY <1>0, <5>1, <5>2, RowReplaced
        <5> QED BY <5>3 DEF Rows
      <4>2. CASE mem[r].id = mem[q].id
        <5>1. rid[r] = mem[r].id \/ Private(r, mem[r].id)
              BY <3>1, <3>2, <3>6 DEF SystemOf, SysWrites, HasRow
        <5>2. ~Private(r, mem[r].id)
              BY <1>3, <4>2 DEF Private, Ready
        <5> QED BY <2>1, <3>5, <4>1, <4>2, <5>1, <5>2
      <4>3. CASE mem[r].id # mem[q].id
        <5>1. computer_table'[mem[q].id] = computer_table[mem[q].id]
              BY <1>0, <2>1, <3>6, <4>3 DEF SysWrites, Rows
        <5>2. Written(q) => Written(q)'
              BY <1>1, <5>1 DEF Written
        <5> QED BY <2>1, <3>4, <4>1, <5>2
      <4> QED BY <4>2, <4>3
    <3>7. CASE SysInserts(r)
      <4> DEFINE row == AsInserted(mem[r].sys)
      <4>1. computer_table' = Append(computer_table, row)
            BY <3>7 DEF SysInserts
      <4>2. row \in StoredSystems
            BY AsInsertedTyped DEF StoreTypes, ThreadsTyped, Computers
      <4> HIDE DEF row
      <4>3. /\ Len(computer_table') = Len(computer_table) + 1
            /\ \A k \in 1..Len(computer_table) : computer_table'[k] = computer_table[k]
            BY <1>0, <4>1, <4>2
      <4>4. computer_table'[mem[q].id] = computer_table[mem[q].id] /\ mem[q].id \in Rows'
            BY <1>0, <2>1, <4>3 DEF Rows
      <4>5. Written(q) => Written(q)'
            BY <1>1, <4>4 DEF Written
      <4> QED BY <2>1, <3>4, <4>4, <4>5
    <3>8. CASE ~SysWrites(r) /\ ~SysInserts(r)
      <4>1. computer_table' = computer_table
            BY <3>8 DEF SysShape, SysStarts, SysReports, SysFails, SysFetches, SysMisses,
                        SysReads, SysDevices, SysAdded, SysGoes, SysAnswers, SysLeaves,
                        RestKept
      <4>2. Written(q) => Written(q)'
            BY <1>1, <4>1 DEF Written
      <4> QED BY <2>1, <3>4, <4>1, <4>2 DEF Rows
    <3> QED BY <3>6, <3>7, <3>8
  <2> QED BY <2>2, <2>3 DEF StoreTypes, CountsTyped
<1>4. SystemOf(q)'
      BY <1>1, <1>3 DEF SystemOf, HasRow
<1> QED BY <1>2, <1>4

\* A thread knows its own identifier.
LEMMA IdKnown ==
    ASSUME StoreTypes, SystemsKept, NEW r \in Reporters, SysShape(r)
    PROVE  KnowsId(r)'
<1>0. /\ computer_table \in Seq(StoredSystems) /\ Len(computer_table) \in Nat
      /\ rid \in [Reporters -> Int]
      BY DEF StoreTypes, TablesTyped, ThreadsTyped
<1>1. KnowsId(r) /\ SystemOf(r)
      BY DEF SystemsKept
<1>2. CASE SysStarts(r)
  <2>1. -1 \notin Rows'
        BY <1>0, <1>2 DEF Rows, SysStarts
  <2> QED BY <1>2, <2>1 DEF SysStarts, KnowsId, HasRow
<1>3. CASE SysReports(r)
  <2>1. pc[r] \in HasRow \cup {"ready"} /\ pc'[r] \in {"return", "update"}
        BY <1>3 DEF SysReports, HasRow
  <2>2. mem'[r].id = mem[r].id /\ rid' = rid /\ hit' = hit /\ Rows' = Rows
        BY <1>3 DEF SysReports, Rows
  <2>3. hit[r] = "never" => (rid[r] \in Rows => rid[r] = mem[r].id)
        BY <1>1, <2>1 DEF KnowsId
  <2> QED BY <2>1, <2>2, <2>3 DEF KnowsId
<1>4. CASE SysFails(r)
  <2>1. pc'[r] = "insert" => mem[r].id = rid[r]
        BY <1>1, <1>4 DEF SysFails, KnowsId
  <2> QED BY <1>4, <2>1 DEF SysFails, KnowsId
<1>5. CASE SysFetches(r)
      BY <1>1, <1>5 DEF SysFetches, RestKept, KnowsId, HasRow
<1>6. CASE SysMisses(r)
      BY <1>1, <1>6 DEF SysMisses, KeepsSystem, RestKept, KnowsId, HasRow, Rows
<1>7. CASE SysInserts(r)
  <2> DEFINE row == AsInserted(mem[r].sys)
  <2>1. /\ computer_table' = Append(computer_table, row)
        /\ pc[r] = "insert" /\ pc'[r] = "insertId" /\ rid' = rid /\ hit' = hit
        BY <1>7 DEF SysInserts
  <2>2. row \in StoredSystems
        BY AsInsertedTyped DEF StoreTypes, ThreadsTyped, Computers
  <2> HIDE DEF row
  <2>3. Len(computer_table') = Len(computer_table) + 1
        BY <1>0, <2>1, <2>2
  <2>4. hit[r] = "never" => rid[r] \notin Rows
        BY <1>1, <2>1 DEF KnowsId
  <2>5. hit[r] = "never" => (rid[r] \in Rows' => rid[r] = Len(computer_table'))
        BY <1>0, <2>3, <2>4 DEF Rows
  <2> QED BY <2>1, <2>5 DEF KnowsId, HasRow
<1>8. CASE SysReads(r)
  <2>1. /\ pc[r] = "insertId" /\ pc'[r] = "dev" /\ mem'[r].id = last_rowid
        /\ rid' = rid /\ hit' = hit /\ Rows' = Rows
        BY <1>8 DEF SysReads, RestKept, Rows
  <2>2. hit[r] = "never" => /\ last_rowid = Len(computer_table)
                            /\ rid[r] \in Rows => rid[r] = Len(computer_table)
        BY <1>1, <2>1 DEF KnowsId, SystemOf
  <2> QED BY <2>1, <2>2 DEF KnowsId
<1>9. CASE SysDevices(r) \/ SysAdded(r) \/ SysWrites(r) \/ SysGoes(r)
  <2>1. /\ pc[r] \in HasRow /\ pc'[r] \in {"dev", "devId", "updateDevs", "return"}
        /\ mem'[r].id = mem[r].id /\ rid' = rid /\ hit' = hit
        BY <1>9 DEF SysDevices, SysAdded, SysWrites, SysGoes, KeepsSystem, RestKept, HasRow
  <2>2. Rows' = Rows
    <3>1. \/ computer_table' = computer_table
          \/ mem[r].id \in Rows /\
             computer_table' = [computer_table EXCEPT ![mem[r].id] = mem[r].sys]
          BY <1>9 DEF SysDevices, SysAdded, SysWrites, SysGoes, RestKept
    <3>2. DOMAIN computer_table = Rows /\ mem[r].sys \in StoredSystems
          BY <1>0 DEF Rows, StoreTypes, ThreadsTyped, Computers
    <3>3. Len(computer_table') = Len(computer_table)
          BY <1>0, <3>1, <3>2, RowReplaced
    <3> QED BY <3>3 DEF Rows
  <2>3. hit[r] = "never" => (rid[r] \in Rows => rid[r] = mem[r].id)
        BY <1>1, <2>1 DEF KnowsId
  <2> QED BY <2>1, <2>2, <2>3 DEF KnowsId
<1>10. CASE SysAnswers(r)
      BY <1>0, <1>10 DEF SysAnswers, KnowsId, HasRow
<1>11. CASE SysLeaves(r)
      BY <1>11 DEF SysLeaves, KnowsId, HasRow
<1> QED BY <1>2, <1>3, <1>4, <1>5, <1>6, <1>7, <1>8, <1>9, <1>10, <1>11 DEF SysShape

\* What is stored of the computer whose thread takes the step.
LEMMA SystemStep ==
    ASSUME StoreTypes, SystemsKept, NEW r \in Reporters, Others(r), SysOthers(r), SysShape(r)
    PROVE  SystemOf(r)'
<1>0. /\ computer_table \in Seq(StoredSystems) /\ Len(computer_table) \in Nat
      /\ DOMAIN computer_table = Rows
      /\ rid \in [Reporters -> Int] /\ mem[r].sys \in StoredSystems
      BY DEF StoreTypes, TablesTyped, ThreadsTyped, Computers, Rows
<1>1. KnowsId(r) /\ SystemOf(r)
      BY DEF SystemsKept
<1>2. \A q \in Reporters : q # r => /\ pc'[q] = pc[q] /\ mem'[q] = mem[q] /\ hit'[q] = hit[q]
                                    /\ rid'[q] = rid[q]
      BY DEF Others, SysOthers
<1>3. mem'[r].id = mem[r].id => /\ Private(r, mem[r].id) => Private(r, mem[r].id)'
                                /\ Disturbed(r) => Disturbed(r)'
      BY <1>2 DEF Private, Disturbed, Ready
<1>4. CASE SysStarts(r)
  <2>1. /\ pc'[r] = IF rid[r] = -1 THEN "insert" ELSE "fetch"
        /\ mem'[r].sys = IF rid[r] = -1 THEN arg'[r].sys ELSE NoSystem
        /\ rid' = rid
        BY <1>4 DEF SysStarts
  <2>2. CASE rid[r] = -1
        BY <2>1, <2>2 DEF SystemOf, HasRow
  <2>3. CASE rid[r] # -1
        BY <2>1, <2>3 DEF SystemOf, HasRow
  <2> QED BY <2>2, <2>3
<1>5. CASE SysReports(r)
  <2>1. /\ pc[r] \in {"ready", "fetchStorage", "dev"}
        /\ pc[r] = "dev" => rid[r] # -1
        /\ pc'[r] = IF mem[r].id = -1 THEN "return" ELSE "update"
        /\ mem'[r].id = mem[r].id /\ mem'[r].sys = arg'[r].sys
        /\ ~mem'[r].dirty => mem[r].sys = arg'[r].sys
        /\ pc[r] # "ready" => arg'[r] = arg[r]
        /\ computer_table' = computer_table /\ rid' = rid /\ inserted' = inserted /\ hit' = hit
        BY <1>5 DEF SysReports
  <2>2. CASE hit[r] = "now"
        BY <2>1, <2>2 DEF SystemOf
  <2>3. CASE hit[r] # "now"
    <3>1. mem[r].id \in Rows /\ mem[r].id # -1
          BY <1>0, <1>1, <2>1, <2>3 DEF SystemOf, HasRow, Rows
    <3>2. rid[r] = mem[r].id \/ Private(r, mem[r].id)
          BY <1>1, <2>1, <2>3 DEF SystemOf, KnowsId, HasRow
    <3>3. rid'[r] = mem'[r].id \/ Private(r, mem[r].id)'
          BY <1>3, <2>1, <3>2
    <3>4. ~mem'[r].dirty => Written(r)' \/ Disturbed(r)'
      <4> SUFFICES ASSUME mem[r].sys = arg'[r].sys PROVE Written(r)' \/ Disturbed(r)'
          BY <2>1
      <4>1. CASE pc[r] = "fetchStorage"
        <5>1. computer_table[mem[r].id] = arg'[r].sys
              BY <1>1, <2>3, <4>1 DEF SystemOf
        <5> QED BY <2>1, <5>1 DEF Written
      <4>2. CASE pc[r] = "dev"
        <5>1. /\ inserted[r] = mem[r].id
              /\ computer_table[mem[r].id] = AsInserted(arg'[r].sys)
              BY <1>1, <2>3, <4>2 DEF SystemOf
        <5> QED BY <2>1, <5>1 DEF Written
      <4>3. CASE pc[r] = "ready"
        <5>1. mem[r].sys = arg[r].sys /\ (Written(r) \/ Disturbed(r))
              BY <1>1, <2>3, <4>3 DEF SystemOf
        <5>2. Written(r) => Written(r)'
              BY <2>1, <5>1 DEF Written
        <5> QED BY <1>3, <2>1, <5>1, <5>2
      <4> QED BY <2>1, <4>1, <4>2, <4>3
    <3>5. pc'[r] = "update" /\ mem'[r].id \in Rows'
          BY <2>1, <3>1 DEF Rows
    <3> QED BY <2>1, <3>3, <3>4, <3>5 DEF SystemOf
  <2> QED BY <2>2, <2>3
<1>6. CASE SysFails(r)
      BY <1>6 DEF SysFails, SystemOf
<1>7. CASE SysFetches(r)
  <2>1. /\ pc[r] = "fetch" /\ pc'[r] = "fetchStorage" /\ mem[r].id \in Rows
        /\ mem'[r].id = mem[r].id /\ mem'[r].sys = computer_table[mem[r].id]
        /\ computer_table' = computer_table /\ rid' = rid
        BY <1>7 DEF SysFetches, RestKept
  <2>2. mem[r].id = rid[r]
        BY <1>1, <2>1 DEF KnowsId
  <2> QED BY <2>1, <2>2 DEF SystemOf, HasRow, Rows
<1>8. CASE SysMisses(r)
  <2>1. /\ pc[r] = "fetch" /\ pc'[r] = "insert" /\ mem'[r].sys = mem[r].sys
        /\ rid' = rid /\ hit' = hit
        BY <1>8 DEF SysMisses, KeepsSystem, RestKept
  <2>2. hit[r] # "now" => mem[r].sys = NoSystem /\ rid[r] # -1
        BY <1>1, <2>1 DEF SystemOf
  <2> QED BY <2>1, <2>2 DEF SystemOf, HasRow
<1>9. CASE SysInserts(r)
  <2> DEFINE row == AsInserted(mem[r].sys)
             k == Len(computer_table) + 1
  <2>1. /\ computer_table' = Append(computer_table, row)
        /\ pc[r] = "insert" /\ pc'[r] = "insertId" /\ mem'[r].sys = mem[r].sys
        /\ last_rowid' = k /\ inserted'[r] = k
        /\ arg' = arg /\ rid' = rid /\ hit' = hit
        BY <1>9 DEF SysInserts, KeepsSystem
  <2>2. row \in StoredSystems
        BY <1>0, AsInsertedTyped
  <2>3. hit[r] # "now" => mem[r].sys = IF rid[r] = -1 THEN arg[r].sys ELSE NoSystem
        BY <1>1, <2>1 DEF SystemOf
  <2>4. \A q \in Reporters : q # r /\ pc'[q] = "ready" /\ hit'[q] # "now" => mem'[q].id # k
    <3> SUFFICES ASSUME NEW q \in Reporters, q # r, pc[q] = "ready", hit[q] # "now"
                 PROVE  mem[q].id # k
        BY <1>2
    <3>1. mem[q].id \in Rows
          BY DEF SystemsKept, SystemOf
    <3> QED BY <1>0, <3>1 DEF Rows
  <2>5. row = AsInserted(mem'[r].sys)
        BY <2>1
  <2> HIDE DEF row
  <2>6. computer_table'[k] = row /\ Len(computer_table') = k /\ k \in Rows'
        BY <1>0, <2>1, <2>2 DEF Rows
  <2> HIDE DEF k
  <2>7. Private(r, last_rowid)'
        BY <2>1, <2>4 DEF Private, Ready
  <2> QED BY <2>1, <2>3, <2>5, <2>6, <2>7 DEF SystemOf, HasRow
<1>10. CASE SysReads(r)
  <2>1. /\ pc[r] = "insertId" /\ pc'[r] = "dev"
        /\ mem'[r].id = last_rowid /\ mem'[r].sys = mem[r].sys
        /\ computer_table' = computer_table /\ arg' = arg /\ rid' = rid
        /\ inserted' = inserted /\ hit' = hit
        BY <1>10 DEF SysReads, RestKept
  <2>2. hit[r] # "now" =>
           /\ mem[r].sys = IF rid[r] = -1 THEN arg[r].sys ELSE NoSystem
           /\ last_rowid \in Rows /\ inserted[r] = last_rowid /\ Private(r, last_rowid)
           /\ computer_table[last_rowid] = AsInserted(mem[r].sys)
        BY <1>1, <2>1 DEF SystemOf
  <2>3. Private(r, last_rowid) => Private(r, mem[r].id)'
        BY <1>2, <2>1 DEF Private, Ready
  <2> QED BY <2>1, <2>2, <2>3 DEF SystemOf, Rows
<1>11. CASE SysDevices(r) \/ SysAdded(r)
  <2>1. /\ pc[r] \in {"dev", "devId"} /\ pc'[r] \in {"dev", "devId", "return"}
        /\ pc'[r] = "return" => rid[r] = -1
        /\ mem'[r].id = mem[r].id /\ mem'[r].sys = mem[r].sys
        /\ computer_table' = computer_table /\ arg' = arg /\ rid' = rid
        /\ inserted' = inserted /\ hit' = hit
        BY <1>11 DEF SysDevices, SysAdded, KeepsSystem, RestKept
  <2>2. hit[r] # "now" =>
           /\ mem[r].sys = IF rid[r] = -1 THEN arg[r].sys ELSE NoSystem
           /\ mem[r].id \in Rows /\ inserted[r] = mem[r].id
           /\ rid[r] = mem[r].id \/ Private(r, mem[r].id)
           /\ computer_table[mem[r].id] = AsInserted(mem[r].sys)
        BY <1>1, <2>1 DEF SystemOf, HasRow
  <2>3. Private(r, mem[r].id) => Private(r, mem[r].id)'
        BY <1>3, <2>1
  <2>4. hit[r] # "now" /\ pc'[r] = "return" => Written(r)' /\ mem[r].sys = arg[r].sys
        BY <2>1, <2>2 DEF Written
  <2> QED BY <2>1, <2>2, <2>3, <2>4 DEF SystemOf, HasRow, Rows
<1>12. CASE SysWrites(r)
  <2>1. /\ pc[r] = "update" /\ pc'[r] = "updateDevs"
        /\ mem'[r].id = mem[r].id /\ mem'[r].sys = mem[r].sys
        /\ computer_table' = IF mem[r].dirty /\ mem[r].id \in Rows
                             THEN [computer_table EXCEPT ![mem[r].id] = mem[r].sys]
                             ELSE computer_table
        /\ arg' = arg /\ rid' = rid /\ inserted' = inserted /\ hit' = hit
        BY <1>12 DEF SysWrites, KeepsSystem
  <2>2. hit[r] # "now" =>
           /\ mem[r].id \in Rows /\ mem[r].sys = arg[r].sys
           /\ rid[r] = mem[r].id \/ Private(r, mem[r].id)
           /\ ~mem[r].dirty => Written(r) \/ Disturbed(r)
        BY <1>1, <2>1 DEF SystemOf, HasRow
  <2>3. Private(r, mem[r].id) => Private(r, mem[r].id)'
        BY <1>3, <2>1
  <2>4. CASE mem[r].dirty /\ mem[r].id \in Rows
    <3>1. /\ computer_table' = [computer_table EXCEPT ![mem[r].id] = mem[r].sys]
          /\ Len(computer_table') = Len(computer_table)
          /\ computer_table'[mem[r].id] = mem[r].sys
      <4>1. computer_table' = [computer_table EXCEPT ![mem[r].id] = mem[r].sys]
            BY <2>1, <2>4
      <4>2. Len(computer_table') = Len(computer_table)
            BY <1>0, <2>4, <4>1, RowReplaced
      <4> QED BY <1>0, <2>4, <4>1, <4>2
    <3>2. hit[r] # "now" => Written(r)'
          BY <2>1, <2>2, <3>1 DEF Written
    <3> QED BY <2>1, <2>2, <2>3, <3>1, <3>2 DEF SystemOf, HasRow, Rows
  <2>5. CASE ~(mem[r].dirty /\ mem[r].id \in Rows)
    <3>1. computer_table' = computer_table
          BY <2>1, <2>5
    <3>2. Written(r) => Written(r)'
          BY <2>1, <3>1 DEF Written
    <3>3. Disturbed(r) => Disturbed(r)'
          BY <1>3, <2>1
    <3>4. hit[r] # "now" => Written(r)' \/ Disturbed(r)'
          BY <2>2, <2>5, <3>2, <3>3
    <3> QED BY <2>1, <2>2, <2>3, <3>1, <3>4 DEF SystemOf, HasRow, Rows
  <2> QED BY <2>4, <2>5
<1>13. CASE SysGoes(r)
  <2>1. /\ pc[r] = "updateDevs" /\ pc'[r] \in {"updateDevs", "return"}
        /\ mem'[r].id = mem[r].id /\ mem'[r].sys = mem[r].sys
        /\ computer_table' = computer_table
        /\ arg' = arg /\ rid' = rid /\ inserted' = inserted /\ hit' = hit
        BY <1>13 DEF SysGoes, KeepsSystem, RestKept
  <2>2. hit[r] # "now" =>
           /\ mem[r].id \in Rows /\ mem[r].sys = arg[r].sys
           /\ rid[r] = mem[r].id \/ Private(r, mem[r].id)
           /\ Written(r) \/ Disturbed(r)
        BY <1>1, <2>1 DEF SystemOf, HasRow
  <2>3. Private(r, mem[r].id) => Private(r, mem[r].id)'
        BY <1>3, <2>1
  <2>4. Written(r) => Written(r)'
        BY <2>1 DEF Written
  <2>5. Disturbed(r) => Disturbed(r)'
        BY <1>3, <2>1
  <2> QED BY <2>1, <2>2, <2>3, <2>4, <2>5 DEF SystemOf, HasRow, Rows
<1>14. CASE SysAnswers(r)
  <2>1. /\ pc[r] = "return" /\ pc'[r] \in {"ready", "off"} /\ mem' = mem
        /\ computer_table' = computer_table
        /\ arg' = arg /\ inserted' = inserted /\ hit' = hit
        BY <1>14 DEF SysAnswers
  <2>2. hit[r] # "now" =>
           /\ mem[r].id \in Rows /\ mem[r].sys = arg[r].sys
           /\ Written(r) \/ Disturbed(r)
        BY <1>1, <2>1 DEF SystemOf, HasRow
  <2>3. Written(r) => Written(r)'
        BY <2>1 DEF Written
  <2>4. Disturbed(r) => Disturbed(r)'
        BY <1>3, <2>1
  <2> QED BY <2>1, <2>2, <2>3, <2>4 DEF SystemOf, HasRow, Rows
<1>15. CASE SysLeaves(r)
      BY <1>15 DEF SysLeaves, SystemOf, HasRow
<1> QED BY <1>4, <1>5, <1>6, <1>7, <1>8, <1>9, <1>10, <1>11, <1>12, <1>13, <1>14, <1>15
        DEF SysShape

LEMMA SystemsKeptStep ==
    ASSUME StoreTypes, OneCall, SystemsKept, [SerialNext]_vars
    PROVE  SystemsKept'
<1>1. ASSUME NEW r \in Reporters, \A q \in Reporters \ {r} : Idle(q),
             Begin(r) \/ Continue(r) \/ Disconnect(r)
      PROVE  SystemsKept'
  <2>1. Others(r) /\ SysOthers(r) /\ SysShape(r)
        BY <1>1, ReporterDoes, ReporterSets
  <2>2. KnowsId(r)' /\ SystemOf(r)'
        BY <2>1, IdKnown, SystemStep
  <2>3. ASSUME NEW q \in Reporters, q # r
        PROVE  KnowsId(q)' /\ SystemOf(q)'
        BY <1>1, <2>1, <2>3, BystanderKept
  <2> QED BY <2>2, <2>3 DEF SystemsKept
<1>2. ASSUME UNCHANGED <<computer_table, mem, pc, arg, rid, inserted, hit>>,
             (\A r \in Reporters : Idle(r)) \/ UNCHANGED last_rowid
      PROVE  SystemsKept'
  <2>1. ASSUME NEW r \in Reporters
        PROVE  KnowsId(r)' /\ SystemOf(r)'
    <3>1. KnowsId(r) /\ SystemOf(r)
          BY DEF SystemsKept
    <3>2. KnowsId(r)'
          BY <1>2, <3>1 DEF KnowsId, Rows
    <3>3. Written(r) => Written(r)'
          BY <1>2 DEF Written
    <3>4. Disturbed(r) => Disturbed(r)'
          BY <1>2 DEF Disturbed
    <3>5. /\ Private(r, mem[r].id) => Private(r, mem[r].id)'
          /\ last_rowid' = last_rowid /\ Private(r, last_rowid) => Private(r, last_rowid)'
          BY <1>2 DEF Private, Ready
    <3>6. pc[r] = "insertId" => last_rowid' = last_rowid
          BY <1>2 DEF Idle
    <3>7. Rows' = Rows
          BY <1>2 DEF Rows
    <3>8. SystemOf(r)'
          BY <1>2, <3>1, <3>3, <3>4, <3>5, <3>6, <3>7 DEF SystemOf
    <3> QED BY <3>2, <3>8
  <2> QED BY <2>1 DEF SystemsKept
<1>3. ASSUME InsertExecutor \/ ReadExecutorId, \A r \in Reporters : Idle(r)
      PROVE  SystemsKept'
  <2>1. TerminalStep
        BY <1>3, TerminalDoes
  <2> QED BY <1>2, <1>3, <2>1 DEF TerminalStep
<1>4. ReadExecutorId => \A r \in Reporters : Idle(r)
      BY DEF ReadExecutorId, OneCall
<1>5. CASE UNCHANGED vars
      BY <1>2, <1>5 DEF vars
<1> QED BY <1>1, <1>3, <1>4, <1>5 DEF SerialNext, Over

-----------------------------------------------------------------------------
(* What a step does to the devices in memory and to their rows *)

KeepsDevices(r) == \A d \in Devs : /\ mem'[r].devs[d].id = mem[r].devs[d].id
                                   /\ mem'[r].devs[d].info = mem[r].devs[d].info
SameStorage == UNCHANGED <<storage_table, rid, hit>>

DevStarts(r) ==
    /\ pc[r] = "off" /\ pc'[r] = IF rid[r] = -1 THEN "insert" ELSE "fetch"
    /\ rid[r] = -1 => Told(arg'[r], mem'[r])
    /\ UNCHANGED <<storage_table, rid>>

DevReports(r) ==
    /\ pc[r] \in {"ready", "fetchStorage", "dev"}
    /\ pc[r] = "dev" => todo[r] = {}
    /\ todo'[r] = {d \in Devs : mem'[r].devs[d].dirty}
    /\ pc'[r] = IF mem[r].id = -1 THEN "return" ELSE "update"
    /\ mem'[r].id = mem[r].id
    /\ Told(arg'[r], mem'[r])
    /\ \A d \in Devs : ~mem'[r].devs[d].dirty =>
          \/ /\ mem'[r].devs[d].id = mem[r].devs[d].id
             /\ mem'[r].devs[d].info = mem[r].devs[d].info
          \/ mem'[r].devs[d].info.free = 0
    /\ SameStorage

DevFails(r) ==
    /\ ~Idle(r) /\ pc'[r] \notin {"off", "ready"}
    /\ hit'[r] = "now"
    /\ UNCHANGED <<storage_table, rid>>

\* On to the next place, with the devices as they are.
DevMoves(r) ==
    /\ <<pc[r], pc'[r]>> \in {<<"fetch", "fetchStorage">>, <<"fetch", "insert">>,
                              <<"insert", "insertId">>, <<"insertId", "dev">>,
                              <<"update", "updateDevs">>, <<"updateDevs", "return">>,
                              <<"dev", "return">>}
    /\ pc'[r] = "return" => todo[r] = {}
    /\ pc[r] = "dev" => rid[r] = -1
    /\ pc[r] = "update" => todo'[r] = todo[r]
    /\ pc[r] # "insertId" => mem'[r].id = mem[r].id
    /\ KeepsDevices(r) /\ UNCHANGED arg /\ SameStorage

DevInserts(r) ==
    /\ pc[r] = "dev" /\ pc'[r] = "devId"
    /\ todo[r] # {}
    /\ \E row \in StorageRow : /\ row.info = mem[r].devs[At(r)].info
                               /\ storage_table' = Append(storage_table, row)
    /\ last_rowid' = Len(storage_table) + 1
    /\ UNCHANGED <<mem, arg, todo, rid, hit>>

DevReads(r) ==
    /\ pc[r] = "devId" /\ pc'[r] = "dev"
    /\ mem'[r].id = mem[r].id
    /\ \A d \in Devs : /\ mem'[r].devs[d].id = IF d = At(r) THEN last_rowid
                                                            ELSE mem[r].devs[d].id
                       /\ mem'[r].devs[d].info = mem[r].devs[d].info
    /\ todo'[r] = todo[r] \ {At(r)}
    /\ UNCHANGED arg /\ SameStorage

DevUpdates(r) ==
    LET dev == mem[r].devs[At(r)] IN
    /\ pc[r] = "updateDevs" /\ pc'[r] = "updateDevs"
    /\ todo[r] # {}
    /\ dev.id \in 1..Len(storage_table) => storage_table'[dev.id].info = dev.info
    /\ \A k \in 1..Len(storage_table) : k # dev.id => storage_table'[k].info = storage_table[k].info
    /\ mem'[r].id = mem[r].id
    /\ KeepsDevices(r)
    /\ todo'[r] = todo[r] \ {At(r)}
    /\ UNCHANGED <<arg, rid, hit>>

DevLeaves(r) ==
    /\ pc[r] \in {"return", "ready"} /\ pc'[r] \in {"ready", "off"}
    /\ UNCHANGED <<storage_table, mem, arg, hit>>

DevShape(r) ==
    \/ DevStarts(r) \/ DevReports(r) \/ DevFails(r) \/ DevMoves(r) \/ DevInserts(r)
    \/ DevReads(r) \/ DevUpdates(r) \/ DevLeaves(r)

\* What setSysInfo() leaves to updateDB().
LEMMA ThenUpdateTells ==
    ASSUME MountsDiffer, ThreadsTyped, NEW r \in Reporters, NEW m \in Computers,
           NEW mc \in Machines, ThenUpdate(r, m, report(mc))
    PROVE  /\ todo'[r] = {d \in Devs : mem'[r].devs[d].dirty}
           /\ pc'[r] = IF m.id = -1 THEN "return" ELSE "update"
           /\ mem'[r].id = m.id
           /\ Told(mc, mem'[r])
           /\ \A d \in Devs : /\ mem'[r].devs[d].id = m.devs[d].id
                              /\ ~mem'[r].devs[d].dirty =>
                                    mem'[r].devs[d].info = m.devs[d].info
<1> DEFINE n == setSysInfo(m, report(mc))
<1>1. /\ n.id = m.id /\ Told(mc, n)
      /\ \A d \in Devs : /\ n.devs[d].id = m.devs[d].id
                         /\ ~n.devs[d].dirty => n.devs[d].info = m.devs[d].info
      BY SetSysInfoKeeps, SetSysInfoTells
<1>2. /\ mem' = [mem EXCEPT ![r] = n]
      /\ todo' = [todo EXCEPT ![r] = Dirty(n)]
      /\ pc' = [pc EXCEPT ![r] = IF m.id = -1 THEN "return" ELSE "update"]
      BY DEF ThenUpdate, Put, Goto
<1> HIDE DEF n
<1>3. /\ mem'[r] = n /\ todo'[r] = Dirty(n)
      /\ pc'[r] = IF m.id = -1 THEN "return" ELSE "update"
      BY <1>2 DEF ThreadsTyped
<1> QED BY <1>1, <1>3 DEF Dirty

LEMMA HandshakeTells ==
    ASSUME MountsDiffer, StoreTypes, NEW r \in Reporters, NEW mc \in Machines,
           Handshake(r, mc)
    PROVE  DevStarts(r)
<1>1. pc[r] = "off" /\ arg' = [arg EXCEPT ![r] = mc] /\ UNCHANGED <<db, rid>>
      BY DEF Handshake
<1>2. /\ pc \in [Reporters -> Threads] /\ mem \in [Reporters -> Computers]
      /\ arg \in [Reporters -> Machines \cup {NoSystem}]
      BY DEF StoreTypes, ThreadsTyped
<1>3. arg'[r] = mc
      BY <1>1, <1>2
<1>4. CASE rid[r] # -1
  <2>1. Goto(r, "fetch")
        BY <1>4 DEF Handshake
  <2> QED BY <1>1, <1>2, <1>4, <2>1 DEF Goto, DevStarts, db
<1>5. CASE rid[r] = -1
  <2> DEFINE n == setSysInfo(RmsComputer(-1), report(mc))
  <2>1. Put(r, n) /\ Goto(r, "insert")
        BY <1>5 DEF Handshake
  <2>2. Told(mc, n)
        BY FreshTyped, SetSysInfoTells
  <2> HIDE DEF n
  <2>3. mem'[r] = n /\ pc'[r] = "insert"
        BY <1>2, <2>1 DEF Put, Goto
  <2> QED BY <1>1, <1>3, <1>5, <2>2, <2>3 DEF DevStarts, db
<1> QED BY <1>4, <1>5

LEMMA SendTells ==
    ASSUME MountsDiffer, StoreTypes, NEW r \in Reporters, NEW mc \in Machines,
           SendSysInfo(r, mc)
    PROVE  DevReports(r)
<1>1. /\ pc[r] = "ready" /\ arg' = [arg EXCEPT ![r] = mc]
      /\ ThenUpdate(r, mem[r], report(mc))
      /\ UNCHANGED <<db, rid, hit>>
      BY DEF SendSysInfo
<1>2. ThreadsTyped /\ mem[r] \in Computers
      BY DEF StoreTypes, ThreadsTyped
<1>3. arg'[r] = mc
      BY <1>1, <1>2 DEF ThreadsTyped
<1> QED BY <1>1, <1>2, <1>3, ThenUpdateTells DEF DevReports, SameStorage, db

LEMMA FetchComputerTells ==
    ASSUME StoreTypes, NEW r \in Reporters, NEW o, FetchComputer(r, o)
    PROVE  DevMoves(r) \/ DevFails(r)
<1>1. pc[r] = "fetch" /\ Outcome(r, o) /\ UNCHANGED <<db, arg, rid>>
      BY DEF FetchComputer
<1>2. Shape(r) /\ CountsTyped
      BY FetchComputerDoes DEF Shape, StoreTypes
<1>3. Selects(r) \/ Fails(r)
      BY FetchComputerDoes
<1>4. CASE Fails(r)
      BY <1>1, <1>4 DEF Fails, DevFails, Idle, db
<1>5. CASE Selects(r) /\ o = "ok" /\ mem[r].id \in DOMAIN computer_table
  <2> DEFINE n == [mem[r] EXCEPT !.sys = computer_table[mem[r].id]]
  <2>1. Put(r, n) /\ Goto(r, "fetchStorage")
        BY <1>5 DEF FetchComputer
  <2>2. n.id = mem[r].id /\ n.devs = mem[r].devs
        BY DEF StoreTypes, ThreadsTyped, Computers
  <2> HIDE DEF n
  <2>3. mem'[r] = n /\ pc'[r] = "fetchStorage"
        BY <2>1 DEF Put, Goto, StoreTypes, ThreadsTyped
  <2> QED BY <1>1, <1>5, <2>2, <2>3 DEF DevMoves, KeepsDevices, SameStorage, Selects, db
<1>6. CASE Selects(r) /\ o # "refused" /\ ~(o = "ok" /\ mem[r].id \in DOMAIN computer_table)
  <2>1. Goto(r, "insert") /\ UNCHANGED mem
        BY <1>6 DEF FetchComputer
  <2>2. pc'[r] = "insert"
        BY <2>1 DEF Goto, StoreTypes, ThreadsTyped
  <2> QED BY <1>1, <1>6, <2>1, <2>2 DEF DevMoves, KeepsDevices, SameStorage, Selects, db
<1>7. o = "refused" => Fails(r)
  <2>1. o = "refused" => hit'[r] = "now"
        BY <1>1, <1>2, OutcomeTyped
  <2>2. o = "refused" => faults' # faults
        BY <1>1, Bounds DEF Outcome, StoreTypes, CountsTyped
  <2> QED BY <1>3, <2>2 DEF Selects
<1> QED BY <1>3, <1>4, <1>5, <1>6, <1>7

LEMMA FetchStorageTells ==
    ASSUME MountsDiffer, StoreTypes, NEW r \in Reporters, NEW o, FetchStorage(r, o)
    PROVE  DevReports(r) \/ DevFails(r)
<1> DEFINE m == IF o = "ok" THEN Fetched(mem[r]) ELSE mem[r]
<1>1. /\ pc[r] = "fetchStorage" /\ Outcome(r, o)
      /\ ThenUpdate(r, m, report(arg[r]))
      /\ UNCHANGED <<db, arg, rid>>
      BY DEF FetchStorage
<1>2. mem[r] \in Computers /\ ThreadsTyped /\ CountsTyped /\ TablesTyped /\ arg[r] \in Machines
      BY <1>1 DEF StoreTypes, ThreadsTyped
<1>3. /\ o = "ok" => hit' = hit
      /\ o # "ok" => hit'[r] = "now"
      BY <1>1, <1>2, OutcomeTyped
<1>4. /\ m \in Computers /\ m.id = mem[r].id
      /\ \A d \in Devs : m.devs[d] = mem[r].devs[d] \/ m.devs[d].info.free = 0
      BY <1>2, FetchedOwn
<1> HIDE DEF m
<1>5. /\ todo'[r] = {d \in Devs : mem'[r].devs[d].dirty}
      /\ pc'[r] = IF m.id = -1 THEN "return" ELSE "update"
      /\ mem'[r].id = m.id
      /\ Told(arg[r], mem'[r])
      /\ \A d \in Devs : /\ mem'[r].devs[d].id = m.devs[d].id
                         /\ ~mem'[r].devs[d].dirty => mem'[r].devs[d].info = m.devs[d].info
      BY <1>1, <1>2, <1>4, ThenUpdateTells
<1>6. \A d \in Devs : ~mem'[r].devs[d].dirty =>
         \/ /\ mem'[r].devs[d].id = mem[r].devs[d].id
            /\ mem'[r].devs[d].info = mem[r].devs[d].info
         \/ mem'[r].devs[d].info.free = 0
      BY <1>4, <1>5
<1>7. arg'[r] = arg[r] /\ storage_table' = storage_table /\ rid' = rid
      BY <1>1 DEF db
<1>8. CASE o = "ok"
      BY <1>1, <1>3, <1>4, <1>5, <1>6, <1>7, <1>8 DEF DevReports, SameStorage
<1>9. CASE o # "ok"
      BY <1>1, <1>3, <1>5, <1>7, <1>9 DEF DevFails, Idle
<1> QED BY <1>8, <1>9

LEMMA InsertComputerTells ==
    ASSUME StoreTypes, NEW r \in Reporters, NEW o, InsertComputer(r, o)
    PROVE  DevMoves(r) \/ DevFails(r)
<1>1. pc[r] = "insert" /\ Outcome(r, o) /\ UNCHANGED <<storage_table, arg, rid>>
      BY DEF InsertComputer
<1>2. (InsertsComputer(r) \/ Fails(r)) /\ StoreTypes
      BY InsertComputerDoes
<1>3. CASE Fails(r)
      BY <1>1, <1>3 DEF Fails, DevFails, Idle
<1>4. CASE InsertsComputer(r)
  <2>1. o = "ok"
    <3>1. faults' = faults /\ faults \in Nat
          BY <1>4, Bounds DEF InsertsComputer, StoreTypes, CountsTyped
    <3> QED BY <1>1, <3>1 DEF Outcome
  <2>2. UNCHANGED mem
        BY <2>1 DEF InsertComputer
  <2> QED BY <1>1, <1>4, <2>2 DEF InsertsComputer, DevMoves, KeepsDevices, SameStorage
<1> QED BY <1>2, <1>3, <1>4

LEMMA ReadComputerIdTells ==
    ASSUME StoreTypes, NEW r \in Reporters, ReadComputerId(r)
    PROVE  DevMoves(r)
<1> DEFINE n == [mem[r] EXCEPT !.id = last_rowid]
<1>1. /\ pc[r] = "insertId" /\ mem' = [mem EXCEPT ![r] = n]
      /\ pc' = [pc EXCEPT ![r] = "dev"]
      /\ UNCHANGED <<db, arg, rid, hit>>
      BY DEF ReadComputerId, Put, Goto
<1>2. mem[r] \in Computers /\ ThreadsTyped
      BY DEF StoreTypes, ThreadsTyped
<1>3. n.devs = mem[r].devs
      BY <1>2 DEF Computers
<1> HIDE DEF n
<1>4. mem'[r] = n /\ pc'[r] = "dev"
      BY <1>1, <1>2 DEF ThreadsTyped
<1> QED BY <1>1, <1>3, <1>4 DEF DevMoves, KeepsDevices, SameStorage, db

LEMMA InsertDeviceTells ==
    ASSUME StoreTypes, NEW r \in Reporters, NEW o, InsertDevice(r, o)
    PROVE  DevInserts(r) \/ DevFails(r)
<1>1. /\ pc[r] = "dev" /\ todo[r] # {} /\ Outcome(r, o)
      /\ UNCHANGED <<arg, rid>>
      BY DEF InsertDevice
<1>2. InsertsDevice(r) \/ Fails(r)
      BY InsertDeviceDoes
<1>3. CASE Fails(r)
      BY <1>1, <1>3 DEF Fails, DevFails, Idle, db
<1>4. CASE InsertsDevice(r)
  <2> DEFINE row == [computer |-> mem[r].id, dev |-> At(r), info |-> mem[r].devs[At(r)].info,
                     connected |-> TRUE]
  <2>1. o = "ok"
    <3>1. faults' = faults /\ faults \in Nat
          BY <1>4, Bounds DEF InsertsDevice, StoreTypes, CountsTyped
    <3> QED BY <1>1, <3>1 DEF Outcome
  <2>2. storage_table' = Append(storage_table, row) /\ last_rowid' = Len(storage_table) + 1
        BY <2>1 DEF InsertDevice
  <2>3. mem[r].id \in Int /\ mem[r].devs[At(r)] \in Devices /\ At(r) \in Devs
    <3>1. At(r) \in todo[r] /\ todo[r] \subseteq Devs
          BY <1>1 DEF At, StoreTypes, ThreadsTyped
    <3> QED BY <3>1 DEF StoreTypes, ThreadsTyped, Computers
  <2>4. row \in StorageRow /\ row.info = mem[r].devs[At(r)].info
        BY <2>3 DEF StorageRow, Devices, Device
  <2> HIDE DEF row
  <2> QED BY <1>1, <1>4, <2>2, <2>4 DEF InsertsDevice, DevInserts
<1> QED BY <1>2, <1>3, <1>4

LEMMA ReadDeviceIdTells ==
    ASSUME StoreTypes, NEW r \in Reporters, ReadDeviceId(r)
    PROVE  DevReads(r)
<1> DEFINE n == WithRow(mem[r], At(r), last_rowid)
<1>1. /\ pc[r] = "devId" /\ mem' = [mem EXCEPT ![r] = n]
      /\ todo' = [todo EXCEPT ![r] = todo[r] \ {At(r)}]
      /\ pc' = [pc EXCEPT ![r] = "dev"]
      /\ UNCHANGED <<db, arg, rid, hit>>
      BY DEF ReadDeviceId, Put, Goto, WithRow
<1>2. mem[r] \in Computers /\ ThreadsTyped /\ last_rowid \in Int
      BY DEF StoreTypes, ThreadsTyped, TablesTyped
<1>3. At(r) \in Devs /\ mem[r].devs[At(r)].known
  <2>1. At(r) \in todo[r] /\ todo[r] \subseteq Devs
        BY <1>1, <1>2 DEF At, ThreadsTyped
  <2> QED BY <1>1, <1>2, <2>1 DEF ThreadsTyped
<1>4. /\ n.id = mem[r].id
      /\ \A e \in Devs : n.devs[e].id = IF e = At(r) THEN last_rowid ELSE mem[r].devs[e].id
      /\ \A e \in Devs : n.devs[e].info = mem[r].devs[e].info
      BY <1>2, <1>3, DeviceSet
<1> HIDE DEF n
<1>5. mem'[r] = n /\ pc'[r] = "dev" /\ todo'[r] = todo[r] \ {At(r)}
      BY <1>1, <1>2 DEF ThreadsTyped
<1> QED BY <1>1, <1>4, <1>5 DEF DevReads, SameStorage, db

LEMMA InsertedAllTells ==
    ASSUME MountsDiffer, StoreTypes, NEW r \in Reporters, InsertedAll(r)
    PROVE  DevMoves(r) \/ DevReports(r)
<1>1. /\ pc[r] = "dev" /\ todo[r] = {} /\ Added(r, mem[r])
      /\ UNCHANGED <<db, arg, rid, hit>>
      BY DEF InsertedAll
<1>2. mem[r] \in Computers /\ ThreadsTyped /\ arg[r] \in Machines
      BY <1>1 DEF StoreTypes, ThreadsTyped
<1>3. CASE rid[r] = -1
  <2>1. mem'[r] = mem[r] /\ pc'[r] = "return"
        BY <1>1, <1>2, <1>3 DEF Added, Put, Goto, ThreadsTyped
  <2> QED BY <1>1, <1>3, <2>1 DEF DevMoves, KeepsDevices, SameStorage, db
<1>4. CASE rid[r] # -1
  <2>1. ThenUpdate(r, mem[r], report(arg[r]))
        BY <1>1, <1>4 DEF Added
  <2>2. arg'[r] = arg[r]
        BY <1>1
  <2>3. /\ todo'[r] = {d \in Devs : mem'[r].devs[d].dirty}
        /\ pc'[r] = IF mem[r].id = -1 THEN "return" ELSE "update"
        /\ mem'[r].id = mem[r].id
        /\ Told(arg[r], mem'[r])
        /\ \A d \in Devs : /\ mem'[r].devs[d].id = mem[r].devs[d].id
                           /\ ~mem'[r].devs[d].dirty =>
                                 mem'[r].devs[d].info = mem[r].devs[d].info
        BY <1>2, <2>1, ThenUpdateTells
  <2> QED BY <1>1, <2>2, <2>3 DEF DevReports, SameStorage, db
<1> QED BY <1>3, <1>4

LEMMA UpdateComputerTells ==
    ASSUME StoreTypes, NEW r \in Reporters, NEW o, UpdateComputer(r, o)
    PROVE  DevMoves(r) \/ DevFails(r)
<1> DEFINE n == [mem[r] EXCEPT !.dirty = (mem[r].dirty /\ o = "refused")]
<1>1. /\ pc[r] = "update" /\ Outcome(r, o) /\ Goto(r, "updateDevs")
      /\ Put(r, n)
      /\ UNCHANGED <<storage_table, arg, todo, rid>>
      BY DEF UpdateComputer
<1>2. mem[r] \in Computers /\ ThreadsTyped /\ CountsTyped
      BY DEF StoreTypes, ThreadsTyped
<1>3. /\ o = "ok" => hit' = hit
      /\ o # "ok" => hit'[r] = "now"
      BY <1>1, <1>2, OutcomeTyped
<1>4. n.id = mem[r].id /\ n.devs = mem[r].devs
      BY <1>2 DEF Computers
<1> HIDE DEF n
<1>5. mem'[r] = n /\ pc'[r] = "updateDevs"
      BY <1>1, <1>2 DEF Put, Goto, ThreadsTyped
<1>6. CASE o = "ok"
      BY <1>1, <1>3, <1>4, <1>5, <1>6 DEF DevMoves, KeepsDevices, SameStorage
<1>7. CASE o # "ok"
      BY <1>1, <1>3, <1>5, <1>7 DEF DevFails, Idle
<1> QED BY <1>6, <1>7

\* UPDATE writes one row.
LEMMA RowWritten ==
    ASSUME TablesTyped, NEW k \in DOMAIN storage_table, NEW i \in Info, NEW b \in BOOLEAN
    PROVE  LET t == WithInfo(storage_table, k, i, b)
           IN  /\ t[k].info = i
               /\ \A j \in 1..Len(storage_table) : j # k => t[j].info = storage_table[j].info
<1> DEFINE row == [storage_table[k] EXCEPT !.info = i, !.connected = b]
           t == WithInfo(storage_table, k, i, b)
<1>1. /\ storage_table \in Seq(StorageRow) /\ storage_table[k] \in StorageRow
      /\ k \in 1..Len(storage_table)
      BY DEF TablesTyped
<1>2. row \in StorageRow /\ row.info = i
      BY <1>1 DEF StorageRow
<1>3. t = [storage_table EXCEPT ![k] = row]
      BY <1>1 DEF WithInfo
<1> HIDE DEF row, t
<1>4. \A j \in 1..Len(storage_table) : t[j] = IF j = k THEN row ELSE storage_table[j]
      BY <1>1, <1>3
<1>5. t[k].info = i /\ \A j \in 1..Len(storage_table) : j # k => t[j].info = storage_table[j].info
      BY <1>1, <1>2, <1>4
<1> QED BY <1>5 DEF t

LEMMA UpdateDeviceTells ==
    ASSUME StoreTypes, NEW r \in Reporters, NEW o, UpdateDevice(r, o)
    PROVE  DevUpdates(r) \/ DevFails(r)
<1> DEFINE dev == mem[r].devs[At(r)]
           b == (o = "refused")
           n == [mem[r] EXCEPT !.devs[At(r)].dirty = b]
<1>1. /\ pc[r] = "updateDevs" /\ todo[r] # {} /\ Outcome(r, o)
      /\ mem' = [mem EXCEPT ![r] = n]
      /\ todo' = [todo EXCEPT ![r] = todo[r] \ {At(r)}]
      /\ UNCHANGED <<pc, arg, rid>>
      BY DEF UpdateDevice, Put
<1>2. mem[r] \in Computers /\ ThreadsTyped /\ CountsTyped /\ TablesTyped
      BY DEF StoreTypes, ThreadsTyped
<1>3. /\ o = "ok" => hit' = hit
      /\ o # "ok" => hit'[r] = "now"
      BY <1>1, <1>2, OutcomeTyped
<1>4. At(r) \in Devs
      BY <1>1, <1>2 DEF At, ThreadsTyped
<1>5. /\ n.id = mem[r].id
      /\ \A e \in Devs : n.devs[e].id = mem[r].devs[e].id /\ n.devs[e].info = mem[r].devs[e].info
  <2>1. b \in BOOLEAN
        OBVIOUS
  <2> HIDE DEF b
  <2> QED BY <1>2, <1>4, <2>1, DeviceMarked
<1> HIDE DEF n
<1>6. mem'[r] = n /\ todo'[r] = todo[r] \ {At(r)}
      BY <1>1, <1>2 DEF ThreadsTyped
<1>7. CASE o # "ok"
  <2>1. storage_table' = storage_table
        BY <1>7 DEF UpdateDevice
  <2> QED BY <1>1, <1>3, <1>7, <2>1 DEF DevFails, Idle
<1>8. CASE o = "ok"
  <2>1. DOMAIN storage_table = 1..Len(storage_table)
        BY <1>2 DEF TablesTyped
  <2>2. /\ dev.id \in 1..Len(storage_table) => storage_table'[dev.id].info = dev.info
        /\ \A k \in 1..Len(storage_table) :
              k # dev.id => storage_table'[k].info = storage_table[k].info
    <3>1. CASE dev.id \in DOMAIN storage_table
      <4>1. storage_table' = WithInfo(storage_table, dev.id, dev.info, dev.connected)
            BY <1>8, <3>1 DEF UpdateDevice, WithInfo
      <4>2. dev \in Devices
            BY <1>2, <1>4 DEF Computers
      <4>3. dev.info \in Info /\ dev.connected \in BOOLEAN
            BY <4>2 DEF Devices, Device
      <4> HIDE DEF dev
      <4> QED BY <1>2, <3>1, <4>1, <4>3, RowWritten
    <3>2. CASE dev.id \notin DOMAIN storage_table
      <4>1. storage_table' = storage_table
            BY <3>2 DEF UpdateDevice
      <4> QED BY <2>1, <3>2, <4>1
    <3> QED BY <3>1, <3>2
  <2>3. KeepsDevices(r)
        BY <1>5, <1>6 DEF KeepsDevices
  <2> QED BY <1>1, <1>3, <1>5, <1>6, <1>8, <2>2, <2>3 DEF DevUpdates
<1> QED BY <1>7, <1>8

LEMMA LastTells ==
    ASSUME StoreTypes, NEW r \in Reporters, UpdatedAll(r) \/ Return(r) \/ Disconnect(r)
    PROVE  DevMoves(r) \/ DevLeaves(r)
<1>1. UNCHANGED <<db, mem, arg, hit>>
      BY DEF UpdatedAll, Return, Disconnect
<1>2. pc \in [Reporters -> Threads]
      BY DEF StoreTypes, ThreadsTyped
<1>3. CASE UpdatedAll(r)
      BY <1>1, <1>2, <1>3 DEF UpdatedAll, Goto, DevMoves, KeepsDevices, SameStorage, db
<1>4. CASE Return(r) \/ Disconnect(r)
      BY <1>1, <1>2, <1>4 DEF Return, Disconnect, Goto, DevLeaves, db
<1> QED BY <1>3, <1>4

LEMMA ReporterTells ==
    ASSUME MountsDiffer, StoreTypes, NEW r \in Reporters,
           Begin(r) \/ Continue(r) \/ Disconnect(r)
    PROVE  DevShape(r)
<1>1. ASSUME Begin(r) PROVE DevShape(r)
      BY <1>1, HandshakeTells, SendTells DEF Begin, DevShape
<1>2. ASSUME NEW o, Statement(r, o) PROVE DevShape(r)
      BY <1>2, FetchComputerTells, FetchStorageTells, InsertComputerTells, InsertDeviceTells,
         UpdateComputerTells, UpdateDeviceTells DEF Statement, DevShape
<1>3. ASSUME ReadComputerId(r) \/ ReadDeviceId(r) \/ InsertedAll(r)
      PROVE  DevShape(r)
      BY <1>3, ReadComputerIdTells, ReadDeviceIdTells, InsertedAllTells DEF DevShape
<1>4. ASSUME UpdatedAll(r) \/ Return(r) \/ Disconnect(r)
      PROVE  DevShape(r)
      BY <1>4, LastTells DEF DevShape
<1> QED BY <1>1, <1>2, <1>3, <1>4 DEF Continue

\* The devices of a connected computer that another thread's step does not touch.
LEMMA DevicesUndisturbed ==
    ASSUME StoreTypes, SystemsKept, DevicesOwned, DevicesKept,
           NEW r \in Reporters, NEW q \in Reporters, q # r, Idle(q),
           Others(r), SysOthers(r), SysShape(r), DevShape(r)
    PROVE  DevicesOf(q)'
<1>0. storage_table \in Seq(StorageRow) /\ Len(storage_table) \in Nat
      BY DEF StoreTypes, TablesTyped
<1>1. /\ pc'[q] = pc[q] /\ mem'[q] = mem[q] /\ hit'[q] = hit[q] /\ rid'[q] = rid[q]
      /\ arg'[q] = arg[q] /\ pc[q] \in {"off", "ready"}
      BY DEF Others, SysOthers, Idle
<1>2. ASSUME hit[q] # "now", pc[q] = "ready"
      PROVE  /\ Told(arg[q], mem[q])
             /\ \A d \in Devs : mem[q].devs[d].id # -1 => Says(q, d)' \/ Disturbed(q)'
  <2>1. /\ Told(arg[q], mem[q])
        /\ \A d \in Devs : mem[q].devs[d].id # -1 => Says(q, d) \/ Disturbed(q)
        BY <1>2 DEF DevicesKept, DevicesOf
  <2>2. Disturbed(q) => Disturbed(q)'
        BY <1>2, StaysDisturbed
  <2>3. CASE hit'[r] # "never"
        BY <2>1, <2>3 DEF Disturbed
  <2>4. CASE hit'[r] = "never"
    <3> SUFFICES ASSUME NEW d \in Devs, mem[q].devs[d].id # -1, Says(q, d)
                 PROVE  Says(q, d)' \/ Disturbed(q)'
        BY <2>1, <2>2
    <3> DEFINE k == mem[q].devs[d].id
    <3>1. RowOf(k, mem[q].id, d)
          BY <1>2 DEF DevicesOwned
    <3>2. k \in 1..Len(storage_table)
          BY <3>1 DEF RowOf
    <3>3. storage_table'[k].info = storage_table[k].info => Says(q, d)'
          BY <1>1 DEF Says
    <3>4. CASE DevUpdates(r)
      <4>1. /\ pc[r] = "updateDevs" /\ hit[r] = "never" /\ todo[r] # {}
            /\ \A j \in 1..Len(storage_table) :
                  j # mem[r].devs[At(r)].id => storage_table'[j].info = storage_table[j].info
            BY <2>4, <3>4 DEF DevUpdates
      <4>2. CASE k # mem[r].devs[At(r)].id
            BY <3>2, <3>3, <4>1, <4>2
      <4>3. CASE k = mem[r].devs[At(r)].id
        <5>1. At(r) \in Devs
              BY <4>1 DEF At, StoreTypes, ThreadsTyped
        <5>2. RowOf(k, mem[r].id, At(r))
              BY <4>1, <4>3, <5>1 DEF DevicesOwned
        <5>3. mem[r].id = mem[q].id
              BY <3>1, <5>2 DEF RowOf
        <5>4. rid[r] = mem[r].id \/ Private(r, mem[r].id)
              BY <4>1 DEF SystemsKept, SystemOf, HasRow
        <5>5. ~Private(r, mem[r].id)
              BY <1>2, <5>3 DEF Private, Ready
        <5> QED BY <2>2, <5>3, <5>4, <5>5 DEF Disturbed
      <4> QED BY <4>2, <4>3
    <3>5. CASE DevInserts(r)
      <4>1. PICK row \in StorageRow : storage_table' = Append(storage_table, row)
            BY <3>5 DEF DevInserts
      <4>2. storage_table'[k] = storage_table[k]
        <5> HIDE DEF k
        <5> QED BY <1>0, <3>2, <4>1
      <4> QED BY <3>3, <4>2
    <3>6. CASE ~DevUpdates(r) /\ ~DevInserts(r)
      <4>1. storage_table' = storage_table
            BY <3>6 DEF DevShape, DevStarts, DevReports, DevFails, DevMoves, DevReads, DevLeaves,
                        SameStorage
      <4> QED BY <3>3, <4>1
    <3> QED BY <3>4, <3>5, <3>6
  <2> QED BY <2>3, <2>4
<1>3. /\ hit'[q] # "now" /\ pc'[q] = "ready" =>
            /\ Told(arg'[q], mem'[q])
            /\ \A d \in Devs : mem'[q].devs[d].id # -1 => Says(q, d)' \/ Disturbed(q)'
      /\ pc'[q] \in {"off", "ready"}
      BY <1>1, <1>2
<1> QED BY <1>3 DEF DevicesOf

\* What the devices of a computer were told stays, as long as they and the report do.
LEMMA ToldStays ==
    ASSUME NEW r \in Reporters, KeepsDevices(r), arg' = arg
    PROVE  Told(arg[r], mem[r]) => Told(arg'[r], mem'[r])
<1>1. \A d \in Devs : mem'[r].devs[d].info = mem[r].devs[d].info
      BY DEF KeepsDevices
<1> QED BY <1>1 DEF Told

\* The devices of the computer whose thread takes the step.
LEMMA DevicesStep ==
    ASSUME StoreTypes, SystemsKept, DevicesOwned, DevicesKept,
           NEW r \in Reporters, Others(r), SysOthers(r), DevShape(r)
    PROVE  DevicesOf(r)'
<1> DEFINE Wrote(d) == storage_table'[mem'[r].devs[d].id].info = mem'[r].devs[d].info
                       \/ mem'[r].devs[d].info.free = 0
<1>0. storage_table \in Seq(StorageRow) /\ Len(storage_table) \in Nat
      BY DEF StoreTypes, TablesTyped
<1>1. /\ KnowsId(r) /\ SystemOf(r) /\ DevicesOf(r)
      /\ pc[r] \in {"fetch", "insert", "insertId"} => \A d \in Devs : mem[r].devs[d].id = -1
      /\ hit[r] # "now" => \A d \in Devs : mem[r].devs[d].id # -1 =>
                              RowOf(mem[r].devs[d].id, mem[r].id, d)
      BY DEF SystemsKept, DevicesKept, DevicesOwned
<1>2. mem'[r].id = mem[r].id => (Disturbed(r) => Disturbed(r)')
      BY DEF Others, SysOthers, Disturbed
<1>3. \A d \in Devs : Says(r, d)' <=> Wrote(d)
      BY DEF Says
<1>4. \A d \in Devs : Says(r, d) /\ storage_table' = storage_table
                      /\ mem'[r].devs[d].id = mem[r].devs[d].id
                      /\ mem'[r].devs[d].info = mem[r].devs[d].info => Wrote(d)
      BY DEF Says
<1> HIDE DEF Wrote
<1>5. CASE DevStarts(r)
  <2>1. /\ pc'[r] = IF rid[r] = -1 THEN "insert" ELSE "fetch"
        /\ rid[r] = -1 => Told(arg'[r], mem'[r])
        /\ rid' = rid
        BY <1>5 DEF DevStarts
  <2> QED BY <2>1 DEF DevicesOf
<1>6. CASE DevReports(r)
  <2>1. /\ pc[r] \in {"ready", "fetchStorage", "dev"}
        /\ pc[r] = "dev" => todo[r] = {}
        /\ todo'[r] = {d \in Devs : mem'[r].devs[d].dirty}
        /\ pc'[r] = IF mem[r].id = -1 THEN "return" ELSE "update"
        /\ mem'[r].id = mem[r].id /\ Told(arg'[r], mem'[r])
        /\ storage_table' = storage_table /\ hit' = hit
        BY <1>6 DEF DevReports, SameStorage
  <2>2. CASE hit[r] = "now"
        BY <2>1, <2>2 DEF DevicesOf
  <2>3. CASE hit[r] # "now"
    <3>1. mem[r].id \in Rows /\ mem[r].id # -1
          BY <1>1, <2>1, <2>3 DEF SystemOf, HasRow, Rows
    <3>2. pc'[r] = "update"
          BY <2>1, <3>1
    <3>3. ASSUME NEW d \in Devs, d \notin todo'[r], mem'[r].devs[d].id # -1
          PROVE  Wrote(d) \/ Disturbed(r)'
      <4>1. ~mem'[r].devs[d].dirty
            BY <2>1, <3>3
      <4>2. CASE mem'[r].devs[d].info.free = 0
            BY <4>2 DEF Wrote
      <4>3. CASE mem'[r].devs[d].info.free # 0
        <5>1. /\ mem'[r].devs[d].id = mem[r].devs[d].id
              /\ mem'[r].devs[d].info = mem[r].devs[d].info
              BY <1>6, <4>1, <4>3 DEF DevReports
        <5>2. Says(r, d) \/ Disturbed(r)
              BY <1>1, <2>1, <2>3, <3>3, <5>1 DEF DevicesOf
        <5> QED BY <1>2, <1>4, <2>1, <5>1, <5>2
      <4> QED BY <4>2, <4>3
    <3> QED BY <1>3, <2>1, <3>2, <3>3 DEF DevicesOf
  <2> QED BY <2>2, <2>3
<1>7. CASE DevFails(r)
      BY <1>7 DEF DevFails, DevicesOf
<1>8. CASE DevMoves(r)
  <2>1. /\ storage_table' = storage_table /\ rid' = rid /\ hit' = hit
        /\ Told(arg[r], mem[r]) => Told(arg'[r], mem'[r])
        /\ \A d \in Devs : /\ mem'[r].devs[d].id = mem[r].devs[d].id
                           /\ mem'[r].devs[d].info = mem[r].devs[d].info
        BY <1>8, ToldStays DEF DevMoves, SameStorage, KeepsDevices
  <2>2. \A d \in Devs : Says(r, d) => Wrote(d)
        BY <1>4, <2>1
  <2>3. pc[r] # "insertId" => (Disturbed(r) => Disturbed(r)')
        BY <1>2, <1>8 DEF DevMoves
  <2>4. CASE hit[r] = "now"
        BY <2>1, <2>4 DEF DevicesOf
  <2>5. CASE hit[r] # "now" /\ pc[r] \in {"fetch", "insert", "insertId"}
    <3>1. /\ pc'[r] \in {"fetchStorage", "insert", "insertId", "dev"}
          /\ pc[r] = "fetch" => rid[r] # -1
          BY <1>1, <1>8, <2>5 DEF DevMoves, SystemOf
    <3>2. \A d \in Devs : mem'[r].devs[d].id = -1
          BY <1>1, <2>1, <2>5
    <3>3. pc'[r] # "fetchStorage" /\ rid[r] = -1 => Told(arg'[r], mem'[r])
          BY <1>1, <2>1, <2>5, <3>1 DEF DevicesOf
    <3> QED BY <2>1, <3>1, <3>2, <3>3 DEF DevicesOf
  <2>6. CASE hit[r] # "now" /\ pc[r] \in {"dev", "updateDevs"}
    <3>1. /\ pc'[r] = "return" /\ todo[r] = {}
          /\ pc[r] = "dev" => rid[r] = -1
          BY <1>8, <2>6 DEF DevMoves
    <3>2. Told(arg'[r], mem'[r])
          BY <1>1, <2>1, <2>6, <3>1 DEF DevicesOf
    <3>3. \A d \in Devs : mem'[r].devs[d].id # -1 => Says(r, d) \/ Disturbed(r)
          BY <1>1, <2>1, <2>6, <3>1 DEF DevicesOf
    <3>4. \A d \in Devs : mem'[r].devs[d].id # -1 => Wrote(d) \/ Disturbed(r)'
          BY <2>2, <2>3, <2>6, <3>3
    <3> QED BY <1>3, <3>1, <3>2, <3>4 DEF DevicesOf
  <2>7. CASE hit[r] # "now" /\ pc[r] = "update"
    <3>1. pc'[r] = "updateDevs" /\ todo'[r] = todo[r]
          BY <1>8, <2>7 DEF DevMoves
    <3>2. Told(arg'[r], mem'[r])
          BY <1>1, <2>1, <2>7 DEF DevicesOf
    <3>3. \A d \in Devs : d \notin todo'[r] /\ mem'[r].devs[d].id # -1 =>
                             Says(r, d) \/ Disturbed(r)
          BY <1>1, <2>1, <2>7, <3>1 DEF DevicesOf
    <3>4. \A d \in Devs : d \notin todo'[r] /\ mem'[r].devs[d].id # -1 =>
                             Wrote(d) \/ Disturbed(r)'
          BY <2>2, <2>3, <2>7, <3>3
    <3> QED BY <1>3, <3>1, <3>2, <3>4 DEF DevicesOf
  <2>8. pc[r] \in {"fetch", "insert", "insertId", "dev", "updateDevs", "update"}
        BY <1>8 DEF DevMoves
  <2> QED BY <2>4, <2>5, <2>6, <2>7, <2>8
<1>9. CASE DevInserts(r)
  <2>1. /\ pc[r] = "dev" /\ pc'[r] = "devId" /\ todo[r] # {}
        /\ last_rowid' = Len(storage_table) + 1
        /\ mem' = mem /\ arg' = arg /\ todo' = todo /\ rid' = rid /\ hit' = hit
        BY <1>9 DEF DevInserts
  <2>2. PICK row \in StorageRow : /\ row.info = mem[r].devs[At(r)].info
                                  /\ storage_table' = Append(storage_table, row)
        BY <1>9 DEF DevInserts
  <2>3. /\ storage_table'[Len(storage_table) + 1] = row
        /\ \A k \in 1..Len(storage_table) : storage_table'[k] = storage_table[k]
        BY <1>0, <2>2
  <2>4. CASE hit[r] = "now"
        BY <2>1, <2>4 DEF DevicesOf
  <2>5. CASE hit[r] # "now"
    <3>1. At(r)' = At(r) /\ storage_table'[last_rowid'].info = mem'[r].devs[At(r)].info
          BY <2>1, <2>2, <2>3 DEF At
    <3>2. ASSUME NEW d \in Devs
          PROVE  /\ d \in todo[r] => mem[r].devs[d].id = -1
                 /\ d \notin todo[r] /\ mem[r].devs[d].id # -1 => Wrote(d)
      <4>1. /\ d \in todo[r] => mem[r].devs[d].id = -1
            /\ d \notin todo[r] /\ mem[r].devs[d].id # -1 => Says(r, d)
            BY <1>1, <2>1, <2>5 DEF DevicesOf
      <4>2. mem[r].devs[d].id # -1 => mem[r].devs[d].id \in 1..Len(storage_table)
            BY <1>1, <2>5 DEF RowOf
      <4> QED BY <2>1, <2>3, <4>1, <4>2 DEF Says, Wrote
    <3>3. rid[r] = -1 => Told(arg[r], mem[r])
          BY <1>1, <2>1, <2>5 DEF DevicesOf
    <3> QED BY <1>3, <2>1, <3>1, <3>2, <3>3 DEF DevicesOf
  <2> QED BY <2>4, <2>5
<1>10. CASE DevReads(r)
  <2>1. /\ pc[r] = "devId" /\ pc'[r] = "dev" /\ mem'[r].id = mem[r].id
        /\ \A d \in Devs : /\ mem'[r].devs[d].id = IF d = At(r) THEN last_rowid
                                                                ELSE mem[r].devs[d].id
                           /\ mem'[r].devs[d].info = mem[r].devs[d].info
        /\ todo'[r] = todo[r] \ {At(r)}
        /\ arg' = arg /\ storage_table' = storage_table /\ rid' = rid /\ hit' = hit
        BY <1>10 DEF DevReads, SameStorage
  <2>2. CASE hit[r] = "now"
        BY <2>1, <2>2 DEF DevicesOf
  <2>3. CASE hit[r] # "now"
    <3>1. ASSUME NEW d \in Devs
          PROVE  /\ d \in todo'[r] => mem'[r].devs[d].id = -1
                 /\ d \notin todo'[r] /\ mem'[r].devs[d].id # -1 => Wrote(d)
      <4>1. CASE d = At(r)
        <5>1. storage_table[last_rowid].info = mem[r].devs[d].info
              BY <1>1, <2>1, <2>3, <4>1 DEF DevicesOf
        <5> QED BY <2>1, <4>1, <5>1 DEF Wrote
      <4>2. CASE d # At(r)
        <5>1. /\ d \in todo[r] => mem[r].devs[d].id = -1
              /\ d \notin todo[r] /\ mem[r].devs[d].id # -1 => Says(r, d)
              BY <1>1, <2>1, <2>3 DEF DevicesOf
        <5> QED BY <1>4, <2>1, <4>2, <5>1
      <4> QED BY <4>1, <4>2
    <3>2. rid[r] = -1 => Told(arg'[r], mem'[r])
      <4>1. rid[r] = -1 => Told(arg[r], mem[r])
            BY <1>1, <2>1, <2>3 DEF DevicesOf
      <4> QED BY <2>1, <4>1 DEF Told
    <3> QED BY <1>3, <2>1, <3>1, <3>2 DEF DevicesOf
  <2> QED BY <2>2, <2>3
<1>11. CASE DevUpdates(r)
  <2> DEFINE k == mem[r].devs[At(r)].id
  <2>1. /\ pc[r] = "updateDevs" /\ pc'[r] = "updateDevs" /\ todo[r] # {}
        /\ k \in 1..Len(storage_table) => storage_table'[k].info = mem[r].devs[At(r)].info
        /\ \A j \in 1..Len(storage_table) :
              j # k => storage_table'[j].info = storage_table[j].info
        /\ mem'[r].id = mem[r].id /\ todo'[r] = todo[r] \ {At(r)}
        /\ rid' = rid /\ hit' = hit
        BY <1>11 DEF DevUpdates
  <2>2. /\ Told(arg[r], mem[r]) => Told(arg'[r], mem'[r])
        /\ \A d \in Devs : /\ mem'[r].devs[d].id = mem[r].devs[d].id
                           /\ mem'[r].devs[d].info = mem[r].devs[d].info
        BY <1>11, ToldStays DEF DevUpdates, KeepsDevices
  <2>3. At(r) \in Devs
        BY <2>1 DEF At, StoreTypes, ThreadsTyped
  <2>4. CASE hit[r] = "now"
        BY <2>1, <2>4 DEF DevicesOf
  <2>5. CASE hit[r] # "now"
    <3>1. ASSUME NEW d \in Devs, d \notin todo'[r], mem'[r].devs[d].id # -1
          PROVE  Wrote(d) \/ Disturbed(r)'
      <4>1. RowOf(mem[r].devs[d].id, mem[r].id, d)
            BY <1>1, <2>2, <2>5, <3>1
      <4>2. CASE d = At(r)
            BY <2>1, <2>2, <4>1, <4>2 DEF RowOf, Wrote
      <4>3. CASE d # At(r)
        <5>1. Says(r, d) \/ Disturbed(r)
              BY <1>1, <2>1, <2>2, <2>5, <3>1, <4>3 DEF DevicesOf
        <5>2. mem[r].devs[d].id # k
              BY <1>1, <2>2, <2>3, <2>5, <3>1, <4>1, <4>3 DEF RowOf
        <5>3. storage_table'[mem[r].devs[d].id].info = storage_table[mem[r].devs[d].id].info
              BY <2>1, <4>1, <5>2 DEF RowOf
        <5>4. Says(r, d) => Wrote(d)
              BY <2>2, <5>3 DEF Says, Wrote
        <5> QED BY <1>2, <2>1, <5>1, <5>4
      <4> QED BY <4>2, <4>3
    <3>2. Told(arg'[r], mem'[r])
          BY <1>1, <2>1, <2>2, <2>5 DEF DevicesOf
    <3> QED BY <1>3, <2>1, <3>1, <3>2 DEF DevicesOf
  <2> QED BY <2>4, <2>5
<1>12. CASE DevLeaves(r)
  <2>1. /\ pc[r] \in {"return", "ready"} /\ pc'[r] \in {"ready", "off"}
        /\ storage_table' = storage_table /\ mem' = mem /\ arg' = arg /\ hit' = hit
        BY <1>12 DEF DevLeaves
  <2>2. hit[r] # "now" => \A d \in Devs : mem[r].devs[d].id # -1 => Says(r, d) \/ Disturbed(r)
        BY <1>1, <2>1 DEF DevicesOf
  <2>3. hit[r] # "now" => \A d \in Devs : mem'[r].devs[d].id # -1 => Wrote(d) \/ Disturbed(r)'
        BY <1>2, <1>4, <2>1, <2>2
  <2>4. hit[r] # "now" => Told(arg[r], mem[r])
        BY <1>1, <2>1 DEF DevicesOf
  <2> QED BY <1>3, <2>1, <2>3, <2>4 DEF DevicesOf
<1> QED BY <1>5, <1>6, <1>7, <1>8, <1>9, <1>10, <1>11, <1>12 DEF DevShape

LEMMA DevicesKeptStep ==
    ASSUME MountsDiffer, StoreTypes, OneCall, SystemsKept, DevicesOwned, DevicesKept,
           [SerialNext]_vars
    PROVE  DevicesKept'
<1>1. ASSUME NEW r \in Reporters, \A q \in Reporters \ {r} : Idle(q),
             Begin(r) \/ Continue(r) \/ Disconnect(r)
      PROVE  DevicesKept'
  <2>1. Others(r) /\ SysOthers(r) /\ SysShape(r) /\ DevShape(r)
        BY <1>1, ReporterDoes, ReporterSets, ReporterTells
  <2>2. DevicesOf(r)'
        BY <2>1, DevicesStep
  <2>3. ASSUME NEW q \in Reporters, q # r
        PROVE  DevicesOf(q)'
        BY <1>1, <2>1, <2>3, DevicesUndisturbed
  <2> QED BY <2>2, <2>3 DEF DevicesKept
<1>2. ASSUME UNCHANGED <<storage_table, mem, pc, arg, todo, rid, hit>>,
             (\A r \in Reporters : Idle(r)) \/ UNCHANGED last_rowid
      PROVE  DevicesKept'
  <2>1. ASSUME NEW r \in Reporters
        PROVE  DevicesOf(r)'
    <3>1. DevicesOf(r)
          BY DEF DevicesKept
    <3>2. \A d \in Devs : Says(r, d)' <=> Says(r, d)
          BY <1>2 DEF Says
    <3>3. Disturbed(r)' <=> Disturbed(r)
          BY <1>2 DEF Disturbed
    <3>4. At(r)' = At(r) /\ Told(arg'[r], mem'[r]) = Told(arg[r], mem[r])
          BY <1>2 DEF At
    <3>5. pc[r] = "devId" => last_rowid' = last_rowid
          BY <1>2 DEF Idle
    <3> QED BY <1>2, <3>1, <3>2, <3>3, <3>4, <3>5 DEF DevicesOf
  <2> QED BY <2>1 DEF DevicesKept
<1>3. ASSUME InsertExecutor \/ ReadExecutorId, \A r \in Reporters : Idle(r)
      PROVE  DevicesKept'
  <2>1. TerminalStep
        BY <1>3, TerminalDoes
  <2> QED BY <1>2, <1>3, <2>1 DEF TerminalStep
<1>4. ReadExecutorId => \A r \in Reporters : Idle(r)
      BY DEF ReadExecutorId, OneCall
<1>5. CASE UNCHANGED vars
      BY <1>2, <1>5 DEF vars
<1> QED BY <1>1, <1>3, <1>4, <1>5 DEF SerialNext, Over

\* A device that is listed has a last line.
LEMMA LastLine ==
    ASSUME NEW s \in Seq(Mounts), NEW i \in 1..Len(s)
    PROVE  \E k \in 1..Len(s) : IsLast(s, Len(s), s[i].dev, k)
<1> DEFINE Below == {n \in Nat : \E k \in 1..Len(s) : s[k].dev = s[i].dev /\ n = Len(s) - k}
<1>0. Len(s) \in Nat
      OBVIOUS
<1>1. Len(s) - i \in Below
      BY <1>0
<1>2. PICK n \in Below : \A m \in Below : n <= m
      BY <1>1, LeastElement
<1>3. PICK k \in 1..Len(s) : s[k].dev = s[i].dev /\ n = Len(s) - k
      OBVIOUS
<1>4. ASSUME NEW j \in 1..Len(s), s[j].dev = s[i].dev
      PROVE  j <= k
  <2>1. Len(s) - j \in Below
        BY <1>0, <1>4
  <2>2. n <= Len(s) - j
        BY <1>2, <2>1
  <2> QED BY <1>0, <1>3, <2>2
<1> QED BY <1>3, <1>4 DEF IsLast

\* What ReportedInfo() takes is what the last line says.
LEMMA LastReported ==
    ASSUME NEW r \in Reporters, arg[r] \in Machines, NEW d \in Reported(r)
    PROVE  /\ d \in Devs
           /\ \A m : Told(arg[r], m) => m.devs[d].info = ReportedInfo(r, d)
<1> DEFINE s == report(arg[r]).storage
           Last1(k) == k \in DOMAIN s /\ s[k].dev = d
                       /\ \A j \in DOMAIN s : s[j].dev = d => j <= k
           k1 == CHOOSE k \in DOMAIN s : /\ s[k].dev = d
                                         /\ \A j \in DOMAIN s : s[j].dev = d => j <= k
<1>1. s \in Seq(Mounts)
      BY ReportTyped
<1>2. DOMAIN s = 1..Len(s)
      BY <1>1
<1>3. PICK i \in DOMAIN s : s[i].dev = d
      BY DEF Reported, Range
<1>4. s[i] \in Mounts
  <2> HIDE DEF s
  <2> QED BY <1>1, <1>2
<1>5. d \in Devs
      BY <1>3, <1>4 DEF Mounts
<1>6. \E k \in DOMAIN s : IsLast(s, Len(s), d, k)
  <2> HIDE DEF s
  <2> QED BY <1>1, <1>2, <1>3, LastLine
<1>7. IsLast(s, Len(s), d, k1) /\ k1 \in 1..Len(s)
  <2> HIDE DEF s
  <2> QED BY <1>2, <1>6 DEF IsLast
<1>8. ReportedInfo(r, d) = s[k1].info
      BY DEF ReportedInfo
<1> HIDE DEF k1
<1> QED BY <1>5, <1>7, <1>8 DEF Told

-----------------------------------------------------------------------------
(* Theorems *)

\* Of reporters that are new to the server, or that kept an identifier it never
\* gave: that of a database that is gone, past all that this one will give.
StrangersOnly == \A i \in StartIds : i = -1 \/ i > MaxSessions

SerialInv == StoreTypes /\ OneCall /\ DevicesOwned
OwnersInv == SerialInv /\ RowPerSession /\ IdentifiersOwned /\ RowsSingle

LEMMA SerialStarts == Init => SerialInv
<1> SUFFICES ASSUME Init PROVE SerialInv
    OBVIOUS
<1>1. StoreTypes
      BY TypesInit
<1>2. \A r \in Reporters : pc[r] = "off" /\ Idle(r) /\ cmd = 0
      BY DEF Init, Idle
<1>3. OneCall
      BY <1>2 DEF OneCall
<1>4. \A r \in Reporters, d \in Devs : mem[r].devs[d].id = -1
      BY FreshTyped DEF Init
<1>5. DevicesOwned
      BY <1>2, <1>4 DEF DevicesOwned
<1> QED BY <1>1, <1>3, <1>5 DEF SerialInv

LEMMA OwnersStart == ASSUME StrangersOnly, Init PROVE OwnersInv
<1>1. SerialInv
      BY SerialStarts
<1>2. /\ computer_table = <<>> /\ storage_table = <<>> /\ sessions = 0
      /\ \A r \in Reporters : pc[r] = "off" /\ rid[r] \in StartIds
      BY DEF Init
<1>3. Len(computer_table) = 0 /\ Len(storage_table) = 0
      BY <1>2
<1>4. Rows = {}
      BY <1>3 DEF Rows
<1>5. RowPerSession
      BY <1>2, <1>3 DEF RowPerSession
<1>6. \A r \in Reporters : rid[r] = -1 \/ rid[r] > MaxSessions
      BY <1>2 DEF StrangersOnly
<1>7. \A r \in Reporters : IdOf(r)
      BY <1>2 DEF IdOf, HasRow
<1>8. IdentifiersOwned
      BY <1>4, <1>6, <1>7 DEF IdentifiersOwned
<1>9. RowsSingle
      BY <1>2, <1>3 DEF RowsSingle
<1> QED BY <1>1, <1>5, <1>8, <1>9 DEF OwnersInv

LEMMA SerialIsNext == SerialNext => Next
      BY DEF SerialNext, Next

LEMMA SerialKept == ASSUME SerialInv, [SerialNext]_vars PROVE SerialInv'
<1>1. StoreTypes /\ OneCall /\ DevicesOwned
      BY DEF SerialInv
<1>2. StoreTypes'
      BY <1>1, SerialIsNext, TypesStep
<1>3. (\E r \in Reporters : Turn(r)) \/ TerminalTurn \/ UNCHANGED vars
      BY <1>1, SerialTurn
<1> QED BY <1>1, <1>2, <1>3, OneCallStep, DevicesOwnedStep DEF SerialInv

LEMMA OwnersKept == ASSUME OwnersInv, [SerialNext]_vars PROVE OwnersInv'
<1>1. /\ StoreTypes /\ OneCall /\ DevicesOwned /\ SerialInv
      /\ RowPerSession /\ IdentifiersOwned /\ RowsSingle
      BY DEF OwnersInv, SerialInv
<1>2. SerialInv' /\ StoreTypes'
      BY <1>1, SerialKept DEF SerialInv
<1>3. (\E r \in Reporters : Turn(r)) \/ TerminalTurn \/ UNCHANGED vars
      BY <1>1, SerialTurn
<1> QED BY <1>1, <1>2, <1>3, RowPerSessionStep, IdentifiersOwnedStep, RowsSingleStep
        DEF OwnersInv

\* What the server has in memory and in its tables has its type, whatever the
\* threads do at once and whatever fails.
THEOREM StoreTyped == Spec => []TypeOK
<1>1. Init => StoreTypes
      BY TypesInit
<1>2. StoreTypes /\ [Next]_vars => StoreTypes'
      BY TypesStep
<1>3. StoreTypes => TypeOK
  <2>1. Computers \subseteq Computer
        BY DEF Computers, Computer, Devices
  <2> QED BY <2>1 DEF StoreTypes, TablesTyped, CountsTyped, ThreadsTyped, TypeOK
<1> QED BY <1>1, <1>2, <1>3, PTL DEF Spec

\* handshake() gives every computer an identifier of its own: with one call at a
\* time and no statement that fails, two connected reporters do not go by the
\* same one.
THEOREM DistinctIdentifiers ==
    ASSUME StrangersOnly
    PROVE  SerialSpec => []IdentifiersDistinct
<1>1. Init => OwnersInv
      BY OwnersStart
<1>2. OwnersInv /\ [SerialNext]_vars => OwnersInv'
      BY OwnersKept
<1>3. OwnersInv => IdentifiersDistinct
  <2> SUFFICES ASSUME OwnersInv, faults = 0, NEW r \in Reporters, NEW q \in Reporters,
                      Ready(r), Ready(q), mem[r].id = mem[q].id
               PROVE  r = q
      BY DEF IdentifiersDistinct
  <2>1. /\ mem[r].id = rid[r] /\ rid[r] \in Rows
        /\ mem[q].id = rid[q]
        BY DEF OwnersInv, IdentifiersOwned, IdOf, Ready
  <2> QED BY <2>1 DEF OwnersInv, IdentifiersOwned
<1> QED BY <1>1, <1>2, <1>3, PTL DEF SerialSpec

\* The identifiers addToDB() and getFromDB() leave in storage_info_ are of rows
\* of that device of that computer, whatever failed in earlier connections; with
\* no statement that fails, no device has a second row.
THEOREM RowsAreOwned ==
    ASSUME StrangersOnly
    PROVE  SerialSpec => []RowsOwned
<1>1. Init => OwnersInv
      BY OwnersStart
<1>2. OwnersInv /\ [SerialNext]_vars => OwnersInv'
      BY OwnersKept
<1>3. OwnersInv => RowsOwned
  <2> SUFFICES ASSUME OwnersInv PROVE RowsOwned
      OBVIOUS
  <2>1. ASSUME NEW r \in Reporters, Sound(r), NEW d \in Devs, mem[r].devs[d].id # -1
        PROVE  RowOf(mem[r].devs[d].id, mem[r].id, d)
        BY <2>1 DEF OwnersInv, SerialInv, DevicesOwned, Sound
  <2>2. DOMAIN storage_table = 1..Len(storage_table)
        BY DEF OwnersInv, SerialInv, StoreTypes, TablesTyped
  <2>3. faults = 0 => \A j, k \in DOMAIN storage_table :
                         /\ storage_table[j].computer = storage_table[k].computer
                         /\ storage_table[j].dev = storage_table[k].dev
                         => j = k
        BY <2>2 DEF OwnersInv, RowsSingle
  <2> QED BY <2>1, <2>2, <2>3 DEF RowsOwned, RowOf
<1> QED BY <1>1, <1>2, <1>3, PTL DEF SerialSpec

\* The row of a connected computer holds the system its reporter sent last, if no
\* statement of the connection failed and no other reporter goes by the identifier
\* or has had a statement fail: getFromDB(), setSysInfo() and updateDB() repair
\* what earlier connections left.
THEOREM SystemIsStored == SerialSpec => []SystemStored
<1> DEFINE Inv == StoreTypes /\ OneCall /\ SystemsKept
<1>1. Init => Inv
  <2> SUFFICES ASSUME Init PROVE Inv
      OBVIOUS
  <2>1. StoreTypes /\ OneCall
        BY SerialStarts DEF SerialInv
  <2>2. \A r \in Reporters : pc[r] = "off"
        BY DEF Init
  <2>3. SystemsKept
        BY <2>2 DEF SystemsKept, KnowsId, SystemOf, HasRow
  <2> QED BY <2>1, <2>3
<1>2. Inv /\ [SerialNext]_vars => Inv'
  <2> SUFFICES ASSUME Inv, [SerialNext]_vars PROVE Inv'
      OBVIOUS
  <2>1. (\E r \in Reporters : Turn(r)) \/ TerminalTurn \/ UNCHANGED vars
        BY SerialTurn
  <2>2. StoreTypes'
        BY SerialIsNext, TypesStep
  <2>3. OneCall'
        BY <2>1, OneCallStep
  <2>4. SystemsKept'
        BY SystemsKeptStep
  <2> QED BY <2>2, <2>3, <2>4
<1>3. Inv => SystemStored
  <2> SUFFICES ASSUME Inv, NEW r \in Reporters, Sound(r)
               PROVE  /\ mem[r].id \in DOMAIN computer_table
                      /\ Written(r)
      BY DEF SystemStored, Written
  <2>1. hit[r] # "now" /\ pc[r] = "ready" /\ ~Disturbed(r)
        BY DEF Sound, Alone, Ready, Disturbed
  <2>2. mem[r].id \in Rows /\ Written(r)
        BY <2>1 DEF SystemsKept, SystemOf
  <2>3. DOMAIN computer_table = Rows
        BY DEF StoreTypes, TablesTyped, Rows
  <2> QED BY <2>2, <2>3
<1> QED BY <1>1, <1>2, <1>3, PTL DEF SerialSpec

\* A device that has a row is stored as its reporter sent it last, by its last
\* line if it is mounted more than once, except one reported full: what dirty_ says
\* is enough for updateDB(), as long as no two of its lines say the same.
THEOREM DevicesAreStored ==
    ASSUME MountsDiffer
    PROVE  SerialSpec => []DevicesStored
<1> DEFINE Inv == StoreTypes /\ OneCall /\ SystemsKept /\ DevicesOwned /\ DevicesKept
<1>1. Init => Inv
  <2> SUFFICES ASSUME Init PROVE Inv
      OBVIOUS
  <2>1. StoreTypes /\ OneCall /\ DevicesOwned
        BY SerialStarts DEF SerialInv
  <2>2. \A r \in Reporters : pc[r] = "off"
        BY DEF Init
  <2>3. SystemsKept /\ DevicesKept
        BY <2>2 DEF SystemsKept, KnowsId, SystemOf, HasRow, DevicesKept, DevicesOf
  <2> QED BY <2>1, <2>3
<1>2. Inv /\ [SerialNext]_vars => Inv'
  <2> SUFFICES ASSUME Inv, [SerialNext]_vars PROVE Inv'
      OBVIOUS
  <2>1. StoreTypes' /\ OneCall' /\ DevicesOwned'
        BY SerialKept DEF SerialInv
  <2>2. SystemsKept'
        BY SystemsKeptStep
  <2>3. DevicesKept'
        BY DevicesKeptStep
  <2> QED BY <2>1, <2>2, <2>3
<1>3. Inv => DevicesStored
  <2> SUFFICES ASSUME Inv, NEW r \in Reporters, Sound(r), NEW d \in Reported(r),
                      mem[r].devs[d].id # -1
               PROVE  \/ storage_table[mem[r].devs[d].id].info = ReportedInfo(r, d)
                      \/ ReportedInfo(r, d).free = 0
      BY DEF DevicesStored
  <2>1. hit[r] # "now" /\ pc[r] = "ready" /\ ~Disturbed(r)
        BY DEF Sound, Alone, Ready, Disturbed
  <2>2. arg[r] \in Machines
        BY <2>1 DEF StoreTypes, ThreadsTyped
  <2>3. /\ Told(arg[r], mem[r])
        /\ \A e \in Devs : mem[r].devs[e].id # -1 => Says(r, e)
        BY <2>1 DEF DevicesKept, DevicesOf
  <2>4. d \in Devs /\ mem[r].devs[d].info = ReportedInfo(r, d)
        BY <2>2, <2>3, LastReported
  <2> QED BY <2>3, <2>4 DEF Says
<1> QED BY <1>1, <1>2, <1>3, PTL DEF SerialSpec
=============================================================================
