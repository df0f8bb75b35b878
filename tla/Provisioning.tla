---------------------------- MODULE Provisioning ----------------------------
(***************************************************************************)
(* What a reporter and the server keep over restarts, and how they start:  *)
(* the reporter's configuration with its computer_id (rms_config.cpp,      *)
(* handshakeTCP in request_client.cpp, the consumers' constructors), the   *)
(* server's database file and its tables (rms_server.cpp,                  *)
(* rms_sqlite_database.cpp, rms_database.cpp). Each process may be killed  *)
(* between any two steps; std::endl flushes save() line by line.           *)
(*                                                                         *)
(* One reporter, as each has a file of its own; a handshake is one step of *)
(* the server here and many in ComputerStore.                              *)
(***************************************************************************)
EXTENDS RmsConfig, Integers, FiniteSets, TLC

CONSTANTS Files,      \* configuration files a reporter may start with
          NoFile,     \* a configuration that cannot be opened
          DbTypes,    \* db_type the server's configuration may hold
          MaxId,      \* bound: identifiers
          MaxFaults   \* bound: kills, refused statements and saves, lost connections

\* computer_id as a number and as a word.
Ids == -1..MaxId
to_string(n) == ToString(n)
stol(w) == CHOOSE n \in Ids : to_string(n) = w

Lines == [key : ReporterKeys, words : Seq(STRING)]

\* What a file says of computer_id, if anything, is a number.
ASSUME ProvisioningAssumption ==
    /\ NoFile \notin Seq(Lines)
    /\ Files \subseteq Seq(Lines)
    /\ \A f \in Files : Says(f, "computer_id") \in {""} \cup {to_string(n) : n \in Ids}
    /\ MaxFaults \in Nat /\ MaxId \in Nat /\ MaxId > MaxFaults

\* Words are strings; different numbers are different words, and none is empty.
ASSUME WordsAssumption ==
    /\ "" \in STRING
    /\ \A n \in Ids : /\ to_string(n) \in STRING \ {""}
                      /\ \A m \in Ids : to_string(m) = to_string(n) => m = n

\* The tables in the order createTables() makes them.
Tables == <<"computer", "storage", "network_info", "network_ip", "usage", "executor">>

VARIABLES file,     \* the reporter's configuration file
          config_,  \* RmsConfig::config_ of the running reporter
          rpc,      \* where the reporter is
          answer,   \* new_id, as the handshake returned it
          todo,     \* keys save() has still to write
          given,    \* history: the file as the operator wrote it
          dbType,   \* db_type of the server's configuration
          spc,      \* where the server is
          made,     \* how far createTables() came, -1 without a database file
          tables,   \* tables of the database
          rows,     \* rows of computer_table, identifiers 1 onwards
          damage,   \* history: what faults hit
          lost,     \* history: answers that did not reach the file
          faults

reporterVars == <<file, config_, rpc, answer, todo, lost>>
serverVars == <<spc, made, tables, rows>>
restVars == <<given, dbType, damage, faults>>
vars == <<reporterVars, serverVars, restVars>>

Words == {""} \cup {to_string(n) : n \in Ids}
             \cup (UNION {{Word(f[i]) : i \in DOMAIN f} : f \in Files})

TypeOK ==
    /\ file = NoFile \/ \A i \in DOMAIN file : /\ file[i].key \in ReporterKeys
                                               /\ Word(file[i]) \in Words
    /\ DOMAIN config_ \subseteq ReporterKeys
    /\ \A k \in DOMAIN config_ : config_[k] \in Words
    /\ rpc \in {"off", "loaded", "connect", "handshake", "answer", "save", "up", "dead"}
    /\ answer \in Ids
    /\ todo \subseteq ReporterKeys
    /\ spc \in {"off", "create", "up"}
    /\ made \in -1..Len(Tables) /\ tables \subseteq Range(Tables)
    /\ rows \in 0..MaxId
    /\ damage \subseteq {"torn", "interrupted", "unwritable"}
    /\ {lost, faults} \subseteq 0..MaxFaults

Init ==
    /\ file \in Files \cup {NoFile}
    /\ given = IF file = NoFile THEN <<>> ELSE file
    /\ config_ = EmptyMap /\ rpc = "off" /\ answer = -1 /\ todo = {}
    /\ dbType \in DbTypes
    /\ spc = "off" /\ made = -1 /\ tables = {} /\ rows = 0
    /\ damage = {} /\ lost = 0 /\ faults = 0

Fault(d) == faults < MaxFaults /\ faults' = faults + 1 /\ damage' = damage \cup d

-----------------------------------------------------------------------------
(* The reporter *)

\* main(): load(), or exit if the file cannot be opened.
Start ==
    /\ rpc \in {"off", "dead"}
    /\ IF file = NoFile THEN rpc' = "dead" /\ UNCHANGED config_
       ELSE rpc' = "loaded" /\ config_' = load(file)
    /\ UNCHANGED <<file, answer, todo, lost, serverVars, restVars>>

\* std::stol() of an empty string throws, and nothing catches it. Otherwise
\* the keys are in the map afterwards.
Needs(keys, next) ==
    /\ rpc' = IF \A k \in keys : find(config_, k) # "" THEN next ELSE "dead"
    /\ UNCHANGED <<file, config_, answer, todo, lost, serverVars, restVars>>

\* The consumers' constructors read their timeouts.
Construct == rpc = "loaded" /\ Needs({"timeout", "ping_timeout"}, "connect")

\* handshakeTCP() exits without an address, else waits for the server.
Connect ==
    /\ rpc = "connect"
    /\ spc = "up" \/ \E k \in {"server_port", "server_ip"} : find(config_, k) = ""
    /\ Needs({"server_port", "server_ip"}, "handshake")

\* handshakeTCP() with no computer_id, or with a server that is gone.
HandshakeThrows ==
    /\ rpc = "handshake"
    /\ find(config_, "computer_id") = "" \/ spc # "up"
    /\ rpc' = "dead"
    /\ UNCHANGED <<file, config_, answer, todo, lost, serverVars, restVars>>

\* Variant: the identifier is set whether the INSERT was refused or not.
ProvisionUnchecked ==
    LET id == stol(find(config_, "computer_id"))
    IN  /\ rpc = "handshake" /\ find(config_, "computer_id") # ""
        /\ spc = "up" /\ dbType = "sqlite"
        /\ rows' = IF "computer" \in tables /\ id \notin 1..rows THEN rows + 1 ELSE rows
        /\ answer' = IF id \notin 1..rows THEN rows + 1 ELSE id
        /\ rpc' = "answer"
        /\ UNCHANGED <<file, config_, todo, lost, spc, made, tables, restVars>>

\* RmsClient::handshake() for the reporter's identifier: a computer that has
\* none, or that the database does not know, gets a row. Without the table
\* every statement is refused and the identifier stays.
Provision ==
    LET id  == stol(find(config_, "computer_id"))
        add == "computer" \in tables /\ id \notin 1..rows
    IN  /\ rpc = "handshake" /\ find(config_, "computer_id") # ""
        /\ spc = "up" /\ dbType = "sqlite"
        /\ rows' = IF add THEN rows + 1 ELSE rows
        /\ answer' = IF add THEN rows + 1 ELSE id
        /\ rpc' = "answer"
        /\ UNCHANGED <<file, config_, todo, lost, spc, made, tables, restVars>>

\* With db_type log there is no database_: getDatabase() dereferences null.
ProvisionCrashes ==
    /\ rpc = "handshake" /\ find(config_, "computer_id") # ""
    /\ spc = "up" /\ dbType = "log"
    /\ rpc' = "dead" /\ spc' = "off"
    /\ UNCHANGED <<file, config_, answer, todo, lost, made, tables, rows, restVars>>

Changed == find(config_, "computer_id") # to_string(answer)

\* The answer is what the reporter had.
Confirmed ==
    /\ rpc = "answer" /\ ~Changed
    /\ rpc' = "up"
    /\ UNCHANGED <<file, config_, answer, todo, lost, serverVars, restVars>>

\* replace() and the start of save(): opening the file empties it.
SaveOpen ==
    /\ rpc = "answer" /\ Changed
    /\ config_' = replace(config_, "computer_id", to_string(answer))
    /\ file' = <<>> /\ todo' = DOMAIN config_'
    /\ rpc' = "save"
    /\ UNCHANGED <<answer, lost, serverVars, restVars>>

\* The file cannot be opened for writing: save() says so and returns.
SaveRefused ==
    /\ rpc = "answer" /\ Changed
    /\ config_' = replace(config_, "computer_id", to_string(answer))
    /\ rpc' = "up" /\ lost' = lost + 1
    /\ Fault({"unwritable"})
    /\ UNCHANGED <<file, answer, todo, serverVars, given, dbType>>

\* The loop of save(), in the order of the unordered_map.
SaveLine(k) ==
    /\ rpc = "save" /\ k \in todo
    /\ file' = Append(file, Saved(config_, k))
    /\ todo' = todo \ {k}
    /\ rpc' = IF todo' = {} THEN "up" ELSE "save"
    /\ UNCHANGED <<config_, answer, lost, serverVars, restVars>>

\* runCommand() asks for the shell, and leaves the key in the map.
RunCommand ==
    /\ rpc = "up"
    /\ config_' = Found(config_, "shell")
    /\ UNCHANGED <<file, rpc, answer, todo, lost, serverVars, restVars>>

\* report() fails, and pollRequests() does the handshake again.
Reconnect ==
    /\ rpc = "up"
    /\ IF spc = "up" THEN Fault({}) ELSE UNCHANGED <<damage, faults>>
    /\ rpc' = "connect"
    /\ UNCHANGED <<file, config_, answer, todo, lost, serverVars, given, dbType>>

\* The process ends where it is; or the answer is lost and report() throws.
Kill ==
    /\ rpc \notin {"off", "dead"}
    /\ Fault(IF rpc = "save" THEN {"torn"} ELSE {})
    /\ lost' = IF (rpc = "answer" /\ Changed) \/ "computer_id" \in todo
               THEN lost + 1 ELSE lost
    /\ rpc' = "off" /\ config_' = EmptyMap /\ todo' = {}
    /\ UNCHANGED <<file, answer, serverVars, given, dbType>>

-----------------------------------------------------------------------------
(* The server *)

\* Variant: whether the file is there is asked after sqlite3_open() made it.
ServerStartLate ==
    /\ spc = "off"
    /\ dbType \in {"sqlite", "log"}
    /\ spc' = "up" /\ made' = IF dbType = "sqlite" /\ made = -1 THEN 0 ELSE made
    /\ UNCHANGED <<reporterVars, tables, rows, restVars>>

\* RmsServer::start(): exits unless db_type is one it knows. The tables are
\* made only if the database file was not there.
ServerStart ==
    /\ spc = "off"
    /\ dbType \in {"sqlite", "log"}
    /\ IF dbType = "sqlite" /\ made = -1 THEN made' = 0 /\ spc' = "create"
                                         ELSE spc' = "up" /\ UNCHANGED made
    /\ UNCHANGED <<reporterVars, tables, rows, restVars>>

\* createTables(), one statement a step. A statement that fails unseen leaves
\* its table out.
CreateTable ==
    /\ spc = "create"
    /\ made' = made + 1
    /\ \/ tables' = tables \cup {Tables[made + 1]} /\ UNCHANGED <<damage, faults>>
       \/ Fault({"interrupted"}) /\ UNCHANGED tables
    /\ spc' = IF made' = Len(Tables) THEN "up" ELSE "create"
    /\ UNCHANGED <<reporterVars, rows, given, dbType>>

\* The server is killed, or a statement of createTables() is refused: exit(1).
ServerKill ==
    /\ spc # "off"
    /\ Fault(IF spc = "create" THEN {"interrupted"} ELSE {})
    /\ spc' = "off"
    /\ UNCHANGED <<reporterVars, made, tables, rows, given, dbType>>

-----------------------------------------------------------------------------
Reporter == \/ Start \/ Construct \/ Connect \/ HandshakeThrows \/ Provision
            \/ ProvisionCrashes \/ Confirmed \/ SaveOpen \/ \E k \in ReporterKeys : SaveLine(k)

Server == ServerStart \/ CreateTable

Next == Reporter \/ Server \/ RunCommand \/ Reconnect \/ SaveRefused \/ Kill \/ ServerKill

\* Both programs run, and are started again by the operator when they end.
Spec == Init /\ [][Next]_vars /\ WF_vars(Reporter) /\ WF_vars(Server)

-----------------------------------------------------------------------------
(* Properties *)

Stored(k) == find(load(file), k)
AtRest == file # NoFile /\ rpc # "save"

\* However often the reporter provisions itself, stops and starts, the file
\* says of every other setting what the operator wrote, unless a save was cut
\* short; then a setting may be gone, but never different.
SettingsKept ==
    file # NoFile => \A k \in ReporterKeys \ {"computer_id"} :
        \/ Stored(k) = Says(given, k)
        \/ Stored(k) = "" /\ (rpc = "save" \/ "torn" \in damage)

\* The identifier in the file is the operator's or that of a row the server
\* made: a crash at any point leaves no other.
IdentifierHasRow ==
    file # NoFile /\ Stored("computer_id") # "" =>
        \/ Stored("computer_id") = Says(given, "computer_id")
        \/ stol(Stored("computer_id")) \in 1..rows

\* A reporter has one row of computer_table, and one more for every answer that
\* did not reach its file: it reconnects and restarts with the row it has.
RowPerLostAnswer == rows <= 1 + lost

\* A server that takes connections has all its tables, however it got there.
TablesExist == spc = "up" /\ dbType = "sqlite" => tables = Range(Tables)

\* The settings without which the reporter says that it cannot start.
Sufficient == /\ file # NoFile
              /\ \A k \in ReporterKeys \ {"computer_id", "shell"} : Says(given, k) # ""

\* A reporter whose configuration has no computer_id asks for one.
AsksForIdentifier == Sufficient => rpc # "dead"

\* A reporter that could start can start again, wherever it was killed.
StartsAgain == [](rpc = "save" => <>(rpc = "up"))

\* A server ends only when something ends it.
LogServerStays == [][spc = "up" /\ spc' = "off" => faults' > faults]_vars

\* A reporter with a complete configuration ends up connected, with the row it
\* goes by in its file, unless a fault hit a save or the making of the tables.
Provisioned ==
    (Sufficient /\ Says(given, "computer_id") # "" /\ dbType = "sqlite")
        ~> \/ rpc = "up" /\ stol(Stored("computer_id")) \in 1..rows
           \/ damage # {}
=============================================================================
