--------------------------- MODULE ClientRegistry ---------------------------
(***************************************************************************)
(* The server's connected clients (server/src/rms_server.cpp,              *)
(* rms_client.cpp, rms_terminal.cpp, client_handler.cpp): the list clients_*)
(* under client_mutex_, one RmsClient and one thread per connection, the   *)
(* responses the operator's terminal queues on a client and the report     *)
(* calls that carry them to the reporter.                                  *)
(*                                                                         *)
(* Each critical section is one step. Where the code dereferences what is  *)
(* not there the behaviour is undefined: ub says how, and the model stops. *)
(***************************************************************************)
EXTENDS Integers, Sequences, FiniteSets

CONSTANTS Reporters,    \* reporter machines
          Conns,        \* RmsClient objects, one per connection, never reused
          NULL,         \* no computer_, no client
          MaxCommands   \* bound: responses the terminal queues

ASSUME RegistryAssumption ==
    /\ IsFiniteSet(Conns)
    /\ NULL \notin Conns \cup Reporters \cup Int
    /\ MaxCommands \in Nat

\* Row identifiers of computer_table; -1 stands for a computer without one.
Ids == 1..Cardinality(Conns)

Response == [n : 1..MaxCommands, to : Ids \cup {-1}]

VARIABLES clients_,        \* RmsServer::clients_
          computer_,       \* per connection: the identifier computer_ holds, or NULL
          response_queue_, \* per connection
          res,             \* per connection: the RmsResponse being returned
          hpc,             \* per connection: where its thread is
          up,              \* per connection: can bytes still pass
          owner,           \* per connection: the reporter that opened it
          rid,             \* per reporter: computer_id in its config file
          delivered,       \* per reporter: responses received, in order
          next_id,         \* the next row identifier the database gives
          tpc, tid, tclient, \* the terminal: where it is, id typed, client found
          issued,          \* responses queued so far
          running, ub

queueVars == <<response_queue_, res>>
linkVars == <<up, owner>>
reporterVars == <<rid, delivered, next_id>>
connVars == <<clients_, computer_, queueVars, hpc, linkVars, reporterVars>>
termVars == <<tpc, tid, tclient, issued>>
serverVars == <<running, ub>>
restVars == <<termVars, serverVars>>
vars == <<connVars, restVars>>

ThreadStates == {"unused", "accepted", "handshake", "serving", "report",
                 "removed", "deleted"}

TypeOK ==
    /\ clients_ \in Seq(Conns)
    /\ computer_ \in [Conns -> Ids \cup {-1, NULL}]
    /\ response_queue_ \in [Conns -> Seq(Response)]
    /\ res \in [Conns -> Seq(Response)]
    /\ hpc \in [Conns -> ThreadStates]
    /\ up \in [Conns -> BOOLEAN]
    /\ owner \in [Conns -> Reporters \cup {NULL}]
    /\ rid \in [Reporters -> Ids \cup {-1}]
    /\ delivered \in [Reporters -> Seq(Response)]
    /\ next_id \in 1..(Cardinality(Conns) + 1)
    /\ tpc \in {"prompt", "found", "insert", "add", "print"}
    /\ tid \in Ids \cup {-1}
    /\ tclient \in Conns \cup {NULL}
    /\ issued \in 0..MaxCommands
    /\ running \in {"yes", "stopping", "over"}
    /\ ub \in {"none", "nullComputer", "deletedClient", "listChanged"}

Init ==
    /\ clients_ = <<>>
    /\ computer_ = [c \in Conns |-> NULL]
    /\ response_queue_ = [c \in Conns |-> <<>>]
    /\ res = [c \in Conns |-> <<>>]
    /\ hpc = [c \in Conns |-> "unused"]
    /\ up = [c \in Conns |-> FALSE]
    /\ owner = [c \in Conns |-> NULL]
    /\ rid = [r \in Reporters |-> -1]
    /\ delivered = [r \in Reporters |-> <<>>]
    /\ next_id = 1
    /\ tpc = "prompt" /\ tid = -1 /\ tclient = NULL /\ issued = 0
    /\ running = "yes"
    /\ ub = "none"

Listed == {clients_[i] : i \in DOMAIN clients_}

\* getId() of these clients dereferences a null computer_.
Unknown(S) == {c \in S : computer_[c] = NULL}

\* The terminal is ready for the next command.
Prompt == tpc' = "prompt" /\ tid' = -1 /\ tclient' = NULL

UndefinedBehaviour(what) ==
    /\ ub' = what
    /\ UNCHANGED <<connVars, termVars, running>>

\* A change of the vector while printClients() walks it without the lock.
ListRace == IF tpc = "print" THEN "listChanged" ELSE ub

-----------------------------------------------------------------------------
(* Connections *)

\* getHandler(): a new RmsClient joins the list before its handshake.
GetHandler(r, c) ==
    /\ running = "yes"
    /\ hpc[c] = "unused"
    /\ \A d \in Conns : owner[d] = r => ~up[d]
    /\ clients_' = Append(clients_, c)
    /\ hpc' = [hpc EXCEPT ![c] = "accepted"]
    /\ up' = [up EXCEPT ![c] = TRUE]
    /\ owner' = [owner EXCEPT ![c] = r]
    /\ ub' = ListRace
    /\ UNCHANGED <<computer_, queueVars, reporterVars, termVars, running>>

\* RmsClient::handshake(): first a computer with the identifier it was told.
HandshakeBegin(c) ==
    /\ hpc[c] = "accepted"
    /\ computer_' = [computer_ EXCEPT ![c] = rid[owner[c]]]
    /\ hpc' = [hpc EXCEPT ![c] = "handshake"]
    /\ UNCHANGED <<clients_, queueVars, linkVars, reporterVars, restVars>>

\* Then the database settles the identifier. The reporter saves the answer if
\* it still can be reached.
Settle(c, id) ==
    /\ hpc[c] = "handshake"
    /\ computer_' = [computer_ EXCEPT ![c] = id]
    /\ rid' = IF up[c] THEN [rid EXCEPT ![owner[c]] = id] ELSE rid
    /\ next_id' = IF id = next_id THEN next_id + 1 ELSE next_id
    /\ hpc' = [hpc EXCEPT ![c] = "serving"]
    /\ UNCHANGED <<clients_, queueVars, linkVars, delivered, restVars>>

\* Variants: the identifier is read before the insert, every handshake inserts.
HandshakeReadsEarly(c) == Settle(c, IF computer_[c] = -1 THEN next_id - 1
                                                         ELSE computer_[c])
HandshakeReinserts(c) == Settle(c, next_id)

\* A computer without identifier gets a new row, any other keeps its own.
HandshakeEnd(c) == Settle(c, IF computer_[c] = -1 THEN next_id ELSE computer_[c])

\* addToDB() fails: the computer is served without an identifier.
HandshakeFails(c) == computer_[c] = -1 /\ Settle(c, -1)

\* Variant: report() copies the queue and leaves it as it is.
ReportCopies(c) ==
    /\ hpc[c] = "serving"
    /\ up[c]
    /\ res' = [res EXCEPT ![c] = response_queue_[c]]
    /\ hpc' = [hpc EXCEPT ![c] = "report"]
    /\ UNCHANGED <<clients_, computer_, response_queue_, linkVars, reporterVars, restVars>>

\* Variant: report() answers without looking at the queue.
ReportIgnoresQueue(c) ==
    /\ hpc[c] = "serving"
    /\ up[c]
    /\ hpc' = [hpc EXCEPT ![c] = "report"]
    /\ UNCHANGED <<clients_, computer_, queueVars, linkVars, reporterVars, restVars>>

\* RmsClient::report(): the queued responses move into the answer, under
\* response_mutex_; the request is ingested (UsageIngestor).
Report(c) ==
    /\ hpc[c] = "serving"
    /\ up[c]
    /\ res' = [res EXCEPT ![c] = response_queue_[c]]
    /\ response_queue_' = [response_queue_ EXCEPT ![c] = <<>>]
    /\ hpc' = [hpc EXCEPT ![c] = "report"]
    /\ UNCHANGED <<clients_, computer_, linkVars, reporterVars, restVars>>

\* The answer is written; on a dead connection it is lost.
ReportReturns(c) ==
    /\ hpc[c] = "report"
    /\ delivered' = IF up[c] THEN [delivered EXCEPT ![owner[c]] = @ \o res[c]]
                             ELSE delivered
    /\ res' = [res EXCEPT ![c] = <<>>]
    /\ hpc' = [hpc EXCEPT ![c] = "serving"]
    /\ UNCHANGED <<clients_, computer_, response_queue_, linkVars, rid, next_id, restVars>>

\* The connection ends: the network, the reporter, or the server's exit.
Disconnect(c) ==
    /\ up[c]
    /\ up' = [up EXCEPT ![c] = FALSE]
    /\ UNCHANGED <<clients_, computer_, queueVars, hpc, owner, reporterVars, restVars>>

Ended(c) == ~up[c] /\ hpc[c] \in {"accepted", "serving"}

\* Variant: only the first entry with the identifier is removed.
RemoveFirst(list, id) ==
    LET hits == {i \in DOMAIN list : computer_[list[i]] = id}
        k    == CHOOSE i \in hits : \A j \in hits : i <= j
    IN  SubSeq(list, 1, k - 1) \o SubSeq(list, k + 1, Len(list))

\* RmsServer::removeClient(): remove_if() goes through the list and keeps, in their
\* order, the entries with another identifier.
RemoveClient(list, id) ==
    LET kept[n \in 0..Len(list)] ==
            IF n = 0 THEN <<>>
            ELSE IF computer_[list[n]] = id THEN kept[n - 1]
            ELSE Append(kept[n - 1], list[n])
    IN  kept[Len(list)]

\* releaseHandler(): removeClient(getId()), then the client is deleted.
ReleaseHandler(c) ==
    /\ Ended(c)
    /\ Unknown(Listed \cup {c}) = {}
    /\ clients_' = RemoveClient(clients_, computer_[c])
    /\ hpc' = [hpc EXCEPT ![c] = "removed"]
    /\ ub' = ListRace
    /\ UNCHANGED <<computer_, queueVars, linkVars, reporterVars, termVars, running>>

ReleaseHandlerCrashes(c) ==
    /\ Ended(c)
    /\ Unknown(Listed \cup {c}) # {}
    /\ UndefinedBehaviour("nullComputer")

\* Variant: the client is removed from the list and never deleted.
DeleteLeaks(c) == hpc[c] = "removed" /\ UNCHANGED vars

\* delete: what the object held is gone with it.
DeleteClient(c) ==
    /\ hpc[c] = "removed"
    /\ hpc' = [hpc EXCEPT ![c] = "deleted"]
    /\ computer_' = [computer_ EXCEPT ![c] = NULL]
    /\ response_queue_' = [response_queue_ EXCEPT ![c] = <<>>]
    /\ owner' = [owner EXCEPT ![c] = NULL]
    /\ UNCHANGED <<clients_, res, up, reporterVars, restVars>>

-----------------------------------------------------------------------------
(* The terminal *)

\* getClient(): the first client with the identifier. Every entry up to it is
\* asked for its own.
Hits(id) == {i \in DOMAIN clients_ : computer_[clients_[i]] = id}
Asked(id) == IF Hits(id) = {} THEN DOMAIN clients_
             ELSE {i \in DOMAIN clients_ : \A j \in Hits(id) : i <= j}

GetClient(id) ==
    /\ running = "yes"
    /\ tpc = "prompt"
    /\ Unknown({clients_[i] : i \in Asked(id)}) = {}
    /\ Hits(id) # {}
    /\ tid' = id
    /\ tclient' = clients_[CHOOSE i \in Hits(id) : \A j \in Hits(id) : i <= j]
    /\ tpc' = "found"
    /\ UNCHANGED <<connVars, issued, serverVars>>

GetClientCrashes(id) ==
    /\ running = "yes"
    /\ tpc = "prompt"
    /\ Unknown({clients_[i] : i \in Asked(id)}) # {}
    /\ UndefinedBehaviour("nullComputer")

\* The client found is used after client_mutex_ was released: the three
\* commands "info client", "get sys-info" and "exec".
Deleted == hpc[tclient] = "deleted"

UseDeleted ==
    /\ tpc \in {"found", "insert", "add"}
    /\ Deleted
    /\ UndefinedBehaviour("deletedClient")

\* "info client" reads the computer; "get" goes on to addResponse(), "exec"
\* to runCommand().
ChooseCommand ==
    /\ tpc = "found"
    /\ ~Deleted
    /\ \/ Prompt
       \/ /\ issued < MaxCommands
          /\ tpc' \in {"add", "insert"}
          /\ UNCHANGED <<tid, tclient>>
    /\ UNCHANGED <<connVars, issued, serverVars>>

\* runCommand(): the row of executor_table; without it nothing is queued.
InsertExecutor ==
    /\ tpc = "insert"
    /\ ~Deleted
    /\ \/ tpc' = "add" /\ UNCHANGED <<tid, tclient>>
       \/ Prompt
    /\ UNCHANGED <<connVars, issued, serverVars>>

\* addResponse(), under response_mutex_.
AddResponse ==
    /\ tpc = "add"
    /\ ~Deleted
    /\ response_queue_' = [response_queue_ EXCEPT ![tclient] =
                              Append(@, [n |-> issued + 1, to |-> tid])]
    /\ issued' = issued + 1
    /\ Prompt
    /\ UNCHANGED <<clients_, computer_, res, hpc, linkVars, reporterVars, serverVars>>

\* printClients(): walks clients_ without the lock.
PrintBegin ==
    /\ running = "yes"
    /\ tpc = "prompt"
    /\ tpc' = "print"
    /\ UNCHANGED <<connVars, tid, tclient, issued, serverVars>>

PrintEnd ==
    /\ tpc = "print"
    /\ Unknown(Listed) = {}
    /\ tpc' = "prompt"
    /\ UNCHANGED <<connVars, tid, tclient, issued, serverVars>>

PrintCrashes ==
    /\ tpc = "print"
    /\ Unknown(Listed) # {}
    /\ UndefinedBehaviour("nullComputer")

\* Variant: stopListening() leaves the open connections alone.
ExitKeepsConnections ==
    /\ running = "yes"
    /\ tpc = "prompt"
    /\ running' = "stopping"
    /\ UNCHANGED <<connVars, termVars, ub>>

\* "exit": stopListening() interrupts the connections and joins the listener.
Exit ==
    /\ running = "yes"
    /\ tpc = "prompt"
    /\ running' = "stopping"
    /\ up' = [c \in Conns |-> FALSE]
    /\ UNCHANGED <<clients_, computer_, queueVars, hpc, owner, reporterVars, termVars, ub>>

ExitReturns ==
    /\ running = "stopping"
    /\ \A c \in Conns : hpc[c] \in {"unused", "deleted"}
    /\ running' = "over"
    /\ UNCHANGED <<connVars, termVars, ub>>

-----------------------------------------------------------------------------
Handler(c) == \/ HandshakeBegin(c) \/ HandshakeEnd(c) \/ HandshakeFails(c)
              \/ Report(c) \/ ReportReturns(c)
              \/ ReleaseHandler(c) \/ ReleaseHandlerCrashes(c) \/ DeleteClient(c)

Command == ChooseCommand \/ InsertExecutor \/ AddResponse \/ UseDeleted
              \/ PrintEnd \/ PrintCrashes

Halted == ub # "none" \/ running = "over"

Running == /\ ~Halted
           /\ \/ \E r \in Reporters, c \in Conns : GetHandler(r, c)
              \/ \E c \in Conns : Handler(c) \/ Disconnect(c)
              \/ \E id \in Ids \cup {-1} : GetClient(id) \/ GetClientCrashes(id)
              \/ Command
              \/ PrintBegin
              \/ Exit
              \/ ExitReturns

Over == Halted /\ UNCHANGED vars

Next == Running \/ Over

Spec == Init /\ [][Next]_vars

\* Threads run, the reporter keeps reporting; operator and network owe nothing.
FairSpec ==
    /\ Spec
    /\ \A c \in Conns : WF_vars(~Halted /\ Handler(c))
    /\ WF_vars(~Halted /\ Command)
    /\ WF_vars(~Halted /\ ExitReturns)

-----------------------------------------------------------------------------
(* Properties *)

\* The list holds no client twice and none that was or is being deleted, so
\* whatever getClient() returns was alive under the lock.
ListedAlive ==
    /\ \A c \in Listed : hpc[c] \notin {"unused", "removed", "deleted"}
    /\ \A i, j \in DOMAIN clients_ : clients_[i] = clients_[j] => i = j

\* A reporter gets what the terminal queued in the order it was queued and
\* each response once, across all of its connections.
OnceInOrder ==
    \A r \in Reporters : \A i, j \in DOMAIN delivered[r] :
        i < j => delivered[r][i].n < delivered[r][j].n

\* A response reaches only the reporter whose identifier the operator typed.
RightReporter ==
    \A r \in Reporters : \A i \in DOMAIN delivered[r] :
        delivered[r][i].to # -1 => delivered[r][i].to = rid[r]

\* A client whose handshake is done and whose connection is up is in the
\* list: it is counted by "status" and can be given commands.
ConnectedListed ==
    \A c \in Conns : (up[c] /\ hpc[c] \in {"serving", "report"}) => c \in Listed

\* getClient() answers, with a client or with nullptr: it never runs into a
\* client that has not done its handshake.
LookupAnswers == ub # "nullComputer"

\* The client that getClient() returned stays valid while a command uses it.
ClientOutlivesUse == ub # "deletedClient"

\* printClients() walks a list that stays as it is until it is through.
PrintSeesStableList == ub # "listChanged"

\* "exit" returns: the connections are interrupted and every handler leaves.
ExitCompletes == running = "stopping" ~> Halted

\* A connection that has ended gets its client removed and deleted.
EndedIsReleased ==
    \A c \in Conns : (~up[c] /\ hpc[c] # "unused") ~> (hpc[c] = "deleted" \/ Halted)

\* A response queued on a client reaches its reporter unless the connection
\* ends first: reports keep coming, and each takes all that is queued.
QueuedIsDelivered ==
    \A c \in Conns, n \in 1..MaxCommands :
        (\E i \in DOMAIN response_queue_[c] : response_queue_[c][i].n = n)
            ~> \/ /\ owner[c] \in Reporters
                  /\ \E i \in DOMAIN delivered[owner[c]] : delivered[owner[c]][i].n = n
               \/ ~up[c]
               \/ Halted
=============================================================================
