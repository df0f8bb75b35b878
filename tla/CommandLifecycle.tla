-------------------------- MODULE CommandLifecycle --------------------------
(***************************************************************************)
(* A command from the operator's "exec" to its row of executor_table: the  *)
(* terminal inserts the row and queues a response (rms_terminal.cpp,       *)
(* RmsClient::runCommand), the answer to a report carries it to the        *)
(* reporter (RmsClient::report, sendTcpRequest), an executor runs it and   *)
(* announces the end (rms_reporter_client.cpp, executor.cpp), the request  *)
(* queue delivers that to the ingestor, which updates the row              *)
(* (request_db_ingestor.cpp).                                              *)
(*                                                                         *)
(* The components are taken by what they promise: the request queue is     *)
(* FifoDelivery, which RequestClientProofs shows RequestClient implements; *)
(* a report is answered on the connection it came on, as in ClientRegistry;*)
(* the row's identifier is the command's, as ComputerStore has it when     *)
(* INSERTs do not race. Pings and usage reports carry answers too and leave*)
(* no trace here.                                                          *)
(***************************************************************************)
EXTENDS Integers, Sequences, SequencesExt, FiniteSets

CONSTANTS MaxCommands,  \* bound: commands the operator types
          Codes,        \* exit codes of commands
          Times,        \* times at which commands may end
          Open,         \* a row without result, a command that has not ended
          MaxFaults     \* bound: lost connections and refused statements

ASSUME LifecycleAssumption == 
    /\ {MaxCommands, MaxFaults} \subseteq Nat /\ Codes \cup Times \subseteq Nat
    /\ Open \notin [code : Nat, time : Nat]

Commands == 1..MaxCommands
Ending == [code : Codes, time : Times]

\* ExecutorResult. Nothing ever assigns return_code_, which starts as 0.
return_code_ == 0
Result == [id : Commands, code : {return_code_}, time : Times]

VARIABLES executor_table,  \* rows by executor_id: the result, or Open
          inserted,        \* runCommand() of the terminal: row not yet queued, or 0
          response_queue_, \* of the RmsClient of the connection
          res,             \* answer under way: <<>> or <<the RmsResponse>>
          sent,            \* the report under way is that of the queue's front
          conn,            \* is the connection up
          starts,          \* per command, history: executors started for it
          ended,           \* per command, history: how it ended, or Open
          pending, log,    \* the request queue, and what report() ingested
          cut,             \* history: commands lost with a connection
          refused,         \* history: commands whose UPDATE was refused
          alive, faults

tableVars == <<executor_table, refused>>
linkVars == <<res, sent, conn, cut>>
answerVars == <<inserted, response_queue_, linkVars>>
reporterVars == <<starts, ended>>
restVars == <<pending, log, alive, faults>>
vars == <<tableVars, answerVars, reporterVars, restVars>>

Queue == INSTANCE FifoDelivery WITH Request <- Result

TypeOK ==
    /\ executor_table \in Seq([code : {return_code_}, time : Times] \cup {Open})
    /\ Len(executor_table) <= MaxCommands
    /\ inserted \in 0..MaxCommands
    /\ response_queue_ \in Seq(Commands)
    /\ Len(res) <= 1 /\ \A i \in DOMAIN res : res[i] \in Seq(Commands)
    /\ {sent, conn, alive} \subseteq BOOLEAN
    /\ starts \in [Commands -> Nat]
    /\ ended \in [Commands -> Ending \cup {Open}]
    /\ pending \in Seq(Result) /\ log \in Seq(Result)
    /\ cut \cup refused \subseteq Commands
    /\ faults \in 0..MaxFaults

Init ==
    /\ executor_table = <<>> /\ inserted = 0
    /\ response_queue_ = <<>> /\ res = <<>> /\ sent = FALSE /\ conn = TRUE
    /\ starts = [c \in Commands |-> 0]
    /\ ended = [c \in Commands |-> Open]
    /\ pending = <<>> /\ log = <<>> /\ cut = {} /\ refused = {}
    /\ alive = TRUE /\ faults = 0

Fault == faults < MaxFaults /\ faults' = faults + 1

-----------------------------------------------------------------------------
(* The server *)

\* Variant: the identifier is not that of the row.
InsertExecutorNext ==
    /\ conn /\ inserted = 0
    /\ Len(executor_table) < MaxCommands
    /\ executor_table' = Append(executor_table, Open)
    /\ inserted' = Len(executor_table') + 1
    /\ UNCHANGED <<refused, response_queue_, linkVars, reporterVars, restVars>>

\* RmsClient::runCommand(): the row first. If INSERT is refused that is all.
InsertExecutor ==
    /\ conn /\ inserted = 0
    /\ Len(executor_table) < MaxCommands
    /\ executor_table' = Append(executor_table, Open)
    /\ inserted' = Len(executor_table')
    /\ UNCHANGED <<refused, response_queue_, linkVars, reporterVars, restVars>>

\* Then the response, on the client found before.
AddResponse ==
    /\ inserted # 0
    /\ response_queue_' = Append(response_queue_, inserted)
    /\ inserted' = 0
    /\ UNCHANGED <<tableVars, linkVars, reporterVars, restVars>>

Row(r) == [code |-> r.code, time |-> r.time]

\* Variant: no WHERE.
UpdateAll(r) == executor_table' = [i \in DOMAIN executor_table |-> Row(r)]

\* UPDATE executor_table ... WHERE executor_id
Update(r) == executor_table' = [executor_table EXCEPT ![r.id] = Row(r)]

\* ingestRequestData() for a kExecutorResult: the row is updated, or the
\* statement refused, which is printed and no more.
Record(r) ==
    \/ Update(r) /\ UNCHANGED <<refused, faults>>
    \/ Fault /\ refused' = refused \cup {r.id} /\ UNCHANGED executor_table

\* Variant: report() copies the queue and leaves it as it is.
AnswerCopies ==
    /\ res' = <<response_queue_>>
    /\ UNCHANGED response_queue_

\* RmsClient::report(): the answer takes all that is queued.
Answer ==
    /\ res' = <<response_queue_>>
    /\ response_queue_' = <<>>

\* report() for the front of the request queue.
Report ==
    /\ alive /\ conn /\ res = <<>>
    /\ Answer
    /\ Queue!Ingest
    /\ Record(Head(pending))
    /\ sent' = TRUE
    /\ UNCHANGED <<inserted, conn, cut, reporterVars, alive>>

\* report() for a ping or for usage.
ReportOther ==
    /\ alive /\ conn /\ res = <<>>
    /\ Answer
    /\ sent' = FALSE
    /\ UNCHANGED <<tableVars, inserted, conn, cut, reporterVars, restVars>>

\* report() for a request that was left in an old connection; its answer is lost.
ReportLate ==
    /\ faults > 0
    /\ Len(log) < MaxCommands + MaxFaults
    /\ Queue!Ingest \/ Queue!Repeat
    /\ Record(Last(log'))
    /\ UNCHANGED <<answerVars, reporterVars, alive>>

-----------------------------------------------------------------------------
(* The reporter *)

\* runCommand() for every response. Were the key in executors_ already, emplace()
\* would still make the executor, whose thread runs the command.
RunCommands(cs) ==
    /\ starts' = [c \in Commands |-> starts[c] + Cardinality({i \in DOMAIN cs : cs[i] = c})]
    /\ UNCHANGED ended

\* sendTcpRequest(): the responses are handled, then the request is popped.
SendTcpRequest ==
    /\ res # <<>>
    /\ RunCommands(res[1])
    /\ IF sent THEN Queue!Confirm ELSE UNCHANGED <<pending, log>>
    /\ res' = <<>> /\ sent' = FALSE
    /\ UNCHANGED <<tableVars, inserted, response_queue_, conn, cut, alive, faults>>

\* A command ends: notifyEnd() hands its result to sendRequest().
NotifyEnd(c, how) ==
    /\ alive /\ starts[c] > 0 /\ ended[c] = Open
    /\ ended' = [ended EXCEPT ![c] = how]
    /\ Queue!Accept
    /\ pending' = Append(pending, [id |-> c, code |-> return_code_, time |-> how.time])
    /\ UNCHANGED <<tableVars, answerVars, starts, alive, faults>>

-----------------------------------------------------------------------------
(* The connection *)

\* The client and its queue go with the connection, the answer under way and a
\* response that the terminal is still adding to the client as well.
Drop ==
    /\ conn' = FALSE /\ response_queue_' = <<>> /\ res' = <<>> /\ sent' = FALSE
    /\ inserted' = 0
    /\ cut' = cut \cup Range(response_queue_) \cup (IF res = <<>> THEN {} ELSE Range(res[1]))
                   \cup ({inserted} \ {0})

\* Variant: the request that failed is popped.
DisconnectPops ==
    /\ conn /\ Fault
    /\ Drop
    /\ pending' = IF pending = <<>> THEN <<>> ELSE Tail(pending)
    /\ UNCHANGED <<tableVars, reporterVars, log, alive>>

\* The connection breaks or the server dies.
Disconnect ==
    /\ conn /\ Fault
    /\ Drop
    /\ UNCHANGED <<tableVars, reporterVars, pending, log, alive>>

\* Variant: what was lost is queued again on the new client.
ReconnectResends ==
    /\ ~conn /\ alive
    /\ conn' = TRUE /\ response_queue_' = SetToSeq(cut)
    /\ UNCHANGED <<tableVars, inserted, res, sent, cut, reporterVars, restVars>>

\* A new client, whose queue is empty.
Reconnect ==
    /\ ~conn /\ alive
    /\ conn' = TRUE
    /\ UNCHANGED <<tableVars, inserted, response_queue_, res, sent, cut, reporterVars,
                   restVars>>

\* The reporter is stopped or killed.
ReporterEnds ==
    /\ alive
    /\ alive' = FALSE
    /\ Drop
    /\ UNCHANGED <<tableVars, reporterVars, pending, log, faults>>

-----------------------------------------------------------------------------
Ends == \E c \in Commands, how \in Ending : NotifyEnd(c, how)

Next == \/ InsertExecutor \/ AddResponse \/ Report \/ ReportOther \/ ReportLate
        \/ SendTcpRequest \/ Ends \/ Disconnect \/ Reconnect \/ ReporterEnds

\* The request queue is in order, so results, pings and usage each get their
\* turn; answers are handled and connections made again. Neither commands nor
\* the operator owe anything.
Spec == /\ Init /\ [][Next]_vars
        /\ SF_vars(Report) /\ SF_vars(ReportOther)
        /\ WF_vars(SendTcpRequest) /\ WF_vars(Reconnect) /\ WF_vars(AddResponse)

-----------------------------------------------------------------------------
(* Properties *)

\* A command is started at most once, and never after it was lost with a
\* connection: the operator may type a lost command again.
RunsOnce == \A c \in Commands : starts[c] <= IF c \in cut THEN 0 ELSE 1

\* A row that has an end has that of its own command, whatever order ends and
\* repeated reports come in.
RowTellsEnd ==
    \A c \in DOMAIN executor_table : executor_table[c] # Open =>
        ended[c] # Open /\ executor_table[c].time = ended[c].time

\* The return code of a row is that of its command.
RowTellsCode ==
    \A c \in DOMAIN executor_table : executor_table[c] # Open =>
        executor_table[c].code = ended[c].code

\* How far a command has come.
StatusOf(c) == CASE c > Len(executor_table)  -> "new"
                 [] c <= Len(executor_table) ->
                       IF executor_table[c] # Open THEN "recorded"
                       ELSE IF ended[c] # Open THEN "ended"
                       ELSE IF starts[c] > 0 THEN "running"
                       ELSE IF c \in cut THEN "lost" ELSE "waiting"
status == [c \in Commands |-> StatusOf(c)]

\* Every command goes the way CommandPromise allows, and no other.
Promise == INSTANCE CommandPromise
PromiseSpec == Promise!Spec

\* A command that was typed is started, unless its connection is lost first, and
\* its end gets into its row, over reconnections too, unless the reporter ends or
\* the UPDATE is refused.
CommandsSettle == \A c \in Commands :
    /\ status[c] = "waiting" ~> status[c] # "waiting"
    /\ status[c] = "ended" ~> status[c] = "recorded" \/ c \in refused \/ ~alive

\* Every row of executor_table gets a result while the reporter lives.
RowsClose ==
    \A c \in Commands : status[c] = "waiting" ~> status[c] \in {"running", "ended", "recorded"} \/ ~alive
=============================================================================
