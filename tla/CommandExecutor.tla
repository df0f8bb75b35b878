--------------------------- MODULE CommandExecutor ---------------------------
(***************************************************************************)
(* The commands a reporter runs for the server (reporter/linux/src/        *)
(* executor/command_executor.cpp): one thread per command forks the shell, *)
(* polls its stdout and stderr, hands what it reads to reportExecutorData  *)
(* and, once stdout is closed, tells the server that the command has ended.*)
(*                                                                         *)
(* Output is counted in units. The commands are processes of their own and *)
(* write, close stdout and exit as they like. The pipes are not close-on-  *)
(* exec: a child inherits every write end the reporter has open when it    *)
(* forks. ~CommandExecutor never runs, as Executor's destructor is not     *)
(* virtual and nothing erases from executors_: the signal pipe stays empty.*)
(***************************************************************************)
EXTENDS Naturals, FiniteSets

CONSTANTS Executors,    \* the commands, by identifier
          Capacity,     \* of a pipe
          ReadSize,     \* of the buffer
          ShellMissing, \* may execlp() fail
          MaxWrites,    \* bound: units each command writes to stdout and stderr
          MaxFaults     \* bound: failures of the connection

\* A read takes all that a pipe can hold: 64 KB, Linux's default capacity.
ASSUME ReadAssumption ==
    /\ {Capacity, ReadSize} \subseteq Nat \ {0}
    /\ ReadSize >= Capacity
    /\ ShellMissing \in BOOLEAN
    /\ MaxWrites \in [Executors -> [out : Nat, err : Nat]]
    /\ MaxFaults \in Nat

VARIABLES pc,        \* per command: where runCommand() is
          child,     \* per command: its process
          writers,   \* per command: processes that hold the write end of its stdout
          wrote,     \* per command: units written to stdout and stderr
          got,       \* per command: units read
          told,      \* per command: units the reports sent stand for
          revents,   \* per command: what poll() found on stdout and stderr
          atClose,   \* history: units on stderr when the command closed stdout
          lost,      \* history: a report of the command got lost
          conn, faults,
          gone       \* an exception left a thread: std::terminate

processVars == <<child, writers, wrote, atClose>>
readVars == <<got, told, revents>>
restVars == <<lost, conn, faults, gone>>
vars == <<pc, processVars, readVars, restVars>>

Count(e) == [out : 0..MaxWrites[e].out, err : 0..MaxWrites[e].err]
NoEvents == [out |-> {}, err |-> {}]
Events == [out : SUBSET {"POLLIN", "POLLHUP"}, err : SUBSET {"POLLIN"}]
ThreadStates == {"unborn", "fork", "close", "poll", "pollErr", "readOut", "readErr",
                 "report", "cleanup", "notify", "done"}

TypeOK ==
    /\ pc \in [Executors -> ThreadStates]
    /\ child \in [Executors -> {"none", "forked", "running", "stuck", "exited"}]
    /\ writers \in [Executors -> SUBSET Executors]
    /\ {wrote, got, told} \subseteq [Executors -> [out : Nat, err : Nat]]
    /\ \A e \in Executors : /\ {wrote[e], got[e], told[e]} \subseteq Count(e)
                            /\ told[e].out <= got[e].out /\ got[e].out <= wrote[e].out
                            /\ told[e].err <= got[e].err /\ got[e].err <= wrote[e].err
    /\ revents \in [Executors -> Events]
    /\ atClose \in [Executors -> Nat]
    /\ \A e \in Executors : atClose[e] \in 0..wrote[e].err
    /\ lost \in [Executors -> BOOLEAN]
    /\ conn \in {"open", "failed"}
    /\ faults \in 0..MaxFaults
    /\ gone \in BOOLEAN

Each(v) == [e \in Executors |-> v]

Init ==
    /\ pc = Each("unborn") /\ child = Each("none") /\ writers = Each({})
    /\ wrote = Each([out |-> 0, err |-> 0])
    /\ got = wrote /\ told = wrote
    /\ revents = Each(NoEvents)
    /\ atClose = Each(0) /\ lost = Each(FALSE)
    /\ conn = "open" /\ faults = 0 /\ gone = FALSE

Goto(e, l) == pc' = [pc EXCEPT ![e] = l]

-----------------------------------------------------------------------------
(* The executor's thread, runCommand() *)

\* The constructor starts the thread, which makes the three pipes.
MakePipes(e) ==
    /\ pc[e] = "unborn"
    /\ Goto(e, "fork")
    /\ UNCHANGED <<processVars, readVars, restVars>>

\* Commands whose pipes have a write end open in the reporter itself.
OpenHere == {d \in Executors : pc[d] \in {"fork", "close"}}

Fork(e) ==
    /\ pc[e] = "fork"
    /\ child' = [child EXCEPT ![e] = "forked"]
    /\ writers' = [d \in Executors |->
                     IF d \in OpenHere THEN writers[d] \cup {e} ELSE writers[d]]
    /\ Goto(e, "close")
    /\ UNCHANGED <<wrote, readVars, atClose, restVars>>

\* fork() returns -1 and the code goes on as the parent of nobody.
ForkFails(e) ==
    /\ pc[e] = "fork"
    /\ child' = [child EXCEPT ![e] = "exited"]
    /\ Goto(e, "close")
    /\ UNCHANGED <<writers, wrote, readVars, atClose, restVars>>

\* The signal pipe is made and the ends that belong to the child are closed.
CloseEnds(e) ==
    /\ pc[e] = "close"
    /\ Goto(e, "poll")
    /\ UNCHANGED <<processVars, readVars, restVars>>

Readable(e, s) == IF wrote[e][s] > got[e][s] THEN {"POLLIN"} ELSE {}
HungUp(e) == IF writers[e] = {} /\ e \notin OpenHere THEN {"POLLHUP"} ELSE {}

\* poll() looks at stdout, then at stderr, and again if neither is ready.
PollOut(e) ==
    /\ pc[e] = "poll"
    /\ revents' = [revents EXCEPT ![e] =
                     [out |-> Readable(e, "out") \cup HungUp(e), err |-> {}]]
    /\ Goto(e, "pollErr")
    /\ UNCHANGED <<processVars, got, told, restVars>>

PollErr(e) ==
    /\ pc[e] = "pollErr"
    /\ revents' = [revents EXCEPT ![e].err = Readable(e, "err")]
    /\ Goto(e, IF revents[e].out = {} /\ Readable(e, "err") = {} THEN "poll"
                                                                ELSE "readOut")
    /\ UNCHANGED <<processVars, got, told, restVars>>

Least(a, b) == IF a <= b THEN a ELSE b
Taken(e, s, size) == IF "POLLIN" \in revents[e][s]
                     THEN Least(wrote[e][s], got[e][s] + size) ELSE got[e][s]

\* Variant: the buffer declared before the loop, a fraction of a pipe.
ReadOutShort(e) ==
    /\ pc[e] = "readOut"
    /\ got' = [got EXCEPT ![e].out = Taken(e, "out", 1)]
    /\ Goto(e, "readErr")
    /\ UNCHANGED <<processVars, told, revents, restVars>>

\* Variant: the size of the buffer taken for what read() returned.
ReadOutPads(e) ==
    /\ pc[e] = "readOut"
    /\ got' = [got EXCEPT ![e].out = IF "POLLIN" \in revents[e].out THEN @ + ReadSize
                                                                    ELSE @]
    /\ Goto(e, "readErr")
    /\ UNCHANGED <<processVars, told, revents, restVars>>

\* out.clear() and out = buffer: each read begins a report of its own.
ReadOut(e) ==
    /\ pc[e] = "readOut"
    /\ got' = [got EXCEPT ![e].out = Taken(e, "out", ReadSize)]
    /\ Goto(e, "readErr")
    /\ UNCHANGED <<processVars, told, revents, restVars>>

\* Variant: the loop waits for the signal pipe alone.
LoopAgain(e) == pc' = [pc EXCEPT ![e] = "poll"]

\* The end of the loop's body: the loop is left when nobody can write to stdout
\* any more.
LoopOrLeave(e) ==
    pc' = [pc EXCEPT ![e] = IF "POLLHUP" \in revents[e].out THEN "cleanup" ELSE "poll"]

ReadErr(e) ==
    /\ pc[e] = "readErr"
    /\ got' = [got EXCEPT ![e].err = Taken(e, "err", ReadSize)]
    /\ IF "POLLIN" \in revents[e].out \cup revents[e].err
       THEN Goto(e, "report") /\ UNCHANGED revents
       ELSE LoopOrLeave(e) /\ revents' = [revents EXCEPT ![e] = NoEvents]
    /\ UNCHANGED <<processVars, told, restVars>>

\* reportExecutorData(): a one-way call on client_, without a lock.
Report(e) ==
    /\ pc[e] = "report"
    /\ conn = "open"
    /\ told' = [told EXCEPT ![e] = got[e]]
    /\ LoopOrLeave(e)
    /\ revents' = [revents EXCEPT ![e] = NoEvents]
    /\ UNCHANGED <<processVars, got, restVars>>

\* On a failed connection the bytes may still go into the socket ...
ReportLost(e) ==
    /\ pc[e] = "report"
    /\ conn = "failed"
    /\ lost' = [lost EXCEPT ![e] = TRUE]
    /\ LoopOrLeave(e)
    /\ revents' = [revents EXCEPT ![e] = NoEvents]
    /\ UNCHANGED <<processVars, got, told, conn, faults, gone>>

\* ... or the call throws, and nothing in this thread catches.
ReportThrows(e) ==
    /\ pc[e] = "report"
    /\ conn = "failed"
    /\ gone' = TRUE
    /\ UNCHANGED <<pc, processVars, readVars, lost, conn, faults>>

Cleanup(e) ==
    /\ pc[e] = "cleanup"
    /\ Goto(e, "notify")
    /\ UNCHANGED <<processVars, readVars, restVars>>

\* notifyEnd(): the request goes into the queue of RequestClient.
NotifyEnd(e) ==
    /\ pc[e] = "notify"
    /\ Goto(e, "done")
    /\ UNCHANGED <<processVars, readVars, restVars>>

-----------------------------------------------------------------------------
(* The commands *)

\* execlp(): the command runs ...
Exec(e) ==
    /\ child[e] = "forked"
    /\ child' = [child EXCEPT ![e] = "running"]
    /\ UNCHANGED <<pc, writers, wrote, readVars, atClose, restVars>>

\* ... or the child prints an error and falls into the parent's loop, where it
\* polls three descriptors that are all -1, for ever.
ExecFails(e) ==
    /\ ShellMissing
    /\ child[e] = "forked"
    /\ child' = [child EXCEPT ![e] = "stuck"]
    /\ wrote' = [wrote EXCEPT ![e].err = Least(1, MaxWrites[e].err)]
    /\ UNCHANGED <<pc, writers, readVars, atClose, restVars>>

ReadEndOpen(e) == pc[e] \notin {"notify", "done"}

\* A write waits while the pipe is full.
Write(e, s) ==
    /\ child[e] = "running"
    /\ s = "out" => e \in writers[e]
    /\ ReadEndOpen(e)
    /\ wrote[e][s] < MaxWrites[e][s]
    /\ wrote[e][s] - got[e][s] < Capacity
    /\ wrote' = [wrote EXCEPT ![e][s] = @ + 1]
    /\ UNCHANGED <<pc, child, writers, readVars, atClose, restVars>>

\* The command closes stdout, in its exit or before it.
CloseStdout(e) ==
    /\ child[e] = "running"
    /\ e \in writers[e]
    /\ writers' = [writers EXCEPT ![e] = @ \ {e}]
    /\ atClose' = [atClose EXCEPT ![e] = wrote[e].err]
    /\ UNCHANGED <<pc, child, wrote, readVars, restVars>>

\* The process is over; what it had inherited of other commands is closed.
ChildExits(e) ==
    /\ child[e] = "running"
    /\ e \notin writers[e]
    /\ child' = [child EXCEPT ![e] = "exited"]
    /\ writers' = [d \in Executors |-> writers[d] \ {e}]
    /\ UNCHANGED <<pc, wrote, readVars, atClose, restVars>>

-----------------------------------------------------------------------------
(* The connection, which the work thread of RequestClient makes anew *)

ConnectionFails ==
    /\ conn = "open"
    /\ faults < MaxFaults
    /\ faults' = faults + 1
    /\ conn' = "failed"
    /\ UNCHANGED <<pc, processVars, readVars, lost, gone>>

Reconnect ==
    /\ conn = "failed"
    /\ conn' = "open"
    /\ UNCHANGED <<pc, processVars, readVars, lost, faults, gone>>

-----------------------------------------------------------------------------
Thread(e) == \/ Fork(e) \/ ForkFails(e) \/ CloseEnds(e)
             \/ PollOut(e) \/ PollErr(e) \/ ReadOut(e) \/ ReadErr(e)
             \/ Report(e) \/ ReportLost(e) \/ ReportThrows(e)
             \/ Cleanup(e) \/ NotifyEnd(e)

Process(e) == \/ Exec(e) \/ ExecFails(e)
              \/ Write(e, "out") \/ Write(e, "err")
              \/ CloseStdout(e) \/ ChildExits(e)

Finished == gone \/ \A e \in Executors : pc[e] = "done" /\ child[e] = "exited"

Running == /\ ~gone
           /\ \/ \E e \in Executors : MakePipes(e) \/ Thread(e) \/ Process(e)
              \/ ConnectionFails
              \/ Reconnect

Over == Finished /\ UNCHANGED vars

Next == Running \/ Over

Spec == Init /\ [][Next]_vars

\* Threads run, and a forked child gets to its exec. Commands owe nothing.
FairSpec == /\ Spec
            /\ \A e \in Executors : /\ WF_vars(~gone /\ Thread(e))
                                    /\ WF_vars(~gone /\ (Exec(e) \/ ExecFails(e)))

-----------------------------------------------------------------------------
(* Properties *)

\* When the end of a command is announced everything it wrote to stdout has
\* been reported, and what it wrote to stderr before it closed stdout, unless
\* a report went into a failed connection.
OutputBeforeEnd ==
    \A e \in Executors : pc[e] \in {"notify", "done"} /\ ~lost[e] =>
        /\ told[e].out = wrote[e].out
        /\ told[e].err >= atClose[e]

\* Once no command is left running, every command started is announced as
\* ended, unless an exception ended the reporter.
EndsAnnounced ==
    (<>[](\A e \in Executors : child[e] \in {"none", "exited"}))
        => \A e \in Executors : child[e] = "exited" ~> (pc[e] = "done" \/ gone)

\* A command that has ended is announced as ended, whatever others do.
EndIsItsOwn == \A e \in Executors : child[e] = "exited" ~> (pc[e] = "done" \/ gone)

\* A connection that fails while a command runs does not end the reporter.
SurvivesOutput == ~gone
=============================================================================
