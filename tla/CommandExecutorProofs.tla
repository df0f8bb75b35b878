----------------------- MODULE CommandExecutorProofs ------------------------
(***************************************************************************)
(* Proofs about CommandExecutor, for any number of commands running beside *)
(* each other, whatever they write and whatever a pipe holds.              *)
(***************************************************************************)
EXTENDS CommandExecutor, TLAPS

Tallies == [Executors -> [out : Nat, err : Nat]]

\* TypeOK in two parts: what is a count of output and what is not.
ControlTypes ==
    /\ pc \in [Executors -> ThreadStates]
    /\ child \in [Executors -> {"none", "forked", "running", "stuck", "exited"}]
    /\ writers \in [Executors -> SUBSET Executors]
    /\ revents \in [Executors -> Events]
    /\ lost \in [Executors -> BOOLEAN]
    /\ conn \in {"open", "failed"}
    /\ faults \in 0..MaxFaults
    /\ gone \in BOOLEAN

Counts ==
    /\ wrote \in Tallies /\ got \in Tallies /\ told \in Tallies
    /\ atClose \in [Executors -> Nat]
    /\ \A e \in Executors :
          /\ told[e].out <= got[e].out /\ told[e].err <= got[e].err
          /\ got[e].out <= wrote[e].out /\ got[e].err <= wrote[e].err
          /\ wrote[e].out <= MaxWrites[e].out /\ wrote[e].err <= MaxWrites[e].err
          /\ atClose[e] <= wrote[e].err

Leaving == {"cleanup", "notify", "done"}

\* A command has no process before the fork and wrote nothing before its exec.
Silent ==
    \A e \in Executors :
        /\ pc[e] \in {"unborn", "fork"} => child[e] = "none"
        /\ child[e] \in {"none", "forked"} => wrote[e].out = 0 /\ wrote[e].err = 0

\* A pipe never holds more than its capacity, so that one read empties it.
PipesHold ==
    \A e \in Executors : /\ wrote[e].out <= got[e].out + Capacity
                         /\ wrote[e].err <= got[e].err + Capacity

\* A hang-up is for good: no later fork inherits a write end of that pipe.
HangUpIsFinal ==
    \A e \in Executors :
        "POLLHUP" \in revents[e].out \/ pc[e] \in Leaving =>
            pc[e] \notin {"unborn", "fork", "close"} /\ writers[e] = {}

\* Between two reports nothing is read and left out of the next one.
ReportsKeepUp ==
    \A e \in Executors : ~lost[e] =>
        /\ pc[e] \in {"unborn", "fork", "close", "poll", "pollErr", "readOut"} =>
              told[e].out = got[e].out /\ told[e].err = got[e].err
        /\ pc[e] = "readErr" =>
              /\ told[e].err = got[e].err
              /\ "POLLIN" \in revents[e].out \/ told[e].out = got[e].out

\* The turn of the loop that sees the hang-up reads all that is left of stdout,
\* and what was on stderr when stdout was closed.
LastTurn ==
    \A e \in Executors : "POLLHUP" \in revents[e].out =>
        /\ pc[e] \in {"pollErr", "readOut"} =>
              "POLLIN" \in revents[e].out \/ got[e].out = wrote[e].out
        /\ pc[e] \in {"readErr", "report"} => got[e].out = wrote[e].out
        /\ pc[e] \in {"readOut", "readErr"} =>
              "POLLIN" \in revents[e].err \/ got[e].err >= atClose[e]
        /\ pc[e] = "report" => got[e].err >= atClose[e]

\* OutputBeforeEnd, from the end of the loop on.
AllTold ==
    \A e \in Executors : pc[e] \in Leaving /\ ~lost[e] =>
        told[e].out = wrote[e].out /\ told[e].err >= atClose[e]

OutputInv == /\ ControlTypes /\ Counts /\ Silent /\ PipesHold
             /\ HangUpIsFinal /\ ReportsKeepUp /\ LastTurn /\ AllTold

\* Every step keeps the types of what is no count.
LEMMA ControlStep == ControlTypes /\ [Next]_vars => ControlTypes'
<1> SUFFICES ASSUME ControlTypes, [Next]_vars PROVE ControlTypes'
      OBVIOUS
<1> USE DEF ControlTypes, Events, ThreadStates, Goto, LoopOrLeave, NoEvents,
            processVars, readVars, restVars
<1>1. ASSUME NEW e \in Executors, PollOut(e) PROVE ControlTypes'
      BY <1>1 DEF PollOut, Readable, HungUp
<1>2. ASSUME NEW e \in Executors, PollErr(e) PROVE ControlTypes'
      BY <1>2 DEF PollErr, Readable
<1>3. ASSUME NEW e \in Executors, ReadErr(e) PROVE ControlTypes'
  <2>1. CASE "POLLIN" \in revents[e].out \cup revents[e].err
        BY <1>3, <2>1 DEF ReadErr
  <2>2. CASE "POLLIN" \notin revents[e].out \cup revents[e].err
    <3>1. pc' = [pc EXCEPT ![e] = IF "POLLHUP" \in revents[e].out
                                  THEN "cleanup" ELSE "poll"]
          BY <1>3, <2>2 DEF ReadErr
    <3>2. revents' = [revents EXCEPT ![e] = NoEvents]
          BY <1>3, <2>2 DEF ReadErr
    <3>3. UNCHANGED <<processVars, restVars>>
          BY <1>3 DEF ReadErr
    <3> QED BY <3>1, <3>2, <3>3
  <2> QED BY <2>1, <2>2
<1>4. ASSUME NEW e \in Executors, Report(e) PROVE ControlTypes'
      BY <1>4 DEF Report
<1>5. ASSUME NEW e \in Executors, ReportLost(e) PROVE ControlTypes'
      BY <1>5 DEF ReportLost
<1>6. ASSUME NEW e \in Executors,
             MakePipes(e) \/ CloseEnds(e) \/ ReadOut(e) \/ Cleanup(e) \/ NotifyEnd(e)
      PROVE  ControlTypes'
      BY <1>6 DEF MakePipes, CloseEnds, ReadOut, Cleanup, NotifyEnd
<1>7. ASSUME NEW e \in Executors, Fork(e) \/ ForkFails(e) PROVE ControlTypes'
  <2>1. \/ child' = [child EXCEPT ![e] = "forked"]
        \/ child' = [child EXCEPT ![e] = "exited"]
        BY <1>7 DEF Fork, ForkFails
  <2>2. writers' \in [Executors -> SUBSET Executors]
        BY <1>7 DEF Fork, ForkFails
  <2>3. pc' = [pc EXCEPT ![e] = "close"] /\ UNCHANGED <<revents, restVars>>
        BY <1>7 DEF Fork, ForkFails
  <2> QED BY <2>1, <2>2, <2>3
<1>8. ASSUME NEW e \in Executors, Exec(e) \/ ExecFails(e) \/ ChildExits(e)
      PROVE  ControlTypes'
      BY <1>8 DEF Exec, ExecFails, ChildExits
<1>9. ASSUME NEW e \in Executors, CloseStdout(e) PROVE ControlTypes'
      BY <1>9 DEF CloseStdout
<1>10. ASSUME NEW e \in Executors, Write(e, "out") \/ Write(e, "err")
       PROVE  ControlTypes'
  <2>1. UNCHANGED <<pc, child, writers, revents, lost, conn, faults, gone>>
        BY <1>10 DEF Write
  <2> QED BY <2>1
<1>11. ASSUME NEW e \in Executors, ReportThrows(e) PROVE ControlTypes'
      BY <1>11 DEF ReportThrows
<1>12. CASE ConnectionFails \/ Reconnect \/ UNCHANGED vars
      BY <1>12, ReadAssumption DEF ConnectionFails, Reconnect, vars
<1> HIDE DEF ControlTypes
<1> QED BY <1>1, <1>2, <1>3, <1>4, <1>5, <1>6, <1>7, <1>8, <1>9, <1>10,
           <1>11, <1>12
        DEF Next, Running, Over, Thread, Process

\* No thread reads more than was written, or tells more than it read.
LEMMA CountsStep == Counts /\ Silent /\ [Next]_vars => Counts'
<1> SUFFICES ASSUME Counts, Silent, [Next]_vars PROVE Counts'
      OBVIOUS
<1> USE DEF Counts,
            processVars, readVars, restVars
<1>a. \A e \in Executors : /\ wrote[e] \in [out : Nat, err : Nat]
                           /\ got[e] \in [out : Nat, err : Nat]
                           /\ told[e] \in [out : Nat, err : Nat]
                           /\ MaxWrites[e] \in [out : Nat, err : Nat]
      BY ReadAssumption DEF Tallies
<1>1. ASSUME NEW e \in Executors, ReadOut(e) PROVE Counts'
  <2> DEFINE n == Taken(e, "out", ReadSize)
  <2>1. got' = [got EXCEPT ![e].out = n] /\ UNCHANGED <<wrote, told, atClose>>
        BY <1>1 DEF ReadOut
  <2>2. n \in Nat /\ got[e].out <= n /\ n <= wrote[e].out
        BY <1>a, ReadAssumption DEF Taken, Least
  <2> HIDE DEF n
  <2>3. /\ got' \in Tallies
        /\ \A d \in Executors : /\ got'[d].out = IF d = e THEN n ELSE got[d].out
                                /\ got'[d].err = got[d].err
        BY <2>1, <2>2, <1>a DEF Tallies
  <2> QED BY <1>a, <2>1, <2>2, <2>3
<1>2. ASSUME NEW e \in Executors, ReadErr(e) PROVE Counts'
  <2> DEFINE n == Taken(e, "err", ReadSize)
  <2>1. got' = [got EXCEPT ![e].err = n] /\ UNCHANGED <<wrote, told, atClose>>
        BY <1>2 DEF ReadErr
  <2>2. n \in Nat /\ got[e].err <= n /\ n <= wrote[e].err
        BY <1>a, ReadAssumption DEF Taken, Least
  <2> HIDE DEF n
  <2>3. /\ got' \in Tallies
        /\ \A d \in Executors : /\ got'[d].err = IF d = e THEN n ELSE got[d].err
                                /\ got'[d].out = got[d].out
        BY <2>1, <2>2, <1>a DEF Tallies
  <2> QED BY <1>a, <2>1, <2>2, <2>3
<1>3. ASSUME NEW e \in Executors, Report(e) PROVE Counts'
      BY <1>a, <1>3 DEF Report, Tallies
<1>4. ASSUME NEW e \in Executors, ExecFails(e) PROVE Counts'
  <2> DEFINE n == Least(1, MaxWrites[e].err)
  <2>1. wrote' = [wrote EXCEPT ![e].err = n] /\ UNCHANGED <<got, told, atClose>>
        BY <1>4 DEF ExecFails
  <2>2. n \in Nat /\ n <= MaxWrites[e].err
        BY <1>a DEF Least
  <2>3. wrote[e].err = 0
        BY <1>4 DEF ExecFails, Silent
  <2> HIDE DEF n
  <2>4. /\ wrote' \in Tallies
        /\ \A d \in Executors : /\ wrote'[d].err = IF d = e THEN n ELSE wrote[d].err
                                /\ wrote'[d].out = wrote[d].out
        BY <2>1, <2>2, <1>a DEF Tallies
  <2> QED BY <1>a, <2>1, <2>2, <2>3, <2>4
<1>5. ASSUME NEW e \in Executors, Write(e, "out") PROVE Counts'
  <2> DEFINE n == wrote[e].out + 1
  <2>1. wrote' = [wrote EXCEPT ![e].out = n] /\ UNCHANGED <<got, told, atClose>>
        BY <1>5 DEF Write
  <2>2. n \in Nat /\ wrote[e].out <= n /\ n <= MaxWrites[e].out
        BY <1>a, <1>5 DEF Write
  <2> HIDE DEF n
  <2>3. /\ wrote' \in Tallies
        /\ \A d \in Executors : /\ wrote'[d].out = IF d = e THEN n ELSE wrote[d].out
                                /\ wrote'[d].err = wrote[d].err
        BY <2>1, <2>2, <1>a DEF Tallies
  <2> QED BY <1>a, <2>1, <2>2, <2>3
<1>6. ASSUME NEW e \in Executors, Write(e, "err") PROVE Counts'
  <2> DEFINE n == wrote[e].err + 1
  <2>1. wrote' = [wrote EXCEPT ![e].err = n] /\ UNCHANGED <<got, told, atClose>>
        BY <1>6 DEF Write
  <2>2. n \in Nat /\ wrote[e].err <= n /\ n <= MaxWrites[e].err
        BY <1>a, <1>6 DEF Write
  <2> HIDE DEF n
  <2>3. /\ wrote' \in Tallies
        /\ \A d \in Executors : /\ wrote'[d].err = IF d = e THEN n ELSE wrote[d].err
                                /\ wrote'[d].out = wrote[d].out
        BY <2>1, <2>2, <1>a DEF Tallies
  <2> QED BY <1>a, <2>1, <2>2, <2>3
<1>7. ASSUME NEW e \in Executors, CloseStdout(e) PROVE Counts'
      BY <1>a, <1>7 DEF CloseStdout
<1>8. ASSUME NEW e \in Executors,
             \/ MakePipes(e) \/ Fork(e) \/ ForkFails(e) \/ CloseEnds(e)
             \/ PollOut(e) \/ PollErr(e) \/ ReportLost(e) \/ ReportThrows(e)
             \/ Cleanup(e) \/ NotifyEnd(e) \/ Exec(e) \/ ChildExits(e)
      PROVE  Counts'
  <2>1. UNCHANGED <<wrote, got, told, atClose>>
        BY <1>8 DEF MakePipes, Fork, ForkFails, CloseEnds, PollOut, PollErr,
           ReportLost, ReportThrows, Cleanup, NotifyEnd, Exec, ChildExits
  <2> QED BY <2>1
<1>9. CASE ConnectionFails \/ Reconnect \/ UNCHANGED vars
      BY <1>9 DEF ConnectionFails, Reconnect, vars
<1> HIDE DEF Counts
<1> QED BY <1>1, <1>2, <1>3, <1>4, <1>5, <1>6, <1>7, <1>8, <1>9
        DEF Next, Running, Over, Thread, Process

\* Only a command that has been executed writes.
LEMMA SilentStep ==
    ControlTypes /\ Counts /\ Silent /\ [Next]_vars => Silent'
<1> SUFFICES ASSUME ControlTypes, Counts, Silent, [Next]_vars
             PROVE  Silent'
      OBVIOUS
<1> USE DEF ControlTypes, Counts, Silent, Tallies, Goto,
            processVars, readVars, restVars
<1>1. ASSUME NEW e \in Executors, MakePipes(e) PROVE Silent'
      BY <1>1 DEF MakePipes
<1>2. ASSUME NEW e \in Executors, Fork(e) PROVE Silent'
      BY <1>2 DEF Fork
<1>3. ASSUME NEW e \in Executors, ForkFails(e) PROVE Silent'
      BY <1>3 DEF ForkFails
<1>4. ASSUME NEW e \in Executors, Exec(e) PROVE Silent'
      BY <1>4 DEF Exec
<1>5. ASSUME NEW e \in Executors, ExecFails(e) PROVE Silent'
      BY <1>5 DEF ExecFails
<1>6. ASSUME NEW e \in Executors, Write(e, "out") PROVE Silent'
      BY <1>6 DEF Write
<1>7. ASSUME NEW e \in Executors, Write(e, "err") PROVE Silent'
      BY <1>7 DEF Write
<1>8. ASSUME NEW e \in Executors, ChildExits(e) PROVE Silent'
      BY <1>8 DEF ChildExits
<1>9. ASSUME NEW e \in Executors,
             \/ CloseEnds(e) \/ PollOut(e) \/ PollErr(e) \/ ReadOut(e)
             \/ ReadErr(e) \/ Report(e) \/ ReportLost(e)
             \/ ReportThrows(e) \/ Cleanup(e) \/ NotifyEnd(e)
             \/ CloseStdout(e)
      PROVE  Silent'
      BY <1>9 DEF CloseEnds, PollOut, PollErr, ReadOut, ReadErr, Report,
          ReportLost, ReportThrows, Cleanup, NotifyEnd, CloseStdout, LoopOrLeave
<1>10. CASE ConnectionFails \/ Reconnect \/ UNCHANGED vars
      BY <1>10 DEF ConnectionFails, Reconnect, vars
<1> HIDE DEF ControlTypes, Counts, Silent
<1> QED BY <1>1, <1>2, <1>3, <1>4, <1>5, <1>6, <1>7, <1>8, <1>9, <1>10
        DEF Next, Running, Over, Thread, Process

\* A write waits while the pipe is full, and a read only makes room.
LEMMA PipesStep ==
    ControlTypes /\ Counts /\ Silent /\ PipesHold /\ [Next]_vars => PipesHold'
<1> SUFFICES ASSUME ControlTypes, Counts, Silent, PipesHold, [Next]_vars
             PROVE  PipesHold'
      OBVIOUS
<1> USE ReadAssumption DEF ControlTypes, Counts, Silent, PipesHold, Tallies, Goto,
            processVars, readVars, restVars
<1>1. ASSUME NEW e \in Executors, ReadOut(e) PROVE PipesHold'
      BY <1>1 DEF ReadOut, Taken, Least
<1>2. ASSUME NEW e \in Executors, ReadErr(e) PROVE PipesHold'
      BY <1>2 DEF ReadErr, Taken, Least
<1>3. ASSUME NEW e \in Executors, ExecFails(e) PROVE PipesHold'
      BY <1>3 DEF ExecFails, Least
<1>4. ASSUME NEW e \in Executors, Write(e, "out") PROVE PipesHold'
      BY <1>4 DEF Write
<1>5. ASSUME NEW e \in Executors, Write(e, "err") PROVE PipesHold'
      BY <1>5 DEF Write
<1>6. ASSUME NEW e \in Executors,
             \/ MakePipes(e) \/ Fork(e) \/ ForkFails(e) \/ CloseEnds(e)
             \/ PollOut(e) \/ PollErr(e) \/ Report(e) \/ ReportLost(e)
             \/ ReportThrows(e) \/ Cleanup(e) \/ NotifyEnd(e) \/ Exec(e)
             \/ CloseStdout(e) \/ ChildExits(e)
      PROVE  PipesHold'
      BY <1>6 DEF MakePipes, Fork, ForkFails, CloseEnds, PollOut, PollErr,
          Report, ReportLost, ReportThrows, Cleanup, NotifyEnd, Exec,
          CloseStdout, ChildExits
<1>7. CASE ConnectionFails \/ Reconnect \/ UNCHANGED vars
      BY <1>7 DEF ConnectionFails, Reconnect, vars
<1> HIDE DEF ControlTypes, Counts, Silent, PipesHold
<1> QED BY <1>1, <1>2, <1>3, <1>4, <1>5, <1>6, <1>7
        DEF Next, Running, Over, Thread, Process

\* A child inherits only from commands between their pipes and their close.
LEMMA HangUpStep ==
    ControlTypes /\ Counts /\ HangUpIsFinal /\ [Next]_vars => HangUpIsFinal'
<1> SUFFICES ASSUME ControlTypes, Counts, HangUpIsFinal, [Next]_vars
             PROVE  HangUpIsFinal'
      OBVIOUS
<1> USE DEF ControlTypes, Counts, HangUpIsFinal, Tallies, Leaving, Goto,
            processVars, readVars, restVars
<1>1. ASSUME NEW e \in Executors, MakePipes(e) PROVE HangUpIsFinal'
      BY <1>1 DEF MakePipes
<1>2. ASSUME NEW e \in Executors, Fork(e) PROVE HangUpIsFinal'
      BY <1>2 DEF Fork, OpenHere
<1>3. ASSUME NEW e \in Executors, CloseEnds(e) PROVE HangUpIsFinal'
      BY <1>3 DEF CloseEnds
<1>4. ASSUME NEW e \in Executors, PollOut(e) PROVE HangUpIsFinal'
      BY <1>4 DEF PollOut, Readable, HungUp
<1>5. ASSUME NEW e \in Executors, PollErr(e) PROVE HangUpIsFinal'
      BY <1>5 DEF PollErr
<1>6. ASSUME NEW e \in Executors, ReadOut(e) PROVE HangUpIsFinal'
      BY <1>6 DEF ReadOut
<1>7. ASSUME NEW e \in Executors, ReadErr(e) PROVE HangUpIsFinal'
      BY <1>7 DEF ReadErr, Taken, LoopOrLeave, NoEvents
<1>8. ASSUME NEW e \in Executors, Report(e) PROVE HangUpIsFinal'
      BY <1>8 DEF Report, LoopOrLeave, NoEvents
<1>9. ASSUME NEW e \in Executors, ReportLost(e) PROVE HangUpIsFinal'
      BY <1>9 DEF ReportLost, LoopOrLeave, NoEvents
<1>10. ASSUME NEW e \in Executors, CloseStdout(e) PROVE HangUpIsFinal'
      BY <1>10 DEF CloseStdout
<1>11. ASSUME NEW e \in Executors, ChildExits(e) PROVE HangUpIsFinal'
      BY <1>11 DEF ChildExits
<1>12. ASSUME NEW e \in Executors,
             \/ ForkFails(e) \/ ReportThrows(e) \/ Cleanup(e)
             \/ NotifyEnd(e) \/ Exec(e) \/ ExecFails(e) \/ Write(e, "out")
             \/ Write(e, "err")
      PROVE  HangUpIsFinal'
      BY <1>12 DEF ForkFails, ReportThrows, Cleanup, NotifyEnd, Exec, ExecFails,
          Write
<1>13. CASE ConnectionFails \/ Reconnect \/ UNCHANGED vars
      BY <1>13 DEF ConnectionFails, Reconnect, vars
<1> HIDE DEF ControlTypes, Counts, HangUpIsFinal
<1> QED BY <1>1, <1>2, <1>3, <1>4, <1>5, <1>6, <1>7, <1>8, <1>9, <1>10, <1>11,
        <1>12, <1>13
        DEF Next, Running, Over, Thread, Process

\* What ReadOut and ReadErr take, Report hands over before the next poll().
LEMMA KeepUpStep ==
    ControlTypes /\ Counts /\ ReportsKeepUp /\ [Next]_vars => ReportsKeepUp'
<1> SUFFICES ASSUME ControlTypes, Counts, ReportsKeepUp, [Next]_vars
             PROVE  ReportsKeepUp'
      OBVIOUS
<1> USE DEF ControlTypes, Counts, ReportsKeepUp, Tallies, Goto,
            processVars, readVars, restVars
<1>1. ASSUME NEW e \in Executors, PollOut(e) PROVE ReportsKeepUp'
      BY <1>1 DEF PollOut
<1>2. ASSUME NEW e \in Executors, PollErr(e) PROVE ReportsKeepUp'
      BY <1>2 DEF PollErr
<1>3. ASSUME NEW e \in Executors, ReadOut(e) PROVE ReportsKeepUp'
      BY <1>3 DEF ReadOut, Taken
<1>4. ASSUME NEW e \in Executors, ReadErr(e) PROVE ReportsKeepUp'
      BY <1>4 DEF ReadErr, Taken, LoopOrLeave
<1>5. ASSUME NEW e \in Executors, Report(e) PROVE ReportsKeepUp'
      BY <1>5 DEF Report, LoopOrLeave
<1>6. ASSUME NEW e \in Executors, ReportLost(e) PROVE ReportsKeepUp'
      BY <1>6 DEF ReportLost, LoopOrLeave
<1>7. ASSUME NEW e \in Executors,
             \/ MakePipes(e) \/ Fork(e) \/ ForkFails(e) \/ CloseEnds(e)
             \/ ReportThrows(e) \/ Cleanup(e) \/ NotifyEnd(e) \/ Exec(e)
             \/ ExecFails(e) \/ Write(e, "out") \/ Write(e, "err")
             \/ CloseStdout(e) \/ ChildExits(e)
      PROVE  ReportsKeepUp'
      BY <1>7 DEF MakePipes, Fork, ForkFails, CloseEnds, ReportThrows, Cleanup,
          NotifyEnd, Exec, ExecFails, Write, CloseStdout, ChildExits
<1>8. CASE ConnectionFails \/ Reconnect \/ UNCHANGED vars
      BY <1>8 DEF ConnectionFails, Reconnect, vars
<1> HIDE DEF ControlTypes, Counts, ReportsKeepUp
<1> QED BY <1>1, <1>2, <1>3, <1>4, <1>5, <1>6, <1>7, <1>8
        DEF Next, Running, Over, Thread, Process

\* One read of a pipe that no one writes to any more empties it.
LEMMA LastTurnStep ==
    /\ ControlTypes /\ Counts /\ PipesHold
    /\ HangUpIsFinal /\ LastTurn
    /\ [Next]_vars
    => LastTurn'
<1> SUFFICES ASSUME ControlTypes, Counts, PipesHold,
                    HangUpIsFinal, LastTurn, [Next]_vars
             PROVE  LastTurn'
      OBVIOUS
<1>a. \A e \in Executors : wrote[e].out > got[e].out \/ got[e].out = wrote[e].out
  <2> TAKE e \in Executors
  <2>1. wrote[e].out \in Nat /\ got[e].out \in Nat /\ got[e].out <= wrote[e].out
        BY DEF Counts, Tallies
  <2>2. \A m, n \in Nat : m <= n => n > m \/ m = n
        OBVIOUS
  <2> QED BY <2>1, <2>2
<1> USE ReadAssumption
        DEF ControlTypes, Counts, PipesHold, HangUpIsFinal, LastTurn, Tallies, Goto,
            processVars, readVars, restVars
<1>1. ASSUME NEW e \in Executors, PollOut(e) PROVE LastTurn'
  <2>1. revents' = [revents EXCEPT ![e] =
                      [out |-> Readable(e, "out") \cup HungUp(e), err |-> {}]]
        BY <1>1 DEF PollOut
  <2>2. "POLLIN" \in revents'[e].out \/ got[e].out = wrote[e].out
    <3>1. revents'[e].out = Readable(e, "out") \cup HungUp(e)
          BY <2>1
    <3>2. wrote[e].out > got[e].out => "POLLIN" \in revents'[e].out
          BY <3>1 DEF Readable
    <3> QED BY <1>a, <3>2
  <2>3. pc' = [pc EXCEPT ![e] = "pollErr"] /\ UNCHANGED <<processVars, got>>
        BY <1>1 DEF PollOut
  <2> QED BY <2>1, <2>2, <2>3
<1>2. ASSUME NEW e \in Executors, PollErr(e) PROVE LastTurn'
      BY <1>2 DEF PollErr, Readable
<1>3. ASSUME NEW e \in Executors, ReadOut(e) PROVE LastTurn'
      BY <1>3 DEF ReadOut, Taken, Least
<1>4. ASSUME NEW e \in Executors, ReadErr(e) PROVE LastTurn'
      BY <1>4 DEF ReadErr, Taken, Least, LoopOrLeave
<1>5. ASSUME NEW e \in Executors, Report(e) PROVE LastTurn'
      BY <1>5 DEF Report, LoopOrLeave
<1>6. ASSUME NEW e \in Executors, ReportLost(e) PROVE LastTurn'
      BY <1>6 DEF ReportLost, LoopOrLeave
<1>7. ASSUME NEW e \in Executors, ExecFails(e) PROVE LastTurn'
      BY <1>7 DEF ExecFails
<1>8. ASSUME NEW e \in Executors, Write(e, "out") PROVE LastTurn'
      BY <1>8 DEF Write
<1>9. ASSUME NEW e \in Executors, Write(e, "err") PROVE LastTurn'
      BY <1>9 DEF Write
<1>10. ASSUME NEW e \in Executors, CloseStdout(e) PROVE LastTurn'
      BY <1>10 DEF CloseStdout
<1>11. ASSUME NEW e \in Executors, ChildExits(e) PROVE LastTurn'
      BY <1>11 DEF ChildExits
<1>12. ASSUME NEW e \in Executors,
             \/ MakePipes(e) \/ Fork(e) \/ ForkFails(e) \/ CloseEnds(e)
             \/ ReportThrows(e) \/ Cleanup(e) \/ NotifyEnd(e) \/ Exec(e)
      PROVE  LastTurn'
      BY <1>12 DEF MakePipes, Fork, ForkFails, CloseEnds, ReportThrows, Cleanup,
          NotifyEnd, Exec
<1>13. CASE ConnectionFails \/ Reconnect \/ UNCHANGED vars
      BY <1>13 DEF ConnectionFails, Reconnect, vars
<1> HIDE DEF ControlTypes, Counts, PipesHold, HangUpIsFinal, LastTurn
<1> QED BY <1>1, <1>2, <1>3, <1>4, <1>5, <1>6, <1>7, <1>8, <1>9, <1>10, <1>11,
        <1>12, <1>13
        DEF Next, Running, Over, Thread, Process

\* The loop is left only after a turn that saw the hang-up and was reported.
LEMMA ToldStep ==
    /\ ControlTypes /\ Counts /\ HangUpIsFinal
    /\ ReportsKeepUp /\ LastTurn /\ AllTold
    /\ [Next]_vars
    => AllTold'
<1> SUFFICES ASSUME ControlTypes, Counts, HangUpIsFinal,
                    ReportsKeepUp, LastTurn, AllTold, [Next]_vars
             PROVE  AllTold'
      OBVIOUS
<1> USE DEF ControlTypes, Counts, HangUpIsFinal, ReportsKeepUp, LastTurn,
            AllTold, Tallies, Leaving, Goto,
            processVars, readVars, restVars
<1>1. ASSUME NEW e \in Executors, ReadOut(e) PROVE AllTold'
      BY <1>1 DEF ReadOut
<1>2. ASSUME NEW e \in Executors, ReadErr(e) PROVE AllTold'
      BY <1>2 DEF ReadErr, LoopOrLeave
<1>3. ASSUME NEW e \in Executors, Report(e) PROVE AllTold'
      BY <1>3 DEF Report, LoopOrLeave
<1>4. ASSUME NEW e \in Executors, ReportLost(e) PROVE AllTold'
      BY <1>4 DEF ReportLost, LoopOrLeave
<1>5. ASSUME NEW e \in Executors, ExecFails(e) PROVE AllTold'
      BY <1>5 DEF ExecFails
<1>6. ASSUME NEW e \in Executors, Write(e, "out") PROVE AllTold'
      BY <1>6 DEF Write
<1>7. ASSUME NEW e \in Executors, Write(e, "err") PROVE AllTold'
      BY <1>7 DEF Write
<1>8. ASSUME NEW e \in Executors, CloseStdout(e) PROVE AllTold'
      BY <1>8 DEF CloseStdout
<1>9. ASSUME NEW e \in Executors,
             \/ MakePipes(e) \/ Fork(e) \/ ForkFails(e) \/ CloseEnds(e)
             \/ PollOut(e) \/ PollErr(e) \/ ReportThrows(e) \/ Cleanup(e)
             \/ NotifyEnd(e) \/ Exec(e) \/ ChildExits(e)
      PROVE  AllTold'
      BY <1>9 DEF MakePipes, Fork, ForkFails, CloseEnds, PollOut, PollErr,
          ReportThrows, Cleanup, NotifyEnd, Exec, ChildExits
<1>10. CASE ConnectionFails \/ Reconnect \/ UNCHANGED vars
      BY <1>10 DEF ConnectionFails, Reconnect, vars
<1> HIDE DEF ControlTypes, Counts, HangUpIsFinal, ReportsKeepUp, LastTurn, AllTold
<1> QED BY <1>1, <1>2, <1>3, <1>4, <1>5, <1>6, <1>7, <1>8, <1>9, <1>10
        DEF Next, Running, Over, Thread, Process

\* The invariant holds at first: nothing is started, written or read.
LEMMA OutputInit == Init => OutputInv
<1> SUFFICES ASSUME Init PROVE OutputInv
      OBVIOUS
<1> USE DEF Init, Each, NoEvents
<1>1. ControlTypes
  <2>1. lost \in [Executors -> BOOLEAN] /\ gone \in BOOLEAN
        OBVIOUS
  <2>2. revents \in [Executors -> Events]
        BY DEF Events
  <2> QED BY <2>1, <2>2, ReadAssumption DEF ControlTypes, ThreadStates
<1>2. Counts
      BY ReadAssumption DEF Counts, Tallies
<1>3. Silent /\ PipesHold
      BY ReadAssumption DEF Silent, PipesHold
<1>4. HangUpIsFinal /\ ReportsKeepUp /\ LastTurn /\ AllTold
      BY DEF HangUpIsFinal, ReportsKeepUp, LastTurn, AllTold, Leaving
<1> QED BY <1>1, <1>2, <1>3, <1>4 DEF OutputInv

\* The invariant of the threads and the processes they read from.
LEMMA OutputInvariant == Spec => []OutputInv
<1>1. OutputInv /\ [Next]_vars => OutputInv'
      BY ControlStep, CountsStep, SilentStep, PipesStep, HangUpStep, KeepUpStep,
         LastTurnStep, ToldStep
      DEF OutputInv
<1> QED BY OutputInit, <1>1, PTL DEF Spec

-----------------------------------------------------------------------------
\* The state has its types: no thread tells more than it read, or reads more
\* than the command wrote, on either pipe.
THEOREM ExecutorTypes == Spec => []TypeOK
<1>1. OutputInv => TypeOK
  <2> SUFFICES ASSUME ControlTypes, Counts PROVE TypeOK
        BY DEF OutputInv
  <2>1. ASSUME NEW e \in Executors
        PROVE  /\ {wrote[e], got[e], told[e]} \subseteq Count(e)
               /\ told[e].out <= got[e].out /\ got[e].out <= wrote[e].out
               /\ told[e].err <= got[e].err /\ got[e].err <= wrote[e].err
               /\ atClose[e] \in 0..wrote[e].err
    <3>1. /\ wrote[e] \in [out : Nat, err : Nat]
          /\ got[e] \in [out : Nat, err : Nat]
          /\ told[e] \in [out : Nat, err : Nat]
          /\ MaxWrites[e] \in [out : Nat, err : Nat]
          BY ReadAssumption DEF Counts, Tallies
    <3> QED BY <3>1 DEF Counts, Count
  <2>2. {wrote, got, told} \subseteq [Executors -> [out : Nat, err : Nat]]
        BY DEF Counts, Tallies
  <2> QED BY <2>1, <2>2 DEF ControlTypes, Counts, TypeOK
<1> QED BY OutputInvariant, <1>1, PTL

\* runCommand() announces the end of a command only after everything the
\* command wrote to stdout, and to stderr before it closed stdout, went out in
\* reports that no failed connection lost: with any number of commands forked
\* beside it, and any that inherited its pipes.
THEOREM OutputComesFirst == Spec => []OutputBeforeEnd
<1>1. OutputInv => OutputBeforeEnd
      BY DEF OutputInv, AllTold, OutputBeforeEnd, Leaving
<1> QED BY OutputInvariant, <1>1, PTL
=============================================================================
