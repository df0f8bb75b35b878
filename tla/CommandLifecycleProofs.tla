----------------------- MODULE CommandLifecycleProofs -----------------------
(***************************************************************************)
(* Theorems about CommandLifecycle, for any number of commands and faults: *)
(* the types, that no command is started twice or after it was lost, that  *)
(* a row tells the end of its own command, and that CommandPromise is kept.*)
(***************************************************************************)
EXTENDS CommandLifecycle, TLAPS, SequenceTheorems, FiniteSetTheorems

-----------------------------------------------------------------------------
(* The inductive invariant *)

\* Where a response is between the terminal and the reporter.
Adding == {inserted} \ {0}
Queued == Range(response_queue_)
Carried == IF res = <<>> THEN {} ELSE Range(res[1])
OnItsWay == Adding \cup Queued \cup Carried

Distinct(q) == \A i, j \in DOMAIN q : q[i] = q[j] => i = j

\* A command is in one place: with the terminal, in the client's queue or in the
\* answer, and there once; or it was started, once; or it was lost.
OnePlace ==
    /\ Distinct(response_queue_)
    /\ res # <<>> => Distinct(res[1])
    /\ Adding \cap Queued = {} /\ Adding \cap Carried = {} /\ Queued \cap Carried = {}
    /\ OnItsWay \cap cut = {}
    /\ \A c \in Commands : starts[c] \in {0, 1}
    /\ \A c \in Commands : c \in OnItsWay \cup cut => starts[c] = 0

\* A command that has no row yet is in no place at all.
RowFirst ==
    \A c \in Commands : c > Len(executor_table) => c \notin OnItsWay \cup cut /\ starts[c] = 0

\* Only what was started has ended, and what the queue holds and the server has
\* ingested are ends of commands, as they happened.
TrueEnd(r) == ended[r.id] # Open /\ r.time = ended[r.id].time

EndsAreTrue ==
    /\ \A c \in Commands : ended[c] # Open => starts[c] = 1
    /\ \A i \in DOMAIN pending : TrueEnd(pending[i])
    /\ \A i \in DOMAIN log : TrueEnd(log[i])

Types == TypeOK /\ res \in Seq(Seq(Commands))

LifecycleInv == Types /\ OnePlace /\ RowFirst /\ EndsAreTrue /\ RowTellsEnd

-----------------------------------------------------------------------------
(* The operators *)

\* What Append and the empty sequence have in them.
LEMMA RangeOfAppend ==
    ASSUME NEW S, NEW q \in Seq(S), NEW x \in S
    PROVE  Range(Append(q, x)) = Range(q) \cup {x}
<1>1. DOMAIN Append(q, x) = 1..(Len(q) + 1) /\ DOMAIN q = 1..Len(q)
      OBVIOUS
<1>2. Append(q, x)[Len(q) + 1] = x /\ \A i \in 1..Len(q) : Append(q, x)[i] = q[i]
      OBVIOUS
<1>3. 1..(Len(q) + 1) = 1..Len(q) \cup {Len(q) + 1}
      OBVIOUS
<1>4. ASSUME NEW y \in Range(Append(q, x)) PROVE y \in Range(q) \cup {x}
  <2>1. PICK i \in 1..(Len(q) + 1) : y = Append(q, x)[i]
        BY <1>1 DEF Range
  <2> QED BY <1>1, <1>2, <1>3, <2>1 DEF Range
<1>5. ASSUME NEW y \in Range(q) \cup {x} PROVE y \in Range(Append(q, x))
      BY <1>1, <1>2, <1>3 DEF Range
<1> QED BY <1>4, <1>5

LEMMA RangeOfEmpty == Range(<<>>) = {}
      BY DEF Range

\* Appending what is not there keeps a sequence free of repetitions.
LEMMA DistinctAppend ==
    ASSUME NEW S, NEW q \in Seq(S), NEW x \in S, Distinct(q), x \notin Range(q)
    PROVE  Distinct(Append(q, x))
<1>1. DOMAIN Append(q, x) = 1..(Len(q) + 1) /\ DOMAIN q = 1..Len(q)
      OBVIOUS
<1>2. Append(q, x)[Len(q) + 1] = x /\ \A i \in 1..Len(q) : Append(q, x)[i] = q[i]
      OBVIOUS
<1>3. \A i \in 1..Len(q) : q[i] # x
      BY <1>1 DEF Range
<1>4. \A i \in 1..(Len(q) + 1) : i \in 1..Len(q) \/ i = Len(q) + 1
      OBVIOUS
<1> QED BY <1>1, <1>2, <1>3, <1>4 DEF Distinct

\* The executors that an answer starts for one command: a number, and one if
\* the answer names the command and names none twice.
LEMMA Occurrences ==
    ASSUME NEW q \in Seq(Commands), NEW c
    PROVE  LET n == Cardinality({i \in DOMAIN q : q[i] = c})
           IN  /\ n \in Nat
               /\ Distinct(q) => n = IF c \in Range(q) THEN 1 ELSE 0
<1> DEFINE at == {i \in DOMAIN q : q[i] = c}
<1>1. IsFiniteSet(1..Len(q))
      BY FS_Interval
<1>2. at \subseteq 1..Len(q)
      OBVIOUS
<1>3. IsFiniteSet(at)
      BY <1>1, <1>2, FS_Subset
<1>4. Cardinality(at) \in Nat
      BY <1>3, FS_CardinalityType
<1>5. CASE c \notin Range(q)
  <2>1. at = {}
        BY <1>5 DEF Range
  <2> QED BY <1>4, <1>5, <2>1, FS_EmptySet
<1>6. ASSUME Distinct(q), c \in Range(q) PROVE Cardinality(at) = 1
  <2>1. PICK i \in DOMAIN q : q[i] = c
        BY <1>6 DEF Range
  <2>2. at = {i}
        BY <1>6, <2>1 DEF Distinct
  <2> QED BY <2>2, FS_Singleton
<1> QED BY <1>4, <1>5, <1>6

\* A row is a result, and no result is Open.
LEMMA RowIsResult ==
    ASSUME NEW r \in Result
    PROVE  /\ Row(r) \in [code : {return_code_}, time : Times]
           /\ Row(r) # Open
      BY LifecycleAssumption DEF Result, Row, return_code_

LEMMA EndingIsNotOpen == Open \notin Ending
      BY LifecycleAssumption DEF Ending
-----------------------------------------------------------------------------
(* Type correctness *)

\* Ingesting the end r, recorded or refused, keeps the table one of results.
LEMMA RecordTypes ==
    ASSUME Types, NEW r \in Result, Record(r)
    PROVE  /\ executor_table' \in Seq([code : {return_code_}, time : Times] \cup {Open})
           /\ Len(executor_table') = Len(executor_table)
           /\ refused' \subseteq Commands
           /\ faults' \in 0..MaxFaults
<1> DEFINE S == [code : {return_code_}, time : Times] \cup {Open}
<1>1. executor_table \in Seq(S) /\ faults \in 0..MaxFaults /\ refused \subseteq Commands
      BY DEF Types, TypeOK
<1>2. Row(r) \in S
      BY RowIsResult
<1>3. CASE Update(r) /\ UNCHANGED <<refused, faults>>
  <2>1. executor_table' = [executor_table EXCEPT ![r.id] = Row(r)]
        BY <1>3 DEF Update
  <2>a. executor_table \in [1..Len(executor_table) -> S]
        BY <1>1
  <2> HIDE DEF S
  <2>2. executor_table' \in [1..Len(executor_table) -> S]
        BY <1>2, <2>1, <2>a
  <2>3. executor_table' \in Seq(S) /\ Len(executor_table') = Len(executor_table)
        BY <1>1, <2>2
  <2> QED BY <1>1, <1>3, <2>3 DEF S
<1>4. CASE Fault /\ refused' = refused \cup {r.id} /\ UNCHANGED executor_table
  <2>1. r.id \in Commands
        BY DEF Result
  <2> QED BY <1>1, <1>4, <2>1, LifecycleAssumption DEF Fault
<1> QED BY <1>3, <1>4 DEF Record

\* The initial state has the types.
LEMMA TypesInit == Init => Types
<1> SUFFICES ASSUME Init PROVE Types
    OBVIOUS
<1>1. /\ executor_table \in Seq([code : {return_code_}, time : Times] \cup {Open})
      /\ Len(executor_table) <= MaxCommands
      /\ response_queue_ \in Seq(Commands)
      /\ res \in Seq(Seq(Commands)) /\ Len(res) <= 1
      /\ pending \in Seq(Result) /\ log \in Seq(Result)
      BY LifecycleAssumption DEF Init
<1>2. \A i \in DOMAIN res : res[i] \in Seq(Commands)
      BY DEF Init
<1>3. /\ starts \in [Commands -> Nat] /\ ended \in [Commands -> Ending \cup {Open}]
      /\ inserted \in 0..MaxCommands /\ faults \in 0..MaxFaults
      BY LifecycleAssumption DEF Init
<1> QED BY <1>1, <1>2, <1>3 DEF Init, Types, TypeOK

\* Every action of terminal, server, reporter and connection keeps them.
LEMMA TypesStep == Types /\ [Next]_vars => Types'
<1> SUFFICES ASSUME Types, [Next]_vars PROVE Types'
    OBVIOUS
<1> USE DEF Types, TypeOK, tableVars, linkVars, answerVars, reporterVars, restVars
<1>a. /\ Types /\ MaxCommands \in Nat /\ MaxFaults \in Nat
      /\ DOMAIN executor_table = 1..Len(executor_table)
      BY LifecycleAssumption
<1>b. \A q \in Seq(Commands) :
         /\ <<q>> \in Seq(Seq(Commands)) /\ Len(<<q>>) = 1
         /\ \A i \in DOMAIN <<q>> : <<q>>[i] \in Seq(Commands)
      OBVIOUS
<1>c. pending # <<>> => Head(pending) \in Result /\ Tail(pending) \in Seq(Result)
      BY <1>a
<1>d. /\ <<>> \in Seq(Seq(Commands)) /\ Len(<<>>) = 0
      /\ <<>> \in Seq(Commands) /\ DOMAIN <<>> = {}
      OBVIOUS
<1>e. res # <<>> => res[1] \in Seq(Commands)
      BY <1>a
<1>1. CASE InsertExecutor
      BY <1>1, <1>a DEF InsertExecutor
<1>2. CASE AddResponse
  <2>1. inserted \in Commands
        BY <1>2, <1>a DEF AddResponse, Commands
  <2>2. response_queue_' \in Seq(Commands) /\ inserted' \in 0..MaxCommands
        BY <1>2, <1>a, <2>1 DEF AddResponse
  <2>3. UNCHANGED <<tableVars, linkVars, reporterVars, restVars>>
        BY <1>2 DEF AddResponse
  <2> QED BY <1>a, <2>2, <2>3
<1>3. CASE Report
  <2>1. pending # <<>> /\ log' = Append(log, Head(pending)) /\ pending' = pending
        BY <1>3 DEF Report, Queue!Ingest
  <2>2. Record(Head(pending))
        BY <1>3 DEF Report
  <2> QED BY <1>3, <1>a, <1>b, <1>c, <1>d, <2>1, <2>2, RecordTypes DEF Report, Answer
<1>4. CASE ReportOther
  <2>1. response_queue_' = <<>> /\ res' = <<response_queue_>>
        BY <1>4 DEF ReportOther, Answer
  <2>2. sent' \in BOOLEAN /\ UNCHANGED <<tableVars, inserted, conn, cut, reporterVars, restVars>>
        BY <1>4 DEF ReportOther
  <2> QED BY <1>a, <1>b, <1>d, <2>1, <2>2
<1>5. CASE ReportLate
  <2>1. pending' = pending /\ log' \in Seq(Result) /\ Last(log') \in Result
    <3>1. \A r \in Result : Append(log, r) \in Seq(Result) /\ Last(Append(log, r)) = r
          BY <1>a DEF Last
    <3> QED BY <1>5, <1>c, <3>1 DEF ReportLate, Queue!Ingest, Queue!Repeat
  <2>2. Record(Last(log'))
        BY <1>5 DEF ReportLate
  <2> QED BY <1>5, <1>a, <2>1, <2>2, RecordTypes DEF ReportLate
<1>6. CASE SendTcpRequest
  <2>1. starts' \in [Commands -> Nat] /\ ended' = ended
    <3> DEFINE n(c) == Cardinality({i \in DOMAIN res[1] : res[1][i] = c})
    <3>1. \A c : n(c) \in Nat
          BY <1>6, <1>e, Occurrences DEF SendTcpRequest
    <3>2. starts' = [c \in Commands |-> starts[c] + n(c)] /\ ended' = ended
          BY <1>6 DEF SendTcpRequest, RunCommands
    <3> HIDE DEF n
    <3> QED BY <1>a, <3>1, <3>2
  <2>2. pending' \in Seq(Result) /\ log' = log
        BY <1>6, <1>a, <1>c DEF SendTcpRequest, Queue!Confirm
  <2>3. res' = <<>> /\ sent' \in BOOLEAN
        /\ UNCHANGED <<tableVars, inserted, response_queue_, conn, cut, alive, faults>>
        BY <1>6 DEF SendTcpRequest
  <2> QED BY <1>a, <1>d, <2>1, <2>2, <2>3
<1>7. ASSUME NEW c \in Commands, NEW how \in Ending, NotifyEnd(c, how) PROVE Types'
  <2>1. [id |-> c, code |-> return_code_, time |-> how.time] \in Result
        BY DEF Result, Ending
  <2> QED BY <1>7, <1>a, <2>1 DEF NotifyEnd, Queue!Accept
<1>8. ASSUME Drop PROVE /\ res' = <<>> /\ response_queue_' = <<>> /\ inserted' = 0
                        /\ sent' = FALSE /\ conn' = FALSE /\ cut' \subseteq Commands
  <2>1. Range(response_queue_) \subseteq Commands
        BY <1>a DEF Range
  <2>2. res # <<>> => Range(res[1]) \subseteq Commands
        BY <1>e DEF Range
  <2>3. {inserted} \ {0} \subseteq Commands
        BY <1>a DEF Commands
  <2> QED BY <1>8, <1>a, <2>1, <2>2, <2>3 DEF Drop
<1>9. CASE Disconnect
      BY <1>9, <1>8, <1>a, <1>d DEF Disconnect, Fault
<1>10. CASE Reconnect
      BY <1>10 DEF Reconnect
<1>11. CASE ReporterEnds
  <2>1. Drop /\ alive' \in BOOLEAN
        /\ UNCHANGED <<tableVars, reporterVars, pending, log, faults>>
        BY <1>11 DEF ReporterEnds
  <2> QED BY <1>8, <1>a, <1>d, <2>1
<1>12. CASE UNCHANGED vars
      BY <1>12 DEF vars
<1> QED BY <1>1, <1>2, <1>3, <1>4, <1>5, <1>6, <1>7, <1>9, <1>10, <1>11, <1>12
        DEF Next, Ends

\* The state of a command's way keeps its types, whatever is lost or repeated.
THEOREM LifecycleTypes == Spec => []TypeOK
<1>1. Types => TypeOK
      BY DEF Types
<1> QED BY <1>1, TypesInit, TypesStep, PTL DEF Spec
-----------------------------------------------------------------------------
(* A command is in one place *)

\* What RunCommands adds when the answer names no command twice.
LEMMA StartsAdded ==
    ASSUME Types, OnePlace, SendTcpRequest
    PROVE  \A c \in Commands :
              starts'[c] = IF c \in Carried THEN starts[c] + 1 ELSE starts[c]
<1> DEFINE n(c) == Cardinality({i \in DOMAIN res[1] : res[1][i] = c})
<1>1. res # <<>> /\ res[1] \in Seq(Commands) /\ Distinct(res[1])
      BY DEF Types, TypeOK, OnePlace, SendTcpRequest
<1>2. \A c \in Commands : n(c) = IF c \in Carried THEN 1 ELSE 0
      BY <1>1, Occurrences DEF Carried
<1>3. starts' = [c \in Commands |-> starts[c] + n(c)]
      BY DEF SendTcpRequest, RunCommands
<1>4. starts \in [Commands -> Nat]
      BY DEF Types, TypeOK
<1> HIDE DEF n
<1> QED BY <1>2, <1>3, <1>4

\* The places hold commands only.
LEMMA PlacesTypes ==
    ASSUME Types
    PROVE  Adding \subseteq Commands /\ Queued \subseteq Commands /\ Carried \subseteq Commands
<1>1. Adding \subseteq Commands
      BY LifecycleAssumption DEF Types, TypeOK, Adding, Commands
<1>2. Queued \subseteq Commands
      BY DEF Types, TypeOK, Queued, Range
<1>3. Carried \subseteq Commands
      BY DEF Types, TypeOK, Carried, Range
<1> QED BY <1>1, <1>2, <1>3

\* An answer moves the whole queue, in its order.
LEMMA AnswerMoves ==
    ASSUME res = <<>>, Answer
    PROVE  /\ Carried = {} /\ Carried' = Queued /\ Queued' = {}
           /\ Distinct(response_queue_) => Distinct(response_queue_') /\ Distinct(res'[1])
<1>1. res' = <<response_queue_>> /\ response_queue_' = <<>>
      BY DEF Answer
<1>2. res' # <<>> /\ res'[1] = response_queue_
      BY <1>1
<1>3. Carried' = Queued
      BY <1>2 DEF Carried, Queued
<1>4. Queued' = {} /\ Distinct(response_queue_')
      BY <1>1, RangeOfEmpty DEF Queued, Distinct
<1> QED BY <1>2, <1>3, <1>4 DEF Carried

\* A connection takes with it all that was on its way.
LEMMA DropMoves ==
    ASSUME Drop
    PROVE  /\ Adding' = {} /\ Queued' = {} /\ Carried' = {}
           /\ cut' = cut \cup OnItsWay
           /\ res' = <<>> /\ Distinct(response_queue_')
<1>1. res' = <<>> /\ response_queue_' = <<>> /\ inserted' = 0
      BY DEF Drop
<1>2. Adding' = {} /\ Queued' = {} /\ Carried' = {}
      BY <1>1, RangeOfEmpty DEF Adding, Queued, Carried
<1>3. cut' = cut \cup OnItsWay
      BY DEF Drop, OnItsWay, Adding, Queued, Carried
<1> QED BY <1>1, <1>2, <1>3 DEF Distinct

LEMMA PlacesInit == Init => OnePlace /\ RowFirst
<1> SUFFICES ASSUME Init PROVE OnePlace /\ RowFirst
    OBVIOUS
<1>1. Adding = {} /\ Queued = {} /\ Carried = {} /\ Distinct(response_queue_) /\ res = <<>>
      BY RangeOfEmpty DEF Init, Adding, Queued, Carried, Distinct
<1>2. \A c \in Commands : starts[c] = 0
      BY DEF Init
<1> QED BY <1>1, <1>2 DEF Init, OnePlace, RowFirst, OnItsWay

\* Every step takes a command from one place to the next and leaves it nowhere
\* else: INSERT, queue, answer and start in this order, or lost on the way.
LEMMA PlacesStep ==
    Types /\ OnePlace /\ RowFirst /\ Types' /\ [Next]_vars => OnePlace' /\ RowFirst'
<1> SUFFICES ASSUME Types, OnePlace, RowFirst, Types', [Next]_vars
             PROVE  OnePlace' /\ RowFirst'
    OBVIOUS
<1> USE DEF tableVars, linkVars, answerVars, reporterVars, restVars
<1>a. /\ Adding \subseteq Commands /\ Queued \subseteq Commands /\ Carried \subseteq Commands
      /\ starts \in [Commands -> Nat] /\ cut \subseteq Commands
      /\ Len(executor_table) \in Nat /\ Len(executor_table) <= MaxCommands
      /\ response_queue_ \in Seq(Commands)
      /\ MaxCommands \in Nat
      BY PlacesTypes, LifecycleAssumption DEF Types, TypeOK
<1>b. ASSUME UNCHANGED <<inserted, response_queue_, res>>
      PROVE  /\ Adding' = Adding /\ Queued' = Queued /\ Carried' = Carried
             /\ Distinct(response_queue_)' = Distinct(response_queue_)
             /\ Distinct(res[1])' = Distinct(res[1])
      BY <1>b DEF Adding, Queued, Carried
<1>c. ASSUME UNCHANGED <<inserted, response_queue_, res, starts, cut>>,
             Len(executor_table)' = Len(executor_table)
      PROVE  OnePlace' /\ RowFirst'
      BY <1>b, <1>c DEF OnePlace, RowFirst, OnItsWay
<1>d. ASSUME res = <<>>, Answer, UNCHANGED <<inserted, starts, cut>>,
             Len(executor_table)' = Len(executor_table)
      PROVE  OnePlace' /\ RowFirst'
  <2>1. Adding' = Adding
        BY <1>d DEF Adding
  <2> QED BY <1>d, <2>1, AnswerMoves DEF OnePlace, RowFirst, OnItsWay
<1>e. ASSUME Drop, UNCHANGED <<starts, executor_table>> PROVE OnePlace' /\ RowFirst'
      BY <1>e, DropMoves DEF OnePlace, RowFirst, OnItsWay
<1>1. CASE InsertExecutor
  <2>1. /\ Len(executor_table') = Len(executor_table) + 1
        /\ inserted = 0 /\ inserted' = Len(executor_table) + 1
        /\ UNCHANGED <<response_queue_, res, starts, cut>>
        BY <1>1, <1>a DEF InsertExecutor, Types, TypeOK
  <2>2. /\ Adding = {} /\ Adding' = {Len(executor_table) + 1}
        /\ Queued' = Queued /\ Carried' = Carried
        BY <2>1, <1>a DEF Adding, Queued, Carried
  <2>3. Len(executor_table) + 1 \in Commands
        BY <1>1, <1>a DEF InsertExecutor, Commands
  <2>4. Len(executor_table) + 1 \notin OnItsWay \cup cut
        /\ starts[Len(executor_table) + 1] = 0
        BY <1>a, <2>3 DEF RowFirst
  <2>5. /\ Distinct(response_queue_)' = Distinct(response_queue_)
        /\ Distinct(res[1])' = Distinct(res[1])
        BY <2>1
  <2>6. OnePlace'
        BY <2>1, <2>2, <2>4, <2>5 DEF OnePlace, OnItsWay
  <2>7. \A c \in Commands : c > Len(executor_table) + 1 =>
           c > Len(executor_table) /\ c # Len(executor_table) + 1
        BY <1>a DEF Commands
  <2>8. RowFirst'
        BY <2>1, <2>2, <2>7 DEF RowFirst, OnItsWay
  <2> QED BY <2>6, <2>8
<1>2. CASE AddResponse
  <2>1. inserted \in Commands /\ Adding = {inserted} /\ Adding' = {}
        BY <1>2, <1>a DEF AddResponse, Adding
  <2>2. Queued' = Queued \cup {inserted}
        BY <1>2, <1>a, <2>1, RangeOfAppend DEF AddResponse, Queued
  <2>3. Distinct(response_queue_')
        BY <1>2, <1>a, <2>1, DistinctAppend DEF AddResponse, Queued, OnePlace
  <2>4. Carried' = Carried /\ UNCHANGED <<res, starts, cut, executor_table>>
        BY <1>2 DEF AddResponse, Carried
  <2> QED BY <1>a, <2>1, <2>2, <2>3, <2>4 DEF OnePlace, RowFirst, OnItsWay
<1>3. CASE Report
  <2>1. pending # <<>> /\ Head(pending) \in Result /\ Record(Head(pending))
        BY <1>3 DEF Report, Queue!Ingest, Types, TypeOK
  <2> QED BY <1>3, <1>d, <2>1, RecordTypes DEF Report
<1>4. CASE ReportOther
      BY <1>4, <1>d DEF ReportOther
<1>5. CASE ReportLate
  <2>1. Record(Last(log'))
        BY <1>5 DEF ReportLate
  <2>2. Len(executor_table)' = Len(executor_table)
        BY <2>1, <1>a DEF Record, Update, Types, TypeOK
  <2> QED BY <1>5, <1>c, <2>2 DEF ReportLate
<1>6. CASE SendTcpRequest
  <2>1. Carried' = {} /\ Adding' = Adding /\ Queued' = Queued /\ res' = <<>>
        BY <1>6 DEF SendTcpRequest, Adding, Queued, Carried
  <2>2. cut' = cut /\ Len(executor_table)' = Len(executor_table)
        /\ Distinct(response_queue_)' = Distinct(response_queue_)
        BY <1>6 DEF SendTcpRequest
  <2>3. \A c \in Commands :
           starts'[c] = IF c \in Carried THEN starts[c] + 1 ELSE starts[c]
        BY <1>6, StartsAdded
  <2>4. \A c \in Commands : c \in Carried => starts'[c] = 1
        BY <2>3 DEF OnePlace, OnItsWay
  <2>5. \A c \in Commands : c \notin Carried => starts'[c] = starts[c]
        BY <2>3
  <2>6. OnePlace'
        BY <2>1, <2>2, <2>4, <2>5 DEF OnePlace, OnItsWay
  <2>7. RowFirst'
        BY <2>1, <2>2, <2>4, <2>5 DEF RowFirst, OnItsWay
  <2> QED BY <2>6, <2>7
<1>7. ASSUME NEW c \in Commands, NEW how \in Ending, NotifyEnd(c, how)
      PROVE  OnePlace' /\ RowFirst'
      BY <1>7, <1>c DEF NotifyEnd
<1>8. CASE Disconnect
      BY <1>8, <1>e DEF Disconnect
<1>9. CASE Reconnect
      BY <1>9, <1>c DEF Reconnect
<1>10. CASE ReporterEnds
      BY <1>10, <1>e DEF ReporterEnds
<1>11. CASE UNCHANGED vars
      BY <1>11, <1>c DEF vars
<1> QED BY <1>1, <1>2, <1>3, <1>4, <1>5, <1>6, <1>7, <1>8, <1>9, <1>10, <1>11
        DEF Next, Ends

\* A command is started at most once, and not at all when its response was lost
\* with a connection: report() empties the queue it answers with, and a new
\* connection begins with an empty one.
THEOREM StartedAtMostOnce == Spec => []RunsOnce
<1>1. OnePlace => RunsOnce
      BY DEF OnePlace, RunsOnce
<1> QED BY <1>1, TypesInit, TypesStep, PlacesInit, PlacesStep, PTL DEF Spec
-----------------------------------------------------------------------------
(* A row tells the end of its own command *)

\* The end that is ingested goes into the row of its command and no other.
LEMMA RecordTells ==
    ASSUME Types, RowTellsEnd, NEW r \in Result, TrueEnd(r), Record(r), ended' = ended
    PROVE  RowTellsEnd'
<1>1. executor_table \in Seq([code : {return_code_}, time : Times] \cup {Open})
      BY DEF Types, TypeOK
<1>2. CASE Update(r)
  <2>1. executor_table' = [executor_table EXCEPT ![r.id] = Row(r)]
        BY <1>2 DEF Update
  <2>2. DOMAIN executor_table' = DOMAIN executor_table
        BY <2>1
  <2>3. \A c \in DOMAIN executor_table :
           executor_table'[c] = IF c = r.id THEN Row(r) ELSE executor_table[c]
        BY <1>1, <2>1
  <2>4. Row(r).time = r.time
        BY DEF Row
  <2> QED BY <2>2, <2>3, <2>4 DEF RowTellsEnd, TrueEnd
<1>3. CASE UNCHANGED executor_table
      BY <1>3 DEF RowTellsEnd
<1> QED BY <1>2, <1>3 DEF Record

\* A command has ended once: how it ended does not change any more.
LEMMA EndIsFinal ==
    ASSUME Types, [Next]_vars, NEW c \in Commands, ended[c] # Open
    PROVE  ended'[c] = ended[c]
<1> USE DEF tableVars, linkVars, answerVars, reporterVars, restVars
<1>1. ASSUME NEW d \in Commands, NEW how \in Ending, NotifyEnd(d, how)
      PROVE  ended'[c] = ended[c]
      BY <1>1 DEF NotifyEnd, Types, TypeOK
<1> QED BY <1>1 DEF Next, InsertExecutor, AddResponse, Report, ReportOther, ReportLate,
                    SendTcpRequest, RunCommands, Ends, Disconnect, Reconnect,
                    ReporterEnds, vars

LEMMA EndsInit == Init => EndsAreTrue /\ RowTellsEnd
      BY DEF Init, EndsAreTrue, RowTellsEnd

\* A report says of a command how it ended, when it is made, while it waits and
\* when it is ingested, the first time or again; so does the row it goes into.
LEMMA EndsStep ==
    Types /\ OnePlace /\ EndsAreTrue /\ RowTellsEnd /\ Types' /\ [Next]_vars
        => EndsAreTrue' /\ RowTellsEnd'
<1> SUFFICES ASSUME Types, OnePlace, EndsAreTrue, RowTellsEnd, Types', [Next]_vars
             PROVE  EndsAreTrue' /\ RowTellsEnd'
    OBVIOUS
<1> USE DEF tableVars, linkVars, answerVars, reporterVars, restVars
<1>a. /\ pending \in Seq(Result) /\ log \in Seq(Result)
      /\ starts \in [Commands -> Nat] /\ ended \in [Commands -> Ending \cup {Open}]
      BY DEF Types, TypeOK
<1> DEFINE StillTrue(r) == ended'[r.id] # Open /\ r.time = ended'[r.id].time
<1>b. \A r \in Result : TrueEnd(r) => StillTrue(r)
      BY EndIsFinal DEF TrueEnd, Result
<1>c. /\ \A i \in DOMAIN pending : pending[i] \in Result /\ TrueEnd(pending[i])
      /\ \A i \in DOMAIN log : log[i] \in Result /\ TrueEnd(log[i])
      BY <1>a DEF EndsAreTrue
<1>d. pending # <<>> => /\ Head(pending) \in Result /\ TrueEnd(Head(pending))
                        /\ Tail(pending) \in Seq(Result)
                        /\ \A i \in DOMAIN Tail(pending) : i + 1 \in DOMAIN pending
                                                 /\ Tail(pending)[i] = pending[i + 1]
      BY <1>a, <1>c
<1>e. ASSUME NEW r \in Result, TrueEnd(r), log' = Append(log, r)
      PROVE  \A i \in DOMAIN log' : StillTrue(log'[i])
  <2>1. \A i \in DOMAIN log' : \/ i \in DOMAIN log /\ log'[i] = log[i]
                              \/ log'[i] = r
        BY <1>a, <1>e
  <2> QED BY <1>b, <1>c, <1>e, <2>1
<1>f. ASSUME UNCHANGED <<starts, ended>> PROVE \A c \in Commands : ended'[c] # Open => starts'[c] = 1
      BY <1>f DEF EndsAreTrue
<1>g. ASSUME UNCHANGED <<ended, pending, log, executor_table, starts>>
      PROVE  EndsAreTrue' /\ RowTellsEnd'
      BY <1>g DEF EndsAreTrue, RowTellsEnd, TrueEnd
<1>h. ASSUME \A c \in Commands : ended'[c] # Open => starts'[c] = 1,
             \A i \in DOMAIN pending' : StillTrue(pending'[i]),
             \A i \in DOMAIN log' : StillTrue(log'[i])
      PROVE  EndsAreTrue'
      BY <1>h DEF EndsAreTrue, TrueEnd
<1> HIDE DEF StillTrue
<1>1. CASE InsertExecutor
  <2>1. executor_table' = Append(executor_table, Open)
        /\ UNCHANGED <<ended, pending, log, starts>>
        BY <1>1 DEF InsertExecutor
  <2>2. \A c \in DOMAIN executor_table' : executor_table'[c] # Open =>
           c \in DOMAIN executor_table /\ executor_table'[c] = executor_table[c]
    <3> DEFINE S == [code : {return_code_}, time : Times] \cup {Open}
    <3>1. executor_table \in Seq(S) /\ Open \in S
          BY DEF Types, TypeOK
    <3> HIDE DEF S
    <3> QED BY <2>1, <3>1
  <2> QED BY <2>1, <2>2 DEF EndsAreTrue, RowTellsEnd, TrueEnd
<1>2. CASE AddResponse
      BY <1>2, <1>g DEF AddResponse
<1>3. CASE Report
  <2>1. /\ pending # <<>> /\ log' = Append(log, Head(pending)) /\ pending' = pending
        /\ Record(Head(pending)) /\ UNCHANGED <<starts, ended>>
        BY <1>3 DEF Report, Queue!Ingest
  <2>2. RowTellsEnd'
        BY <1>d, <2>1, RecordTells
  <2>3. \A i \in DOMAIN log' : StillTrue(log'[i])
        BY <1>d, <1>e, <2>1
  <2>4. \A i \in DOMAIN pending' : StillTrue(pending'[i])
        BY <1>b, <1>c, <2>1
  <2> QED BY <1>f, <1>h, <2>1, <2>2, <2>3, <2>4
<1>4. CASE ReportOther
      BY <1>4, <1>g DEF ReportOther
<1>5. CASE ReportLate
  <2>1. PICK r \in Result : TrueEnd(r) /\ log' = Append(log, r) /\ pending' = pending
    <3>1. CASE Queue!Ingest
          BY <1>d, <3>1 DEF Queue!Ingest
    <3>2. CASE Queue!Repeat
          BY <1>a, <1>c, <3>2 DEF Queue!Repeat, Queue!InLog
    <3> QED BY <1>5, <3>1, <3>2 DEF ReportLate
  <2>2. Last(log') = r
        BY <1>a, <2>1 DEF Last
  <2>3. Record(r) /\ UNCHANGED <<starts, ended>>
        BY <1>5, <2>2 DEF ReportLate
  <2>4. RowTellsEnd'
        BY <2>1, <2>3, RecordTells
  <2>5. \A i \in DOMAIN log' : StillTrue(log'[i])
        BY <1>e, <2>1
  <2>6. \A i \in DOMAIN pending' : StillTrue(pending'[i])
        BY <1>b, <1>c, <2>1
  <2> QED BY <1>f, <1>h, <2>3, <2>4, <2>5, <2>6
<1>6. CASE SendTcpRequest
  <2>1. UNCHANGED <<ended, log, executor_table>>
        BY <1>6 DEF SendTcpRequest, RunCommands, Queue!Confirm
  <2>2. \A i \in DOMAIN pending' : StillTrue(pending'[i])
        BY <1>6, <1>b, <1>c, <1>d DEF SendTcpRequest, Queue!Confirm
  <2>3. \A i \in DOMAIN log' : StillTrue(log'[i])
        BY <1>b, <1>c, <2>1
  <2>4. \A c \in Commands : starts[c] = 1 => starts'[c] = 1
        BY <1>6, StartsAdded DEF OnePlace, OnItsWay
  <2>5. RowTellsEnd'
        BY <2>1 DEF RowTellsEnd
  <2> QED BY <1>h, <2>1, <2>2, <2>3, <2>4, <2>5 DEF EndsAreTrue
<1>7. ASSUME NEW c \in Commands, NEW how \in Ending, NotifyEnd(c, how)
      PROVE  EndsAreTrue' /\ RowTellsEnd'
  <2> DEFINE r == [id |-> c, code |-> return_code_, time |-> how.time]
  <2>1. /\ ended' = [ended EXCEPT ![c] = how] /\ pending' = Append(pending, r)
        /\ starts[c] > 0 /\ ended[c] = Open
        /\ UNCHANGED <<executor_table, starts, log>>
        BY <1>7 DEF NotifyEnd, Queue!Accept
  <2>2. r \in Result /\ StillTrue(r)
        BY <1>a, <2>1, EndingIsNotOpen DEF Result, Ending, StillTrue
  <2>3. \A i \in DOMAIN pending' : \/ i \in DOMAIN pending /\ pending'[i] = pending[i]
                                  \/ pending'[i] = r
        BY <1>a, <2>1, <2>2
  <2>4. \A i \in DOMAIN pending' : StillTrue(pending'[i])
        BY <1>b, <1>c, <2>2, <2>3
  <2>5. \A i \in DOMAIN log' : StillTrue(log'[i])
        BY <1>b, <1>c, <2>1
  <2>6. \A d \in Commands : ended'[d] # Open => starts'[d] = 1
        BY <1>a, <2>1 DEF EndsAreTrue, OnePlace
  <2>7. RowTellsEnd'
        BY <1>a, <2>1 DEF RowTellsEnd
  <2> QED BY <1>h, <2>4, <2>5, <2>6, <2>7
<1>8. CASE Disconnect
      BY <1>8, <1>g DEF Disconnect
<1>9. CASE Reconnect
      BY <1>9, <1>g DEF Reconnect
<1>10. CASE ReporterEnds
      BY <1>10, <1>g DEF ReporterEnds
<1>11. CASE UNCHANGED vars
      BY <1>11, <1>g DEF vars
<1> QED BY <1>1, <1>2, <1>3, <1>4, <1>5, <1>6, <1>7, <1>8, <1>9, <1>10, <1>11
        DEF Next, Ends

LEMMA LifecycleInvariant == Spec => []LifecycleInv
      BY TypesInit, TypesStep, PlacesInit, PlacesStep, EndsInit, EndsStep, PTL
      DEF Spec, LifecycleInv

\* A row of executor_table that has a result has the end of its own command,
\* whatever order commands end in and however often a report is repeated.
THEOREM RowsTellEnds == Spec => []RowTellsEnd
<1>1. LifecycleInv => RowTellsEnd
      BY DEF LifecycleInv
<1> QED BY <1>1, LifecycleInvariant, PTL
-----------------------------------------------------------------------------
(* CommandPromise *)

HasRow(c) == c <= Len(executor_table)

\* What status says of a command, read from the state.
StatusRead(c) ==
    /\ ~HasRow(c) <=> status[c] = "new"
    /\ HasRow(c) /\ executor_table[c] # Open <=> status[c] = "recorded"
    /\ HasRow(c) /\ executor_table[c] = Open /\ ended[c] # Open <=> status[c] = "ended"
    /\ HasRow(c) /\ executor_table[c] = Open /\ ended[c] = Open /\ starts[c] > 0
          <=> status[c] = "running"
    /\ HasRow(c) /\ executor_table[c] = Open /\ ended[c] = Open /\ ~(starts[c] > 0)
          /\ c \in cut <=> status[c] = "lost"
    /\ HasRow(c) /\ executor_table[c] = Open /\ ended[c] = Open /\ ~(starts[c] > 0)
          /\ c \notin cut <=> status[c] = "waiting"

LEMMA StatusReading == Types => \A c \in Commands : StatusRead(c)
<1> SUFFICES ASSUME Types, NEW c \in Commands PROVE StatusRead(c)
    OBVIOUS
<1>1. Len(executor_table) \in Nat /\ c \in Nat
      BY DEF Types, TypeOK, Commands
<1>2. CASE c > Len(executor_table)
  <2>1. status[c] = "new"
        BY <1>1, <1>2 DEF status, StatusOf
  <2> QED BY <1>1, <1>2, <2>1 DEF StatusRead, HasRow
<1>3. CASE c <= Len(executor_table)
  <2>1. status[c] = IF executor_table[c] # Open THEN "recorded"
                    ELSE IF ended[c] # Open THEN "ended"
                    ELSE IF starts[c] > 0 THEN "running"
                    ELSE IF c \in cut THEN "lost" ELSE "waiting"
        BY <1>1, <1>3 DEF status, StatusOf
  <2> QED BY <1>3, <2>1 DEF StatusRead, HasRow
<1> QED BY <1>1, <1>2, <1>3

LEMMA StatusFunction == status = [c \in Commands |-> status[c]]
      BY DEF status

\* Commands that all go from one status to another, while the others stay.
LEMMA MovesTogether ==
    ASSUME NEW S \in SUBSET Commands, NEW from, NEW to,
           \A c \in S : status[c] = from /\ status'[c] = to,
           \A c \in Commands \ S : status'[c] = status[c]
    PROVE  Promise!Move(S, from, to) \/ status' = status
<1>1. /\ status = [c \in Commands |-> status[c]]
      /\ (status = [c \in Commands |-> status[c]])'
      BY StatusFunction, PTL
<1>2. status' = [c \in Commands |-> IF c \in S THEN to ELSE status[c]]
      BY <1>1
<1>3. S = {} => status' = status
      BY <1>1
<1> QED BY <1>2, <1>3 DEF Promise!Move
LEMMA PromiseInit == Init => Promise!Init
<1> SUFFICES ASSUME Init PROVE Promise!Init
    OBVIOUS
<1>1. \A c \in Commands : status[c] = "new"
  <2>1. Types
        BY TypesInit
  <2>2. \A c \in Commands : ~HasRow(c)
        BY DEF Init, HasRow, Commands
  <2> QED BY <2>1, <2>2, StatusReading DEF StatusRead
<1> QED BY <1>1, StatusFunction DEF Promise!Init

\* Recording an end takes its command from "ended" to "recorded", unless it is
\* there already or the statement is refused.
LEMMA RecordMoves ==
    ASSUME LifecycleInv, Types', NEW r \in Result, TrueEnd(r), Record(r),
           UNCHANGED <<starts, ended, cut>>
    PROVE  [Promise!Next]_status
<1>1. \A c \in Commands : StatusRead(c) /\ StatusRead(c)'
  <2>1. (Types => \A c \in Commands : StatusRead(c))'
        BY StatusReading, PTL
  <2> QED BY <2>1, StatusReading DEF LifecycleInv
<1>2. r.id \in Commands /\ ended[r.id] # Open
      BY DEF Result, TrueEnd
<1>3. executor_table \in Seq([code : {return_code_}, time : Times] \cup {Open})
      BY DEF LifecycleInv, Types, TypeOK
<1>4. Len(executor_table') = Len(executor_table)
      BY RecordTypes DEF LifecycleInv
<1>5. CASE Update(r)
  <2>1. \A c \in Commands : HasRow(c) =>
           executor_table'[c] = IF c = r.id THEN Row(r) ELSE executor_table[c]
        BY <1>3, <1>5 DEF Update, HasRow, Commands
  <2>2. HasRow(r.id)
        BY <1>2, <1>3 DEF LifecycleInv, EndsAreTrue, RowFirst, HasRow, Commands
  <2>3. \A c \in Commands \ {r.id} : status'[c] = status[c]
        BY <1>1, <1>4, <2>1 DEF StatusRead, HasRow
  <2>4. status'[r.id] = "recorded" /\ status[r.id] \in {"ended", "recorded"}
        BY <1>1, <1>2, <1>4, <2>1, <2>2, RowIsResult DEF StatusRead, HasRow
  <2>5. CASE status[r.id] = "ended"
    <3>1. Promise!Move({r.id}, "ended", "recorded") \/ status' = status
          BY <1>2, <2>3, <2>4, <2>5, MovesTogether
    <3> QED BY <1>2, <3>1 DEF Promise!Next
  <2>6. CASE status[r.id] = "recorded"
    <3>1. Promise!Move({}, "ended", "recorded") \/ status' = status
          BY <1>2, <2>3, <2>4, <2>6, MovesTogether
    <3> QED BY <3>1 DEF Promise!Move
  <2> QED BY <2>4, <2>5, <2>6
<1>6. CASE UNCHANGED executor_table
      BY <1>6 DEF status, StatusOf
<1> QED BY <1>5, <1>6 DEF Record

\* Every step is one that CommandPromise allows or changes no status.
LEMMA PromiseStep == LifecycleInv /\ Types' /\ [Next]_vars => [Promise!Next]_status
<1> SUFFICES ASSUME LifecycleInv, Types', [Next]_vars PROVE [Promise!Next]_status
    OBVIOUS
<1> USE DEF tableVars, linkVars, answerVars, reporterVars, restVars
<1>a. Types /\ OnePlace /\ RowFirst /\ EndsAreTrue /\ RowTellsEnd
      BY DEF LifecycleInv
<1>b. \A c \in Commands : StatusRead(c) /\ StatusRead(c)'
  <2>1. (Types => \A c \in Commands : StatusRead(c))'
        BY StatusReading, PTL
  <2> QED BY <2>1, <1>a, StatusReading
<1>c. ASSUME UNCHANGED <<executor_table, starts, ended, cut>> PROVE status' = status
      BY <1>c DEF status, StatusOf
<1>d. /\ starts \in [Commands -> Nat] /\ ended \in [Commands -> Ending \cup {Open}]
      /\ Len(executor_table) \in Nat /\ Commands \subseteq Nat
      BY <1>a DEF Types, TypeOK, Commands
<1>e. \A c \in Commands : HasRow(c) /\ ended[c] = Open => executor_table[c] = Open
  <2>1. \A c \in Commands : HasRow(c) => c \in DOMAIN executor_table
        BY <1>a, <1>d DEF HasRow, Types, TypeOK, Commands
  <2> QED BY <1>a, <2>1 DEF RowTellsEnd
<1>f. \A c \in OnItsWay : c \in Commands /\ status[c] = "waiting"
  <2>1. \A c \in OnItsWay : c \in Commands /\ c \notin cut /\ starts[c] = 0
        BY <1>a, PlacesTypes DEF OnePlace, OnItsWay
  <2>2. \A c \in OnItsWay : HasRow(c) /\ ended[c] = Open
        BY <1>a, <1>d, <2>1 DEF RowFirst, EndsAreTrue, HasRow
  <2> QED BY <1>b, <1>e, <2>1, <2>2 DEF StatusRead
<1>g. ASSUME Drop, UNCHANGED <<starts, ended, executor_table>> PROVE [Promise!Next]_status
  <2>1. cut' = cut \cup OnItsWay
        BY <1>g, DropMoves
  <2>2. \A c \in OnItsWay : status'[c] = "lost"
        BY <1>b, <1>f, <1>g, <2>1 DEF StatusRead, HasRow
  <2>3. \A c \in Commands \ OnItsWay : status'[c] = status[c]
        BY <1>b, <1>g, <2>1 DEF StatusRead, HasRow
  <2>4. Promise!Move(OnItsWay, "waiting", "lost") \/ status' = status
        BY <1>f, <2>2, <2>3, MovesTogether
  <2> QED BY <1>f, <2>4 DEF Promise!Next
<1>1. CASE InsertExecutor
  <2> DEFINE n == Len(executor_table) + 1
  <2>1. executor_table' = Append(executor_table, Open) /\ UNCHANGED <<starts, ended, cut>>
        BY <1>1 DEF InsertExecutor
  <2>2. n \in Commands /\ \A c \in Commands : c # n => (HasRow(c)' <=> HasRow(c))
        BY <1>1, <1>d, <2>1 DEF InsertExecutor, Commands, HasRow, Types, TypeOK
  <2>3. executor_table'[n] = Open /\ Len(executor_table') = n
    <3> DEFINE S == [code : {return_code_}, time : Times] \cup {Open}
    <3>1. executor_table \in Seq(S) /\ Open \in S
          BY <1>a DEF Types, TypeOK
    <3> HIDE DEF S
    <3> QED BY <2>1, <3>1
  <2>4. starts[n] = 0 /\ ended[n] = Open /\ n \notin cut
        BY <1>a, <1>d, <2>2 DEF RowFirst, EndsAreTrue
  <2>5. status[n] = "new" /\ status'[n] = "waiting"
        BY <1>b, <1>d, <2>1, <2>2, <2>3, <2>4 DEF StatusRead, HasRow
  <2>6. \A c \in Commands \ {n} : status'[c] = status[c]
    <3>1. \A c \in Commands : HasRow(c) => executor_table'[c] = executor_table[c]
          BY <1>a, <2>1 DEF HasRow, Commands, Types, TypeOK
    <3> QED BY <1>b, <2>1, <2>2, <3>1 DEF StatusRead
  <2>7. Promise!Move({n}, "new", "waiting") \/ status' = status
        BY <2>2, <2>5, <2>6, MovesTogether
  <2> QED BY <2>2, <2>7 DEF Promise!Next
<1>2. CASE AddResponse
      BY <1>2, <1>c DEF AddResponse
<1>3. CASE Report
  <2>1. Head(pending) \in Result /\ TrueEnd(Head(pending)) /\ Record(Head(pending))
        BY <1>3, <1>a DEF Report, Queue!Ingest, EndsAreTrue, Types, TypeOK
  <2> QED BY <1>3, <2>1, RecordMoves DEF Report
<1>4. CASE ReportOther
      BY <1>4, <1>c DEF ReportOther
<1>5. CASE ReportLate
  <2>1. PICK r \in Result : TrueEnd(r) /\ log' = Append(log, r)
    <3>1. CASE Queue!Ingest
          BY <1>a, <3>1 DEF Queue!Ingest, EndsAreTrue, Types, TypeOK
    <3>2. CASE Queue!Repeat
          BY <1>a, <3>2 DEF Queue!Repeat, Queue!InLog, EndsAreTrue, Types, TypeOK
    <3> QED BY <1>5, <3>1, <3>2 DEF ReportLate
  <2>2. Last(log') = r
        BY <1>a, <2>1 DEF Last, Types, TypeOK
  <2> QED BY <1>5, <2>1, <2>2, RecordMoves DEF ReportLate
<1>6. CASE SendTcpRequest
  <2>1. UNCHANGED <<executor_table, ended, cut>>
        BY <1>6 DEF SendTcpRequest, RunCommands
  <2>2. \A c \in Commands : starts'[c] = IF c \in Carried THEN starts[c] + 1 ELSE starts[c]
        BY <1>6, <1>a, StartsAdded
  <2>3. Carried \subseteq OnItsWay
        BY DEF OnItsWay
  <2>4. \A c \in Carried : status'[c] = "running"
        BY <1>b, <1>d, <1>f, <2>1, <2>2, <2>3 DEF StatusRead, HasRow
  <2>5. \A c \in Commands \ Carried : status'[c] = status[c]
        BY <1>b, <2>1, <2>2 DEF StatusRead, HasRow
  <2>6. Promise!Move(Carried, "waiting", "running") \/ status' = status
        BY <1>f, <2>3, <2>4, <2>5, MovesTogether
  <2> QED BY <1>f, <2>3, <2>6 DEF Promise!Next
<1>7. ASSUME NEW c \in Commands, NEW how \in Ending, NotifyEnd(c, how)
      PROVE  [Promise!Next]_status
  <2>1. /\ ended' = [ended EXCEPT ![c] = how] /\ ended[c] = Open /\ starts[c] > 0
        /\ UNCHANGED <<executor_table, starts, cut>>
        BY <1>7 DEF NotifyEnd
  <2>2. HasRow(c)
        BY <1>a, <1>d, <2>1 DEF RowFirst, HasRow
  <2>3. ended'[c] # Open /\ \A d \in Commands \ {c} : ended'[d] = ended[d]
        BY <1>d, <2>1, EndingIsNotOpen
  <2>4. status[c] = "running" /\ status'[c] = "ended"
        BY <1>b, <1>e, <2>1, <2>2, <2>3 DEF StatusRead, HasRow
  <2>5. \A d \in Commands \ {c} : status'[d] = status[d]
        BY <1>b, <2>1, <2>3 DEF StatusRead, HasRow
  <2>6. Promise!Move({c}, "running", "ended") \/ status' = status
        BY <2>4, <2>5, MovesTogether
  <2> QED BY <2>6 DEF Promise!Next
<1>8. CASE Disconnect
      BY <1>8, <1>g DEF Disconnect
<1>9. CASE Reconnect
      BY <1>9, <1>c DEF Reconnect
<1>10. CASE ReporterEnds
      BY <1>10, <1>g DEF ReporterEnds
<1>11. CASE UNCHANGED vars
      BY <1>11, <1>c DEF vars
<1> QED BY <1>1, <1>2, <1>3, <1>4, <1>5, <1>6, <1>7, <1>8, <1>9, <1>10, <1>11
        DEF Next, Ends

\* Every command that the operator types goes the way CommandPromise allows:
\* forward only, lost only before it is started, recorded only once it ended.
THEOREM KeepsPromise == Spec => PromiseSpec
<1>1. LifecycleInv => Types
      BY DEF LifecycleInv
<1> QED BY <1>1, LifecycleInvariant, PromiseInit, PromiseStep, PTL
        DEF Spec, PromiseSpec, Promise!Spec
=============================================================================
