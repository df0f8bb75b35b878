------------------------ MODULE RequestClientProofs -------------------------
(***************************************************************************)
(* Theorems about RequestClient, for any number of consumers, commands,    *)
(* requests and faults.                                                    *)
(***************************************************************************)
EXTENDS RequestClient, TLAPS, FiniteSetTheorems

-----------------------------------------------------------------------------
(* Type correctness *)

\* A sender about to enqueue has requests left, an executor sends only once.
SendersBounded ==
    /\ \A t \in Senders : tpc[t] = "enqueue" => sent[t] < MaxRequests
    /\ \A e \in Executors :
          tpc[e] \in {"unborn", "run", "enqueue"} => sent[e] = 0

\* A connection is failed only by a fault.
FaultCounted == Failed => faults > 0

\* main joins only consumers that exist.
JoinsConsumer == mpc = "join" => idx <= N

\* The request being answered is still at the front.
AnswerHasRequest == wpc \in {"reply", "handle"} => request_queue_ # <<>>

TypeInv == TypeOK /\ SendersBounded /\ FaultCounted /\ JoinsConsumer
              /\ AnswerHasRequest

\* The initial state satisfies the type invariant and what it rests on.
LEMMA TypeInvInit == Init => TypeInv
<1> SUFFICES ASSUME Init PROVE TypeInv
    OBVIOUS
<1>1. TypeOK
  <2>1. /\ tpc \in [Senders -> SenderStates]
        /\ sent \in [Senders -> 0..MaxRequests]
        /\ is_consuming_ \in [Consumers -> BOOLEAN]
        BY ConstantsAssumption DEF Init, SenderStates
  <2>2. idx \in 1..(N + 1) /\ faults \in 0..MaxFaults /\ request_counter_ \in Nat
        BY ConstantsAssumption DEF Init
  <2>3. /\ request_queue_ \in Seq(Request)
        /\ ingested \in Seq(Request)
        /\ res \in Seq(ResponseTypes)
        BY DEF Init
  <2> QED BY <2>1, <2>2, <2>3
          DEF Init, TypeOK, WorkerStates, MainStates, ConnStates
<1>2. SendersBounded
      BY ConstantsAssumption DEF Init, SendersBounded, Senders
<1>3. FaultCounted /\ JoinsConsumer /\ AnswerHasRequest
      BY DEF Init, FaultCounted, JoinsConsumer, AnswerHasRequest, Failed
<1> QED BY <1>1, <1>2, <1>3 DEF TypeInv

\* Every step preserves them: one case per action of the reporter process.
LEMMA TypeInvStep == TypeInv /\ [Next]_vars => TypeInv'
<1> SUFFICES ASSUME TypeInv, [Next]_vars PROVE TypeInv'
    OBVIOUS
<1> USE ConstantsAssumption
<1> USE DEF TypeInv, TypeOK, SendersBounded, FaultCounted, JoinsConsumer,
            AnswerHasRequest, Failed, sendVars, mainVars, netVars, clientVars
<1>1. ASSUME NEW c \in Consumers, ConsumerLoop(c) PROVE TypeInv'
      BY <1>1 DEF ConsumerLoop, Senders, SenderStates
<1>2. ASSUME NEW e \in Executors, ExecutorEnd(e) PROVE TypeInv'
      BY <1>2 DEF ExecutorEnd, Senders, SenderStates
<1>3. ASSUME NEW t \in Senders, Enqueue(t) PROVE TypeInv'
  <2>1. [from |-> t, n |-> sent[t] + 1] \in Request
        BY <1>3 DEF Enqueue, Request
  <2>2. request_queue_' \in Seq(Request) /\ request_queue_' # <<>>
        BY <1>3, <2>1 DEF Enqueue
  <2> QED BY <1>3, <2>2 DEF Enqueue, SenderStates
<1>4. ASSUME NEW t \in Senders, SendRelease(t) PROVE TypeInv'
      BY <1>4 DEF SendRelease, Release, SenderStates
<1>5. CASE WorkerStore
      BY <1>5 DEF WorkerStore, WorkerStates
<1>6. CASE WorkerOpen
      BY <1>6 DEF WorkerOpen, WorkerStates, ConnStates
<1>7. CASE WorkerGiveUp
      BY <1>7 DEF WorkerGiveUp, WorkerStates
<1>8. CASE WorkerHandshake
      BY <1>8 DEF WorkerHandshake, WorkerStates
<1>9. CASE WorkerHandshakeThrows
      BY <1>9 DEF WorkerHandshakeThrows, WorkerStates
<1>10. CASE WorkerTop
  <2>1. wpc' \in {"acquire", "exited"}
        BY <1>10, Zenon DEF WorkerTop
  <2> QED BY <1>10, <2>1 DEF WorkerTop, WorkerStates
<1>11. CASE WorkerAcquire
      BY <1>11 DEF WorkerAcquire, WorkerStates
<1>12. CASE WorkerCheck
      BY <1>12 DEF WorkerCheck, WorkerStates
<1>13. CASE WorkerLock
      BY <1>13 DEF WorkerLock, WorkerStates
<1>14. CASE WorkerReport
  <2>1. Head(request_queue_) \in Request
        BY <1>14 DEF WorkerReport
  <2> QED BY <1>14, <2>1 DEF WorkerReport, WorkerStates
<1>15. CASE WorkerReportNothing
      BY <1>15 DEF WorkerReportNothing, WorkerStates
<1>16. CASE WorkerReply
      BY <1>16 DEF WorkerReply, WorkerStates
<1>17. CASE WorkerFail
  <2>1. Head(request_queue_) \in Request
        BY <1>17 DEF WorkerFail, SendFails
  <2>2. late' \subseteq [at : 1..MaxFaults, req : Request]
        BY <1>17, <2>1 DEF WorkerFail, SendFails
  <2> QED BY <1>17, <2>2 DEF WorkerFail, SendFails, Release, WorkerStates, ConnStates
<1>18. CASE WorkerSysInfo
  <2>1. Tail(res) \in Seq(ResponseTypes)
        BY <1>18 DEF WorkerSysInfo
  <2> QED BY <1>18, <2>1 DEF WorkerSysInfo, WorkerStates
<1>19. CASE WorkerRunCommand
      BY <1>19 DEF WorkerRunCommand, Senders, SenderStates
<1>20. CASE WorkerPop
  <2>1. Tail(request_queue_) \in Seq(Request)
        BY <1>20 DEF WorkerPop
  <2> QED BY <1>20, <2>1 DEF WorkerPop, WorkerStates
<1>21. CASE MainStartConsumer
      BY <1>21 DEF MainStartConsumer, Consumers, Senders, SenderStates
<1>22. CASE MainStartClient
      BY <1>22 DEF MainStartClient, MainStates, WorkerStates
<1>23. CASE MainSignal
      BY <1>23 DEF MainSignal, MainStates
<1>24. CASE MainStopConsumer
      BY <1>24 DEF MainStopConsumer, Consumers, MainStates
<1>25. CASE MainJoinConsumer
      BY <1>25 DEF MainJoinConsumer, MainStates
<1>26. CASE MainStopClient
      BY <1>26 DEF MainStopClient, MainStates
<1>27. CASE MainRelease
      BY <1>27 DEF MainRelease, Release, MainStates
<1>28. CASE MainJoinClient
      BY <1>28 DEF MainJoinClient, MainStates, ConnStates
<1>29. CASE ServerDies
  <2>1. faults' \in 1..MaxFaults
        BY <1>29 DEF ServerDies
  <2>2. conn' \in ConnStates
        BY <1>29 DEF ServerDies, ConnStates
  <2>3. late' \subseteq [at : 1..MaxFaults, req : Request]
        BY <1>29 DEF ServerDies
  <2>4. UNCHANGED <<mtx_, request_queue_, request_counter_, poll_requests_,
                    is_consuming_, tpc, sent, wpc, res, mpc, idx, ingested>>
        BY <1>29 DEF ServerDies
  <2>5. serverUp' \in BOOLEAN
        BY <1>29 DEF ServerDies
  <2>6. TypeOK'
        BY <2>1, <2>2, <2>3, <2>4, <2>5
  <2> QED BY <1>29, <2>1, <2>6 DEF ServerDies
<1>30. CASE ServerStarts
      BY <1>30 DEF ServerStarts
<1>31. CASE LinkBreaks
      BY <1>31 DEF LinkBreaks, ConnStates
<1>32. CASE LateIngest
      BY <1>32 DEF LateIngest
<1>33. CASE UNCHANGED vars
      BY <1>33 DEF vars
<1> QED
      BY <1>1, <1>2, <1>3, <1>4, <1>5, <1>6, <1>7, <1>8, <1>9, <1>10, <1>11,
         <1>12, <1>13, <1>14, <1>15, <1>16, <1>17, <1>18, <1>19, <1>20, <1>21,
         <1>22, <1>23, <1>24, <1>25, <1>26, <1>27, <1>28, <1>29, <1>30, <1>31,
         <1>32, <1>33
      DEF Next, Running, Over, Consumer, Executor, Worker, Main, Environment,
          Senders

\* The types are kept for every number of senders, requests and faults.
THEOREM TypeCorrect == Spec => []TypeOK
<1>1. TypeInv => TypeOK
      BY DEF TypeInv
<1> QED BY <1>1, TypeInvInit, TypeInvStep, PTL DEF Spec

\* The invariant behind the types, for the theorems below to use.
LEMMA TypeInvariant == Spec => []TypeInv
BY TypeInvInit, TypeInvStep, PTL DEF Spec

-----------------------------------------------------------------------------
(* Token accounting *)

\* A token the work thread has taken and not yet spent or given back.
InHand == IF wpc \in {"check", "lock", "report", "reply", "handle"} THEN 1 ELSE 0

\* The extra token of RequestClient::stop().
StopToken == IF mpc \in {"joinClient", "returned"} THEN 1 ELSE 0

\* While the work thread lives there is one token for each queued request,
\* in the semaphore, in its hand or owed by a sender, and one more from stop().
TokensMatch ==
    wpc \notin {"exited", "terminated"} =>
        request_counter_ + InHand + Cardinality(Owing)
            = Len(request_queue_) + StopToken

\* The threads that start() has not reached have done nothing.
NotStarted == mpc = "start" => /\ wpc = "unborn"
                               /\ \A c \in idx..N : tpc[c] = "unborn"

TokenInv == TokensMatch /\ NotStarted

\* The senders that owe a token form a finite set.
LEMMA OwingFinite == IsFiniteSet(Owing) /\ Cardinality(Owing) \in Nat
<1>1. IsFiniteSet(Consumers)
      BY FS_Interval, ConstantsAssumption DEF Consumers
<1>2. IsFiniteSet(Senders)
      BY <1>1, FS_Union, ConstantsAssumption DEF Senders
<1>3. IsFiniteSet(Owing)
      BY <1>2, FS_Subset DEF Owing
<1> QED BY <1>3, FS_CardinalityType

\* Tokens match in the initial state.
LEMMA TokenInvInit == Init => TokenInv
<1> SUFFICES ASSUME Init PROVE TokenInv
    OBVIOUS
<1>1. Owing = {}
      BY DEF Init, Owing
<1>2. Cardinality(Owing) = 0
      BY <1>1, FS_EmptySet
<1>3. TokensMatch
      BY <1>2 DEF Init, TokensMatch, InHand, StopToken
<1>4. NotStarted
      BY ConstantsAssumption DEF Init, NotStarted, Senders, Consumers
<1> QED BY <1>3, <1>4 DEF TokenInv

\* Every step keeps the tokens matched to the requests.
LEMMA TokenInvStep == TypeInv /\ TokenInv /\ [Next]_vars => TokenInv'
<1> SUFFICES ASSUME TypeInv, TokenInv, [Next]_vars PROVE TokenInv'
    OBVIOUS
<1> USE ConstantsAssumption
<1> USE DEF TypeInv, TypeOK, AnswerHasRequest, TokenInv, TokensMatch, NotStarted,
            sendVars, mainVars, netVars, clientVars
<1>a. Cardinality(Owing) \in Nat /\ IsFiniteSet(Owing)
      BY OwingFinite
<1>b. (tpc' = tpc) => Owing' = Owing
      BY DEF Owing
<1>c. Len(request_queue_) \in Nat /\ InHand \in 0..1 /\ StopToken \in 0..1
      BY DEF InHand, StopToken
<1>d. idx..N \subseteq Senders
      BY DEF Consumers, Senders
<1>1. ASSUME NEW c \in Consumers, ConsumerLoop(c) PROVE TokenInv'
  <2>1. Owing' = Owing
        BY <1>1 DEF ConsumerLoop, Owing, Senders
  <2>2. UNCHANGED <<mpc, idx, wpc>> /\ tpc[c] = "loop"
        BY <1>1 DEF ConsumerLoop
  <2>3. \A d \in Senders \ {c} : tpc'[d] = tpc[d]
        BY <1>1 DEF ConsumerLoop
  <2>4. NotStarted'
        BY <2>2, <2>3, <1>d
  <2> QED BY <1>1, <2>1, <2>4 DEF ConsumerLoop, InHand, StopToken
<1>2. ASSUME NEW e \in Executors, ExecutorEnd(e) PROVE TokenInv'
  <2>1. Owing' = Owing
        BY <1>2 DEF ExecutorEnd, Owing, Senders
  <2>2. NotStarted'
        BY <1>2 DEF ExecutorEnd, Consumers, Senders
  <2> QED BY <1>2, <2>1, <2>2 DEF ExecutorEnd, InHand, StopToken
<1>3. ASSUME NEW t \in Senders, Enqueue(t) PROVE TokenInv'
  <2>1. Owing' = Owing \cup {t} /\ t \notin Owing
        BY <1>3 DEF Enqueue, Owing
  <2>2. Cardinality(Owing') = Cardinality(Owing) + 1
        BY <2>1, <1>a, FS_AddElement
  <2>3. Len(request_queue_') = Len(request_queue_) + 1
        BY <1>3 DEF Enqueue
  <2>4. NotStarted'
        BY <1>3 DEF Enqueue, Consumers, Senders
  <2>5. UNCHANGED <<wpc, request_counter_, InHand, StopToken>>
        BY <1>3 DEF Enqueue, InHand, StopToken
  <2> QED BY <1>a, <1>c, <2>2, <2>3, <2>4, <2>5
<1>4. ASSUME NEW t \in Senders, SendRelease(t) PROVE TokenInv'
  <2>1. Owing' = Owing \ {t} /\ t \in Owing
        BY <1>4 DEF SendRelease, Owing
  <2>2. Cardinality(Owing') = Cardinality(Owing) - 1
        BY <2>1, <1>a, FS_RemoveElement
  <2>3. NotStarted'
        BY <1>4 DEF SendRelease, Consumers, Senders
  <2>4. /\ request_counter_' = request_counter_ + 1
        /\ UNCHANGED <<wpc, request_queue_, InHand, StopToken>>
        BY <1>4 DEF SendRelease, Release, InHand, StopToken
  <2> QED BY <1>a, <1>c, <2>2, <2>3, <2>4
<1>5. CASE WorkerRunCommand
  <2>1. Owing' = Owing
        BY <1>5 DEF WorkerRunCommand, Owing, Senders
  <2>2. NotStarted'
    <3>1. PICK e \in Executors : /\ tpc[e] = "unborn"
                                 /\ tpc' = [tpc EXCEPT ![e] = "run"]
          BY <1>5 DEF WorkerRunCommand
    <3>2. e \notin idx..N
          BY DEF Consumers
    <3> QED BY <1>5, <1>d, <3>1, <3>2 DEF WorkerRunCommand
  <2> QED BY <1>5, <2>1, <2>2 DEF WorkerRunCommand, InHand, StopToken
<1>6. CASE MainStartConsumer
  <2>1. idx \in Senders /\ tpc[idx] = "unborn"
        BY <1>6 DEF MainStartConsumer, Consumers, Senders
  <2>2. Owing' = Owing
        BY <1>6, <2>1 DEF MainStartConsumer, Owing
  <2>3. NotStarted'
        BY <1>6, <2>1 DEF MainStartConsumer, Consumers, Senders
  <2> QED BY <1>6, <2>2, <2>3 DEF MainStartConsumer, InHand, StopToken
<1>7. CASE WorkerPop
  <2>1. Len(Tail(request_queue_)) = Len(request_queue_) - 1
        BY <1>7 DEF WorkerPop
  <2>2. /\ wpc = "handle" /\ InHand = 1 /\ InHand' = 0
        /\ UNCHANGED <<tpc, mpc, idx, request_counter_, StopToken>>
        /\ Len(request_queue_') = Len(request_queue_) - 1
        BY <1>7, <2>1 DEF WorkerPop, InHand, StopToken
  <2>3. UNCHANGED Owing
        BY <2>2, <1>b
  <2> QED BY <1>a, <1>c, <2>2, <2>3
<1>8. CASE WorkerStore \/ WorkerOpen \/ WorkerGiveUp \/ WorkerHandshake
             \/ WorkerHandshakeThrows
      BY <1>8, <1>a, <1>b
      DEF WorkerStore, WorkerOpen, WorkerGiveUp, WorkerHandshake,
          WorkerHandshakeThrows, InHand, StopToken
<1>9. CASE WorkerTop \/ WorkerAcquire \/ WorkerCheck \/ WorkerLock
  <2>1. CASE WorkerTop \/ WorkerLock
        BY <2>1, <1>a, <1>b DEF WorkerTop, WorkerLock, InHand, StopToken
  <2>2. CASE WorkerAcquire
        BY <2>2, <1>a, <1>b DEF WorkerAcquire, InHand, StopToken
  <2>3. CASE WorkerCheck
        BY <2>3, <1>a, <1>b DEF WorkerCheck, InHand, StopToken
  <2> QED BY <1>9, <2>1, <2>2, <2>3
<1>10. CASE WorkerReport \/ WorkerReportNothing \/ WorkerReply
      BY <1>10, <1>a, <1>b
      DEF WorkerReport, WorkerReportNothing, WorkerReply, InHand, StopToken
<1>11. CASE WorkerFail
      BY <1>11, <1>a, <1>b DEF WorkerFail, SendFails, Release, InHand, StopToken
<1>12. CASE WorkerSysInfo
      BY <1>12, <1>a, <1>b DEF WorkerSysInfo, InHand, StopToken
<1>13. CASE MainStartClient
  <2>1. UNCHANGED <<tpc, request_queue_, request_counter_, StopToken>>
        BY <1>13 DEF MainStartClient, StopToken
  <2>2. UNCHANGED Owing
        BY <2>1, <1>b
  <2>3. CASE wpc' = wpc
        BY <1>13, <2>1, <2>2, <2>3 DEF MainStartClient, InHand
  <2>4. CASE wpc' = "store"
        BY <1>13, <2>1, <2>2, <2>4 DEF MainStartClient, InHand
  <2> QED BY <1>13, <2>3, <2>4, Zenon DEF MainStartClient
<1>14. CASE MainSignal \/ MainStopConsumer \/ MainJoinConsumer \/ MainStopClient
      BY <1>14, <1>a, <1>b
      DEF MainSignal, MainStopConsumer, MainJoinConsumer, MainStopClient, InHand,
          StopToken
<1>15. CASE MainRelease
  <2>1. /\ UNCHANGED <<tpc, request_queue_, wpc, InHand>>
        /\ StopToken = 0 /\ StopToken' = 1 /\ mpc' # "start"
        /\ request_counter_' = request_counter_ + 1
        BY <1>15 DEF MainRelease, Release, InHand, StopToken
  <2>2. UNCHANGED Owing
        BY <2>1, <1>b
  <2> QED BY <1>a, <1>c, <2>1, <2>2
<1>16. CASE MainJoinClient
      BY <1>16, <1>a, <1>b DEF MainJoinClient, InHand, StopToken
<1>17. CASE Environment
      BY <1>17, <1>a, <1>b
      DEF Environment, ServerDies, ServerStarts, LinkBreaks, LateIngest, InHand,
          StopToken
<1>18. CASE UNCHANGED vars
      BY <1>18, <1>a, <1>b DEF vars, InHand, StopToken
<1> QED
      BY <1>1, <1>2, <1>3, <1>4, <1>5, <1>6, <1>7, <1>8, <1>9, <1>10, <1>11,
         <1>12, <1>13, <1>14, <1>15, <1>16, <1>17, <1>18
      DEF Next, Running, Over, Consumer, Executor, Worker, Main, Senders

\* Tokens match requests in every reachable state.
LEMMA TokenInvariant == Spec => []TokenInv
<1>1. TypeInv /\ TokenInv /\ [Next]_vars => TokenInv'
      BY TokenInvStep
<1> QED BY <1>1, TokenInvInit, TypeInvariant, PTL DEF Spec

\* sendRequest, failed sends and stop() never leave the work thread about to
\* sleep on the semaphore while a request waits with no token for it.
THEOREM NoWakeupLost == Spec => []NoLostWakeup
<1>1. TypeInv /\ TokenInv => NoLostWakeup
  <2> SUFFICES ASSUME TypeInv, TokenInv, wpc = "acquire", request_queue_ # <<>>,
                      Owing = {}
               PROVE  request_counter_ > 0
      BY DEF NoLostWakeup
  <2>1. Cardinality(Owing) = 0
        BY FS_EmptySet
  <2>2. Len(request_queue_) > 0
        BY DEF TypeInv, TypeOK
  <2> QED BY <2>1, <2>2
          DEF TypeInv, TypeOK, TokenInv, TokensMatch, InHand, StopToken
<1> QED BY <1>1, TypeInvariant, TokenInvariant, PTL

-----------------------------------------------------------------------------
(* The front of the queue, when the signal comes after the first store *)

\* The work thread's first store cannot follow stop(), so a poll_requests_
\* that is TRUE means stop() has not added its token, and a token that passed
\* the check stands for a request.
FrontInv ==
    /\ wpc = "store" => mpc = "wait"
    /\ poll_requests_ => mpc \notin {"release", "joinClient", "returned"}
    /\ wpc \in {"lock", "report", "reply", "handle"} => request_queue_ # <<>>

\* Every step keeps the front of the queue in place while it is being used.
LEMMA FrontInvStep ==
    ASSUME ~EarlySignal
    PROVE  TypeInv /\ TokenInv /\ FrontInv /\ [Next]_vars => FrontInv'
<1> SUFFICES ASSUME TypeInv, TokenInv, FrontInv, [Next]_vars PROVE FrontInv'
    OBVIOUS
<1> USE DEF FrontInv, sendVars, mainVars, netVars, clientVars
<1>1. ASSUME NEW t \in Senders,
             ConsumerLoop(t) \/ ExecutorEnd(t) \/ SendRelease(t)
      PROVE  FrontInv'
      BY <1>1 DEF ConsumerLoop, ExecutorEnd, SendRelease
<1>2. ASSUME NEW t \in Senders, Enqueue(t) PROVE FrontInv'
  <2>1. Len(request_queue_') = Len(request_queue_) + 1
        BY <1>2 DEF Enqueue, TypeInv, TypeOK
  <2>2. request_queue_' # <<>>
        BY <2>1 DEF TypeInv, TypeOK
  <2> QED BY <1>2, <2>2 DEF Enqueue
<1>3. CASE WorkerCheck
  <2>1. CASE poll_requests_
    <3>1. StopToken = 0 /\ InHand = 1 /\ Cardinality(Owing) \in Nat
          BY <1>3, <2>1, OwingFinite DEF WorkerCheck, StopToken, InHand
    <3>2. Len(request_queue_) > 0
          BY <1>3, <3>1
          DEF WorkerCheck, TypeInv, TypeOK, TokenInv, TokensMatch
    <3>3. request_queue_ # <<>>
          BY <3>2 DEF TypeInv, TypeOK
    <3> QED BY <1>3, <3>3 DEF WorkerCheck
  <2>2. CASE ~poll_requests_
    <3>1. wpc' = "exited" /\ UNCHANGED <<poll_requests_, mpc>>
          BY <1>3, <2>2 DEF WorkerCheck
    <3> QED BY <2>2, <3>1
  <2> QED BY <2>1, <2>2
<1>4. CASE WorkerStore \/ WorkerOpen \/ WorkerGiveUp \/ WorkerHandshake
             \/ WorkerHandshakeThrows \/ WorkerTop
      BY <1>4
      DEF WorkerStore, WorkerOpen, WorkerGiveUp, WorkerHandshake,
          WorkerHandshakeThrows, WorkerTop
<1>5. CASE WorkerAcquire \/ WorkerLock \/ WorkerReport \/ WorkerReportNothing
             \/ WorkerReply
      BY <1>5
      DEF WorkerAcquire, WorkerLock, WorkerReport, WorkerReportNothing, WorkerReply
<1>6. CASE WorkerFail \/ WorkerSysInfo \/ WorkerRunCommand \/ WorkerPop
      BY <1>6 DEF WorkerFail, SendFails, WorkerSysInfo, WorkerRunCommand, WorkerPop
<1>7. CASE MainStartConsumer \/ MainStartClient \/ MainSignal
      BY <1>7 DEF MainStartConsumer, MainStartClient, MainSignal, TokenInv, NotStarted
<1>8. CASE MainStopConsumer \/ MainJoinConsumer \/ MainStopClient
             \/ MainRelease \/ MainJoinClient
      BY <1>8
      DEF MainStopConsumer, MainJoinConsumer, MainStopClient, MainRelease,
          MainJoinClient
<1>9. CASE Environment
      BY <1>9 DEF Environment, ServerDies, ServerStarts, LinkBreaks, LateIngest
<1>10. CASE UNCHANGED vars
      BY <1>10 DEF vars
<1> QED
      BY <1>1, <1>2, <1>3, <1>4, <1>5, <1>6, <1>7, <1>8, <1>9, <1>10
      DEF Next, Running, Over, Consumer, Executor, Worker, Main, Senders

\* front() and pop() are only ever called on a queue that holds a request,
\* provided the signal does not overtake the work thread's first store.
THEOREM FrontNeverMissing ==
    ASSUME ~EarlySignal
    PROVE  Spec => []FrontExists
<1>1. Init => FrontInv
      BY DEF Init, FrontInv
<1>2. TypeInv /\ TokenInv /\ FrontInv /\ [Next]_vars => FrontInv'
      BY FrontInvStep
<1>3. FrontInv => FrontExists
      BY DEF FrontInv, FrontExists, AtFront
<1> QED BY <1>1, <1>2, <1>3, TypeInvariant, TokenInvariant, PTL DEF Spec

-----------------------------------------------------------------------------
(* Delivery *)

\* What appending does to the elements of a sequence.
LEMMA AppendFacts ==
    ASSUME NEW S, NEW s \in Seq(S), NEW x \in S
    PROVE  /\ Len(Append(s, x)) = Len(s) + 1
           /\ Append(s, x)[Len(s) + 1] = x
           /\ \A i \in 1..Len(s) : Append(s, x)[i] = s[i]
           /\ s # <<>> => Head(Append(s, x)) = Head(s)
           /\ Append(s, x) # <<>>
<1>1. /\ Len(Append(s, x)) = Len(s) + 1
      /\ Append(s, x)[Len(s) + 1] = x
      /\ \A i \in 1..Len(s) : Append(s, x)[i] = s[i]
      OBVIOUS
<1>2. Append(s, x) # <<>>
      BY <1>1
<1>3. s # <<>> => Head(Append(s, x)) = Head(s)
      BY <1>1, <1>2
<1> QED BY <1>1, <1>2, <1>3

\* What removing the front does to the elements of a sequence.
LEMMA TailFacts ==
    ASSUME NEW S, NEW s \in Seq(S), s # <<>>
    PROVE  /\ Tail(s) \in Seq(S)
           /\ Len(Tail(s)) = Len(s) - 1
           /\ \A i \in 1..(Len(s) - 1) : Tail(s)[i] = s[i + 1]
           /\ Head(s) = s[1] /\ Head(s) \in S
           /\ Len(s) \in Nat \ {0}
OBVIOUS

Ingested(r) == \E i \in 1..Len(ingested) : ingested[i] = r

\* A request has been ingested when its answer arrives, and a report still
\* unread in a cut connection is of the front request or of an ingested one.
DeliveryInv ==
    /\ wpc \in {"reply", "handle"} => Ingested(Head(request_queue_))
    /\ \A x \in late : \/ Ingested(x.req)
                       \/ request_queue_ # <<>> /\ x.req = Head(request_queue_)

\* A step that appends to the server's log keeps what was in it.
LEMMA IngestedGrows ==
    ASSUME TypeOK, NEW q \in Request, ingested' = Append(ingested, q)
    PROVE  /\ \A r \in Request : Ingested(r) => Ingested(r)'
           /\ Ingested(q)'
<1>1. /\ Len(ingested') = Len(ingested) + 1
      /\ ingested'[Len(ingested) + 1] = q
      /\ \A i \in 1..Len(ingested) : ingested'[i] = ingested[i]
      BY AppendFacts DEF TypeOK
<1>2. Len(ingested) \in Nat
      BY DEF TypeOK
<1> QED BY <1>1, <1>2 DEF Ingested

\* What sendRequest is given is a request.
LEMMA NewRequest ==
    ASSUME TypeInv, NEW t \in Senders, Enqueue(t)
    PROVE  sent[t] \in Nat /\ [from |-> t, n |-> sent[t] + 1] \in Request
<1>1. sent[t] \in 0..MaxRequests /\ sent[t] < MaxRequests
      BY DEF Enqueue, TypeInv, TypeOK, SendersBounded
<1>2. sent[t] \in Nat /\ sent[t] + 1 \in 1..MaxRequests
      BY <1>1, ConstantsAssumption
<1> QED BY <1>2 DEF Request

\* Every step preserves the delivery invariant.
LEMMA DeliveryInvStep == TypeInv /\ DeliveryInv /\ [Next]_vars => DeliveryInv'
<1> SUFFICES ASSUME TypeInv, DeliveryInv, [Next]_vars PROVE DeliveryInv'
    OBVIOUS
<1> USE DEF DeliveryInv, sendVars, mainVars, netVars, clientVars
<1>a. /\ TypeOK
      /\ \A x \in late : x.req \in Request
      /\ request_queue_ # <<>> => Head(request_queue_) \in Request
      BY TailFacts DEF TypeInv, TypeOK
<1>b. wpc \in {"reply", "handle"} => request_queue_ # <<>>
      BY DEF TypeInv, AnswerHasRequest
<1>c. ASSUME UNCHANGED <<request_queue_, ingested>>, late' \subseteq late,
             wpc' \in {"reply", "handle"} => wpc \in {"reply", "handle"}
      PROVE  DeliveryInv'
      BY <1>c DEF Ingested
<1>1. ASSUME NEW t \in Senders, Enqueue(t) PROVE DeliveryInv'
  <2>1. [from |-> t, n |-> sent[t] + 1] \in Request
        BY <1>1, NewRequest
  <2>2. /\ request_queue_' # <<>>
        /\ request_queue_ # <<>> => Head(request_queue_') = Head(request_queue_)
        BY <1>1, <1>a, <2>1, AppendFacts DEF Enqueue, TypeOK
  <2>3. UNCHANGED <<ingested, wpc, late>>
        BY <1>1 DEF Enqueue
  <2> QED BY <1>b, <2>2, <2>3 DEF Ingested
<1>2. CASE WorkerReport
  <2>1. /\ \A r \in Request : Ingested(r) => Ingested(r)'
        /\ Ingested(Head(request_queue_))'
        BY <1>2, <1>a, IngestedGrows DEF WorkerReport, Ingested
  <2>2. UNCHANGED <<request_queue_, late>>
        BY <1>2 DEF WorkerReport
  <2> QED BY <1>a, <2>1, <2>2
<1>3. CASE LateIngest
  <2>1. PICK y \in late : ingested' = Append(ingested, y.req) /\ late' = late \ {y}
        BY <1>3 DEF LateIngest
  <2>2. \A r \in Request : Ingested(r) => Ingested(r)'
        BY <1>a, <2>1, IngestedGrows
  <2>3. UNCHANGED <<request_queue_, wpc>>
        BY <1>3 DEF LateIngest
  <2> QED BY <1>a, <1>b, <2>1, <2>2, <2>3
<1>4. CASE WorkerFail
  <2>1. UNCHANGED <<request_queue_, ingested>> /\ wpc' = "connect"
        BY <1>4 DEF WorkerFail, SendFails
  <2>2. \A x \in late' : \/ x \in late
                         \/ request_queue_ # <<>> /\ x.req = Head(request_queue_)
        BY <1>4 DEF WorkerFail, SendFails
  <2> QED BY <2>1, <2>2 DEF Ingested
<1>5. CASE WorkerPop
  <2>1. Ingested(Head(request_queue_)) /\ UNCHANGED <<ingested, late>> /\ wpc' = "top"
        BY <1>5 DEF WorkerPop
  <2>2. \A x \in late : Ingested(x.req)
        BY <2>1
  <2> QED BY <2>1, <2>2 DEF Ingested
<1>6. ASSUME NEW t \in Senders,
             ConsumerLoop(t) \/ ExecutorEnd(t) \/ SendRelease(t)
      PROVE  DeliveryInv'
      BY <1>6, <1>c DEF ConsumerLoop, ExecutorEnd, SendRelease
<1>7. CASE WorkerStore \/ WorkerOpen \/ WorkerGiveUp \/ WorkerHandshake
             \/ WorkerHandshakeThrows
      BY <1>7, <1>c
      DEF WorkerStore, WorkerOpen, WorkerGiveUp, WorkerHandshake,
          WorkerHandshakeThrows
<1>8. CASE WorkerTop \/ WorkerAcquire \/ WorkerCheck \/ WorkerLock
             \/ WorkerReportNothing
  <2>1. UNCHANGED <<request_queue_, ingested, late>>
        BY <1>8 DEF WorkerTop, WorkerAcquire, WorkerCheck, WorkerLock,
                    WorkerReportNothing
  <2>2. wpc' \in {"acquire", "check", "lock", "report", "exited", "terminated"}
        BY <1>8 DEF WorkerTop, WorkerAcquire, WorkerCheck, WorkerLock,
                    WorkerReportNothing
  <2> QED BY <1>c, <2>1, <2>2
<1>9. CASE WorkerReply \/ WorkerSysInfo \/ WorkerRunCommand
      BY <1>9, <1>c DEF WorkerReply, WorkerSysInfo, WorkerRunCommand
<1>10. CASE Main
  <2>1. UNCHANGED <<request_queue_, ingested, late>>
        BY <1>10 DEF Main, MainStartConsumer, MainStartClient, MainSignal,
           MainStopConsumer, MainJoinConsumer, MainStopClient, MainRelease,
           MainJoinClient
  <2>2. wpc' \in {"store", wpc}
        BY <1>10 DEF Main, MainStartConsumer, MainStartClient, MainSignal,
           MainStopConsumer, MainJoinConsumer, MainStopClient, MainRelease,
           MainJoinClient
  <2> QED BY <1>c, <2>1, <2>2
<1>11. CASE ServerDies \/ ServerStarts \/ LinkBreaks
      BY <1>11, <1>c DEF ServerDies, ServerStarts, LinkBreaks
<1>12. CASE UNCHANGED vars
      BY <1>12, <1>c DEF vars
<1> QED
      BY <1>1, <1>2, <1>3, <1>4, <1>5, <1>6, <1>7, <1>8, <1>9, <1>10, <1>11, <1>12
      DEF Next, Running, Over, Consumer, Executor, Worker, Environment, Senders

\* The delivery invariant holds in every reachable state.
LEMMA DeliveryInvariant == Spec => []DeliveryInv
<1>1. Init => DeliveryInv
      BY DEF Init, DeliveryInv
<1>2. TypeInv /\ DeliveryInv /\ [Next]_vars => DeliveryInv'
      BY DeliveryInvStep
<1> QED BY <1>1, <1>2, TypeInvariant, PTL DEF Spec

\* The request queue implements at-least-once delivery in order of acceptance:
\* each step of the reporter, the server or the network is a step of
\* FifoDelivery on the queue and the server's log, or changes neither.
THEOREM Delivers == Spec => DeliverySpec
<1>1. Init => Delivery!Init
      BY DEF Init, Delivery!Init
<1>2. TypeInv /\ DeliveryInv /\ [Next]_vars => [Delivery!Next]_(Delivery!vars)
  <2> SUFFICES ASSUME TypeInv, DeliveryInv, [Next]_vars
               PROVE  [Delivery!Next]_(Delivery!vars)
      OBVIOUS
  <2> USE DEF sendVars, mainVars, netVars, clientVars
  <2>a. ASSUME UNCHANGED <<request_queue_, ingested>>
        PROVE  [Delivery!Next]_(Delivery!vars)
        BY <2>a DEF Delivery!vars
  <2>b. \A x \in late : x.req \in Request
        BY DEF TypeInv, TypeOK
  <2>1. ASSUME NEW t \in Senders, Enqueue(t) PROVE Delivery!Accept
    <3>1. [from |-> t, n |-> sent[t] + 1] \in Request
          BY <2>1, NewRequest
    <3> QED BY <2>1, <3>1 DEF Enqueue, Delivery!Accept
  <2>2. CASE WorkerReport
    <3>1. Delivery!Ingest
          BY <2>2 DEF WorkerReport, Delivery!Ingest
    <3> QED BY <3>1 DEF Delivery!Next
  <2>3. CASE LateIngest
    <3>1. PICK x \in late : ingested' = Append(ingested, x.req)
          BY <2>3 DEF LateIngest
    <3>2. UNCHANGED request_queue_
          BY <2>3 DEF LateIngest
    <3>3. CASE Ingested(x.req)
          BY <3>1, <3>2, <3>3, <2>b
          DEF Ingested, Delivery!InLog, Delivery!Repeat, Delivery!Next
    <3>4. CASE request_queue_ # <<>> /\ x.req = Head(request_queue_)
          BY <3>1, <3>2, <3>4 DEF Delivery!Ingest, Delivery!Next
    <3> QED BY <3>3, <3>4 DEF DeliveryInv
  <2>4. CASE WorkerPop
    <3>1. Delivery!Confirm
          BY <2>4 DEF WorkerPop, Delivery!Confirm, Delivery!InLog, TypeInv,
                      AnswerHasRequest, DeliveryInv, Ingested
    <3> QED BY <3>1 DEF Delivery!Next
  <2>5. ASSUME NEW t \in Senders,
               ConsumerLoop(t) \/ ExecutorEnd(t) \/ SendRelease(t)
        PROVE  [Delivery!Next]_(Delivery!vars)
        BY <2>5, <2>a DEF ConsumerLoop, ExecutorEnd, SendRelease
  <2>6. CASE WorkerStore \/ WorkerOpen \/ WorkerGiveUp \/ WorkerHandshake
               \/ WorkerHandshakeThrows \/ WorkerTop \/ WorkerAcquire
               \/ WorkerCheck \/ WorkerLock
        BY <2>6, <2>a
        DEF WorkerStore, WorkerOpen, WorkerGiveUp, WorkerHandshake,
            WorkerHandshakeThrows, WorkerTop, WorkerAcquire, WorkerCheck,
            WorkerLock
  <2>7. CASE WorkerReportNothing \/ WorkerReply \/ WorkerFail \/ WorkerSysInfo
               \/ WorkerRunCommand
        BY <2>7, <2>a DEF WorkerReportNothing, WorkerReply, WorkerFail, SendFails,
                          WorkerSysInfo, WorkerRunCommand
  <2>8. CASE Main
        BY <2>8, <2>a DEF Main, MainStartConsumer, MainStartClient, MainSignal,
           MainStopConsumer, MainJoinConsumer, MainStopClient, MainRelease,
           MainJoinClient
  <2>9. CASE ServerDies \/ ServerStarts \/ LinkBreaks
        BY <2>9, <2>a DEF ServerDies, ServerStarts, LinkBreaks
  <2>10. CASE UNCHANGED vars
        BY <2>10, <2>a DEF vars
  <2> QED
        BY <2>1, <2>2, <2>3, <2>4, <2>5, <2>6, <2>7, <2>8, <2>9, <2>10
        DEF Next, Running, Over, Consumer, Executor, Worker, Environment, Senders,
            Delivery!Next
<1> QED BY <1>1, <1>2, TypeInvariant, DeliveryInvariant, PTL
        DEF Spec, DeliverySpec, Delivery!Spec

-----------------------------------------------------------------------------
(* Order *)

\* r is in the log, or among the first k requests of the queue.
Ahead(r, k, queue, log) == \/ \E i \in 1..Len(log) : log[i] = r
                           \/ \E j \in 1..k : queue[j] = r

\* Every request a sender made is in the log or the queue, and each queued one
\* comes after the one its sender made before it.
OrderInv ==
    /\ \A t \in Senders : \A m \in 1..sent[t] :
          Ahead([from |-> t, n |-> m], Len(request_queue_), request_queue_, ingested)
    /\ \A i \in 1..Len(request_queue_) :
          request_queue_[i].n > 1 =>
              Ahead(Previous(request_queue_[i]), i - 1, request_queue_, ingested)
    /\ InOrderNoGaps

\* Every step preserves the order of first deliveries.
LEMMA OrderInvStep ==
    TypeInv /\ DeliveryInv /\ OrderInv /\ [Next]_vars => OrderInv'
<1> SUFFICES ASSUME TypeInv, DeliveryInv, OrderInv, [Next]_vars PROVE OrderInv'
    OBVIOUS
<1> USE DEF OrderInv, sendVars, mainVars, netVars, clientVars
<1> DEFINE Was(r, k) == Ahead(r, k, request_queue_, ingested)
           Now(r, k) == Ahead(r, k, request_queue_', ingested')
<1>a. /\ TypeOK
      /\ request_queue_ \in Seq(Request) /\ ingested \in Seq(Request)
      /\ Len(request_queue_) \in Nat /\ Len(ingested) \in Nat
      /\ \A i \in 1..Len(request_queue_) : request_queue_[i] \in Request
      /\ \A i \in 1..Len(ingested) : ingested[i] \in Request
      BY DEF TypeInv, TypeOK
<1>b. \A r \in Request : r.n > 1 => Previous(r) \in Request
      BY ConstantsAssumption DEF Request, Previous
<1>c. ASSUME UNCHANGED <<request_queue_, ingested, sent>> PROVE OrderInv'
      BY <1>c DEF InOrderNoGaps, Ahead, Ingested
<1>d. ASSUME NEW q \in Request, ingested' = Append(ingested, q),
             UNCHANGED <<request_queue_, sent>>,
             q.n > 1 => Ingested(Previous(q))
      PROVE  OrderInv'
  <2>1. \A r \in Request : Ingested(r) => Ingested(r)'
        BY <1>a, <1>d, IngestedGrows
  <2>2. \A r \in Request : \A k \in Nat : Was(r, k) => Now(r, k)
        BY <1>d, <2>1 DEF Ahead
  <2>3. \A t \in Senders : \A m \in 1..sent[t] :
            Now([from |-> t, n |-> m], Len(request_queue_))
    <3>1. \A t \in Senders : \A m \in 1..sent[t] : [from |-> t, n |-> m] \in Request
          BY <1>a, ConstantsAssumption DEF TypeOK, Request
    <3> QED BY <1>a, <1>d, <2>2, <3>1
  <2>4. \A i \in 1..Len(request_queue_) : request_queue_[i].n > 1
            => Now(Previous(request_queue_[i]), i - 1)
        BY <1>a, <1>b, <1>d, <2>2
  <2>5. InOrderNoGaps'
    <3>1. /\ Len(ingested') = Len(ingested) + 1
          /\ ingested'[Len(ingested) + 1] = q
          /\ \A i \in 1..Len(ingested) : ingested'[i] = ingested[i]
          BY <1>a, <1>d, AppendFacts
    <3> QED BY <1>a, <1>d, <3>1 DEF InOrderNoGaps, Ingested
  <2> QED BY <1>d, <2>3, <2>4, <2>5
<1>1. ASSUME NEW t \in Senders, Enqueue(t) PROVE OrderInv'
  <2> DEFINE q == [from |-> t, n |-> sent[t] + 1]
  <2>1. q \in Request /\ sent[t] \in Nat
        BY <1>1, NewRequest
  <2>2. /\ Len(request_queue_') = Len(request_queue_) + 1
        /\ request_queue_'[Len(request_queue_) + 1] = q
        /\ \A i \in 1..Len(request_queue_) : request_queue_'[i] = request_queue_[i]
        BY <1>1, <1>a, <2>1, AppendFacts DEF Enqueue
  <2>3. \A r : \A k \in 0..Len(request_queue_) : Was(r, k) => Now(r, k)
        BY <1>1, <1>a, <2>2 DEF Enqueue, Ahead, Ingested
  <2>4. \A r : Was(r, Len(request_queue_)) => Now(r, Len(request_queue_) + 1)
        BY <1>1, <1>a, <2>2 DEF Enqueue, Ahead, Ingested
  <2>5. Now(q, Len(request_queue_) + 1)
        BY <1>a, <2>2 DEF Ahead
  <2>6. \A s \in Senders : \A m \in 1..sent'[s] :
            Now([from |-> s, n |-> m], Len(request_queue_) + 1)
    <3> SUFFICES ASSUME NEW s \in Senders, NEW m \in 1..sent'[s]
                 PROVE  Now([from |-> s, n |-> m], Len(request_queue_) + 1)
        OBVIOUS
    <3>1. CASE m \in 1..sent[s]
          BY <2>4, <3>1
    <3>2. CASE m \notin 1..sent[s]
      <4>1. s = t /\ m = sent[t] + 1
            BY <1>1, <1>a, <2>1, <3>2 DEF Enqueue, TypeOK
      <4> QED BY <2>5, <4>1
    <3> QED BY <3>1, <3>2
  <2>7. \A i \in 1..(Len(request_queue_) + 1) : request_queue_'[i].n > 1
            => Now(Previous(request_queue_'[i]), i - 1)
    <3>1. q.n > 1 => Now(Previous(q), Len(request_queue_))
      <4>1. q.n > 1 => /\ Previous(q) = [from |-> t, n |-> sent[t]]
                       /\ sent[t] \in 1..sent[t]
            BY <2>1 DEF Previous
      <4>2. sent[t] \in 1..sent[t]
                => Was([from |-> t, n |-> sent[t]], Len(request_queue_))
            OBVIOUS
      <4>3. Len(request_queue_) \in 0..Len(request_queue_)
            BY <1>a
      <4> QED BY <2>3, <4>1, <4>2, <4>3
    <3> SUFFICES ASSUME NEW i \in 1..(Len(request_queue_) + 1),
                        request_queue_'[i].n > 1
                 PROVE  Now(Previous(request_queue_'[i]), i - 1)
        OBVIOUS
    <3>2. CASE i = Len(request_queue_) + 1
      <4>1. i - 1 = Len(request_queue_) /\ request_queue_'[i] = q
            BY <1>a, <2>2, <3>2
      <4> HIDE DEF q, Now
      <4> QED BY <3>1, <4>1
    <3>3. CASE i \in 1..Len(request_queue_)
      <4>1. i - 1 \in 0..Len(request_queue_) /\ request_queue_'[i] = request_queue_[i]
            BY <1>a, <2>2, <3>3
      <4>2. Was(Previous(request_queue_[i]), i - 1)
            BY <3>3, <4>1
      <4> HIDE DEF Was, Now
      <4> QED BY <2>3, <4>1, <4>2
    <3> QED BY <1>a, <3>2, <3>3
  <2>8. InOrderNoGaps'
        BY <1>1 DEF Enqueue, InOrderNoGaps
  <2> QED BY <2>2, <2>6, <2>7, <2>8
<1>2. CASE WorkerReport
  <2>1. Head(request_queue_) = request_queue_[1] /\ 1 \in 1..Len(request_queue_)
        BY <1>2, <1>a, TailFacts DEF WorkerReport
  <2>2. Head(request_queue_).n > 1 => Ingested(Previous(Head(request_queue_)))
        BY <2>1 DEF Ahead, Ingested
  <2> QED BY <1>2, <1>a, <1>d, <2>1, <2>2 DEF WorkerReport
<1>3. CASE LateIngest
  <2>1. PICK x \in late : ingested' = Append(ingested, x.req)
        BY <1>3 DEF LateIngest
  <2>2. x.req \in Request /\ UNCHANGED <<request_queue_, sent>>
        BY <1>3, <1>a DEF LateIngest, TypeOK
  <2>3. CASE Ingested(x.req)
    <3>1. x.req.n > 1 => Ingested(Previous(x.req))
          BY <1>a, <2>3 DEF Ingested, InOrderNoGaps
    <3> QED BY <1>d, <2>1, <2>2, <3>1
  <2>4. CASE request_queue_ # <<>> /\ x.req = Head(request_queue_)
    <3>1. x.req = request_queue_[1] /\ 1 \in 1..Len(request_queue_)
          BY <1>a, <2>4, TailFacts
    <3>2. x.req.n > 1 => Ingested(Previous(x.req))
          BY <3>1 DEF Ahead, Ingested
    <3> QED BY <1>d, <2>1, <2>2, <3>2
  <2> QED BY <2>3, <2>4 DEF DeliveryInv
<1>4. CASE WorkerPop
  <2>1. request_queue_ # <<>> /\ Ingested(Head(request_queue_))
        BY <1>4 DEF WorkerPop, TypeInv, AnswerHasRequest, DeliveryInv
  <2>2. UNCHANGED <<ingested, sent>> /\ request_queue_' = Tail(request_queue_)
        BY <1>4 DEF WorkerPop
  <2>3. /\ Len(request_queue_') = Len(request_queue_) - 1
        /\ \A i \in 1..(Len(request_queue_) - 1) :
              request_queue_'[i] = request_queue_[i + 1]
        /\ Head(request_queue_) = request_queue_[1]
        /\ Len(request_queue_) \in Nat \ {0}
        BY <1>a, <2>1, <2>2, TailFacts
  <2>4. \A r : \A k \in 1..Len(request_queue_) : Was(r, k) => Now(r, k - 1)
    <3> SUFFICES ASSUME NEW r, NEW k \in 1..Len(request_queue_), Was(r, k),
                        ~Ingested(r)
                 PROVE  Now(r, k - 1)
        BY <2>2 DEF Ahead, Ingested
    <3>1. PICK j \in 1..k : request_queue_[j] = r
          BY DEF Ahead, Ingested
    <3>2. j # 1
          BY <2>1, <2>3, <3>1
    <3>3. j - 1 \in 1..(k - 1) /\ request_queue_'[j - 1] = r
          BY <2>3, <3>1, <3>2
    <3> QED BY <3>3 DEF Ahead
  <2>5. \A i \in 1..(Len(request_queue_) - 1) : request_queue_'[i].n > 1
            => Now(Previous(request_queue_'[i]), i - 1)
        BY <2>3, <2>4
  <2>6. \A s \in Senders : \A m \in 1..sent'[s] :
            Now([from |-> s, n |-> m], Len(request_queue_) - 1)
    <3>1. Len(request_queue_) \in 1..Len(request_queue_)
          BY <2>3
    <3> QED BY <2>2, <2>4, <3>1
  <2>7. InOrderNoGaps'
        BY <2>2 DEF InOrderNoGaps
  <2> QED BY <2>3, <2>5, <2>6, <2>7
<1>5. ASSUME NEW t \in Senders,
             ConsumerLoop(t) \/ ExecutorEnd(t) \/ SendRelease(t)
      PROVE  OrderInv'
      BY <1>5, <1>c DEF ConsumerLoop, ExecutorEnd, SendRelease
<1>6. CASE WorkerStore \/ WorkerOpen \/ WorkerGiveUp \/ WorkerHandshake
             \/ WorkerHandshakeThrows \/ WorkerTop \/ WorkerAcquire
             \/ WorkerCheck \/ WorkerLock
      BY <1>6, <1>c
      DEF WorkerStore, WorkerOpen, WorkerGiveUp, WorkerHandshake,
          WorkerHandshakeThrows, WorkerTop, WorkerAcquire, WorkerCheck, WorkerLock
<1>7. CASE WorkerReportNothing \/ WorkerReply \/ WorkerFail \/ WorkerSysInfo
             \/ WorkerRunCommand
      BY <1>7, <1>c DEF WorkerReportNothing, WorkerReply, WorkerFail, SendFails,
                        WorkerSysInfo, WorkerRunCommand
<1>8. CASE Main
      BY <1>8, <1>c DEF Main, MainStartConsumer, MainStartClient, MainSignal,
         MainStopConsumer, MainJoinConsumer, MainStopClient, MainRelease,
         MainJoinClient
<1>9. CASE ServerDies \/ ServerStarts \/ LinkBreaks
      BY <1>9, <1>c DEF ServerDies, ServerStarts, LinkBreaks
<1>10. CASE UNCHANGED vars
      BY <1>10, <1>c DEF vars
<1> QED
      BY <1>1, <1>2, <1>3, <1>4, <1>5, <1>6, <1>7, <1>8, <1>9, <1>10
      DEF Next, Running, Over, Consumer, Executor, Worker, Environment, Senders

\* No request reaches the server before the one its sender made just before
\* it, whatever fails and is resent.
THEOREM OrderKept == Spec => []InOrderNoGaps
<1>1. Init => OrderInv
      BY ConstantsAssumption DEF Init, OrderInv, InOrderNoGaps
<1>2. TypeInv /\ DeliveryInv /\ OrderInv /\ [Next]_vars => OrderInv'
      BY OrderInvStep
<1>3. OrderInv => InOrderNoGaps
      BY DEF OrderInv
<1> QED BY <1>1, <1>2, <1>3, TypeInvariant, DeliveryInvariant, PTL DEF Spec
=============================================================================
