--------------------------- MODULE RequestClient ----------------------------
(***************************************************************************)
(* The reporter process: main (start, sigwaitinfo, stop), the consumer     *)
(* threads and command executors that hand requests to sendRequest, and    *)
(* the work thread that sends them to the server one at a time and         *)
(* reconnects when a call fails (reporter/common/src).                     *)
(*                                                                         *)
(* The critical section of sendRequest is one step, so only the work       *)
(* thread is ever seen holding mtx_. std::binary_semaphore::release at its *)
(* maximum is undefined; libstdc++, which the CI image uses, counts on.    *)
(***************************************************************************)
EXTENDS Naturals, Sequences, FiniteSets

CONSTANTS N,            \* number of consumers, in the order of consumers_
          Executors,    \* identifiers of the commands the server may send
          Replies,      \* possible contents of RmsResponse.data
          EarlySignal,  \* may SIGINT arrive before the work thread's first store
          MaxRequests,  \* bound: requests per sender
          MaxFaults     \* bound: server deaths and broken connections

Consumers == 1..N
Senders   == Consumers \cup Executors

ResponseTypes == {"kSendSystemInfo", "kRunCommand"}

ASSUME ConstantsAssumption ==
    /\ N \in Nat
    /\ IsFiniteSet(Executors)
    /\ Consumers \cap Executors = {}
    /\ Replies \subseteq Seq(ResponseTypes)
    /\ EarlySignal \in BOOLEAN
    /\ MaxRequests \in Nat \ {0}
    /\ MaxFaults \in Nat

Request == [from : Senders, n : 1..MaxRequests]

VARIABLES mtx_,             \* "free" or "worker"
          request_queue_,   \* requests not yet answered, oldest first
          request_counter_, \* the semaphore
          poll_requests_,
          is_consuming_,    \* per consumer
          tpc,              \* where each sender is
          sent,             \* requests each sender has enqueued
          wpc,              \* where the work thread is
          res,              \* response data still to be handled
          mpc, idx,         \* where main is, and the consumer its loop is at
          conn,             \* the transport, see ConnStates
          late,             \* reports sitting unread in a cut connection
          serverUp, faults, \* environment
          ingested          \* requests the server ran report() on, in order

netVars  == <<conn, late, serverUp, faults>>
mainVars == <<mpc, idx, is_consuming_>>
sendVars == <<tpc, sent>>
clientVars == <<mtx_, request_queue_, request_counter_, poll_requests_>>
vars == <<mtx_, request_queue_, request_counter_, poll_requests_, is_consuming_,
          tpc, sent, wpc, res, mpc, idx, conn, late, serverUp, faults, ingested>>

SenderStates == {"unborn", "loop", "run", "enqueue", "release", "done"}
WorkerStates == {"unborn", "store", "connect", "handshake", "top", "acquire",
                 "check", "lock", "report", "reply", "handle", "exited",
                 "terminated"}
\* "cut": the network failed, the server is alive; "dead": the server died.
ConnStates   == {"none", "open", "cut", "dead"}
MainStates   == {"start", "wait", "stop", "join", "release", "joinClient",
                 "returned"}

TypeOK ==
    /\ mtx_ \in {"free", "worker"}
    /\ request_queue_ \in Seq(Request)
    /\ request_counter_ \in Nat
    /\ poll_requests_ \in BOOLEAN
    /\ is_consuming_ \in [Consumers -> BOOLEAN]
    /\ tpc \in [Senders -> SenderStates]
    /\ sent \in [Senders -> 0..MaxRequests]
    /\ wpc \in WorkerStates
    /\ res \in Seq(ResponseTypes)
    /\ mpc \in MainStates
    /\ idx \in 1..(N + 1)
    /\ conn \in ConnStates
    /\ late \subseteq [at : 1..MaxFaults, req : Request]
    /\ serverUp \in BOOLEAN
    /\ faults \in 0..MaxFaults
    /\ ingested \in Seq(Request)

Init ==
    /\ mtx_ = "free"
    /\ request_queue_ = <<>>
    /\ request_counter_ = 0
    /\ poll_requests_ = FALSE
    /\ is_consuming_ = [c \in Consumers |-> FALSE]
    /\ tpc = [t \in Senders |-> "unborn"]
    /\ sent = [t \in Senders |-> 0]
    /\ wpc = "unborn"
    /\ res = <<>>
    /\ mpc = "start"
    /\ idx = 1
    /\ conn = "none"
    /\ late = {}
    /\ serverUp \in BOOLEAN
    /\ faults = 0
    /\ ingested = <<>>

\* The process is over: main returned, or std::terminate ended it.
Finished == mpc = "returned" \/ wpc = "terminated"

ReleaseSaturates(n) == 1        \* variant: a semaphore that stays at its maximum

Release(n) == n + 1             \* request_counter_.release()

Failed == conn \in {"cut", "dead"}      \* the next call on it throws

-----------------------------------------------------------------------------
(* Senders *)

\* One evaluation of is_consuming_ by consume(): gather the next request or
\* leave. The pause between two requests is the freedom not to take the step.
ConsumerLoop(c) ==
    /\ tpc[c] = "loop"
    /\ \/ /\ is_consuming_[c]
          /\ sent[c] < MaxRequests
          /\ tpc' = [tpc EXCEPT ![c] = "enqueue"]
       \/ /\ ~is_consuming_[c]
          /\ tpc' = [tpc EXCEPT ![c] = "done"]
    /\ UNCHANGED <<clientVars, sent, wpc, res, mainVars, netVars, ingested>>

\* A command ends and its executor calls notifyEnd().
ExecutorEnd(e) ==
    /\ tpc[e] = "run"
    /\ tpc' = [tpc EXCEPT ![e] = "enqueue"]
    /\ UNCHANGED <<clientVars, sent, wpc, res, mainVars, netVars, ingested>>

\* sendRequest(): the emplace under mtx_, then the release outside it.
Enqueue(t) ==
    /\ tpc[t] = "enqueue"
    /\ mtx_ = "free"
    /\ request_queue_' = Append(request_queue_, [from |-> t, n |-> sent[t] + 1])
    /\ sent' = [sent EXCEPT ![t] = @ + 1]
    /\ tpc' = [tpc EXCEPT ![t] = "release"]
    /\ UNCHANGED <<mtx_, request_counter_, poll_requests_, wpc, res, mainVars, netVars,
                   ingested>>

SendRelease(t) ==
    /\ tpc[t] = "release"
    /\ request_counter_' = Release(request_counter_)
    /\ tpc' = [tpc EXCEPT ![t] = IF t \in Consumers THEN "loop" ELSE "done"]
    /\ UNCHANGED <<mtx_, request_queue_, poll_requests_, sent, wpc, res, mainVars, netVars,
                   ingested>>

-----------------------------------------------------------------------------
(* Work thread: pollRequests() and the calls it makes *)

WorkerStore ==
    /\ wpc = "store"
    /\ poll_requests_' = TRUE
    /\ wpc' = "connect"
    /\ UNCHANGED <<mtx_, request_queue_, request_counter_, sendVars, res, mainVars, netVars,
                   ingested>>

\* handshakeTCP(): the loop around open(). A failed open() sleeps and tries
\* again, which changes nothing here.
WorkerOpen ==
    /\ wpc = "connect"
    /\ poll_requests_
    /\ serverUp
    /\ conn' = "open"
    /\ wpc' = "handshake"
    /\ UNCHANGED <<clientVars, sendVars, res, mainVars, late, serverUp, faults, ingested>>

\* handshakeTCP() returns -1; pollRequests() leaves and mtx_ is unlocked.
WorkerGiveUp ==
    /\ wpc \in {"connect", "handshake"}
    /\ ~poll_requests_
    /\ wpc' = "exited"
    /\ mtx_' = "free"
    /\ UNCHANGED <<request_queue_, request_counter_, poll_requests_, sendVars, res,
                   mainVars, netVars, ingested>>

\* The handshake call is answered; after a failed report mtx_ is released.
\* poll_requests_ was read before the call and may be FALSE by now.
WorkerHandshake ==
    /\ wpc = "handshake"
    /\ conn = "open"
    /\ wpc' = "top"
    /\ mtx_' = "free"
    /\ UNCHANGED <<request_queue_, request_counter_, poll_requests_, sendVars, res,
                   mainVars, netVars, ingested>>

\* handshake() throws outside any try block: the process ends.
WorkerHandshakeThrows ==
    /\ wpc = "handshake"
    /\ Failed
    /\ wpc' = "terminated"
    /\ UNCHANGED <<clientVars, sendVars, res, mainVars, netVars, ingested>>

WorkerTop ==
    /\ wpc = "top"
    /\ wpc' = IF poll_requests_ THEN "acquire" ELSE "exited"
    /\ UNCHANGED <<clientVars, sendVars, res, mainVars, netVars, ingested>>

\* Variant: the wait returns without a token.
WorkerAcquireTimesOut ==
    /\ wpc = "acquire"
    /\ request_counter_' = request_counter_ - 1
    /\ wpc' = "check"
    /\ UNCHANGED <<mtx_, request_queue_, poll_requests_, sendVars, res, mainVars, netVars,
                   ingested>>

WorkerAcquire ==
    /\ wpc = "acquire"
    /\ request_counter_ > 0
    /\ request_counter_' = request_counter_ - 1
    /\ wpc' = "check"
    /\ UNCHANGED <<mtx_, request_queue_, poll_requests_, sendVars, res, mainVars, netVars,
                   ingested>>

\* Variant: poll_requests_ is not read again after the wait.
WorkerCheckSkipped ==
    /\ wpc = "check"
    /\ wpc' = "lock"
    /\ UNCHANGED <<clientVars, sendVars, res, mainVars, netVars, ingested>>

WorkerCheck ==
    /\ wpc = "check"
    /\ wpc' = IF poll_requests_ THEN "lock" ELSE "exited"
    /\ UNCHANGED <<clientVars, sendVars, res, mainVars, netVars, ingested>>

WorkerLock ==
    /\ wpc = "lock"
    /\ mtx_ = "free"
    /\ mtx_' = "worker"
    /\ wpc' = "report"
    /\ UNCHANGED <<request_queue_, request_counter_, poll_requests_, sendVars, res,
                   mainVars, netVars, ingested>>

\* report() reaches the server, which ingests the front request.
WorkerReport ==
    /\ wpc = "report"
    /\ request_queue_ # <<>>
    /\ conn = "open"
    /\ ingested' = Append(ingested, Head(request_queue_))
    /\ wpc' = "reply"
    /\ UNCHANGED <<clientVars, sendVars, res, mainVars, netVars>>

\* front() of an empty queue is undefined; the process does not survive it.
WorkerReportNothing ==
    /\ wpc = "report"
    /\ request_queue_ = <<>>
    /\ wpc' = "terminated"
    /\ UNCHANGED <<clientVars, sendVars, res, mainVars, netVars, ingested>>

\* The answer arrives. A command it carries has an identifier not used before.
WorkerReply ==
    /\ wpc = "reply"
    /\ conn = "open"
    /\ \E r \in Replies :
          /\ Cardinality({i \in DOMAIN r : r[i] = "kRunCommand"})
               <= Cardinality({e \in Executors : tpc[e] = "unborn"})
          /\ res' = r
    /\ wpc' = "handle"
    /\ UNCHANGED <<clientVars, sendVars, mainVars, netVars, ingested>>

\* report() throws, before or after the server ingested. handshakeTCP() starts
\* on a new socket with mtx_ still held; queue and tokens are what is left
\* behind. What was written to a cut connection may wait for its server thread.
SendFails(queue, tokens) ==
    /\ wpc \in {"report", "reply"}
    /\ request_queue_ # <<>>
    /\ Failed
    /\ \/ late' = late
       \/ /\ wpc = "report"
          /\ conn = "cut"
          /\ late' = late \cup {[at |-> faults, req |-> Head(request_queue_)]}
    /\ request_queue_' = queue
    /\ request_counter_' = tokens
    /\ conn' = "none"
    /\ wpc' = "connect"
    /\ UNCHANGED <<mtx_, poll_requests_, sendVars, res, mainVars, serverUp, faults,
                   ingested>>

\* Variants: the failed request is dropped, is put at the back of the queue,
\* or its token is not given back.
WorkerFailDrops == SendFails(Tail(request_queue_), request_counter_)
WorkerFailRequeues ==
    SendFails(Append(Tail(request_queue_), Head(request_queue_)),
              Release(request_counter_))
WorkerFailKeepsToken == SendFails(request_queue_, request_counter_)

\* The request stays at the front and the token goes back.
WorkerFail == SendFails(request_queue_, Release(request_counter_))

\* handleResponseData(): the one-way sendSysInfo is only written; on a broken
\* connection the write may still succeed, or throw out of the work thread.
WorkerSysInfo ==
    /\ wpc = "handle"
    /\ res # <<>>
    /\ Head(res) = "kSendSystemInfo"
    /\ \/ /\ res' = Tail(res)
          /\ UNCHANGED wpc
       \/ /\ Failed
          /\ wpc' = "terminated"
          /\ UNCHANGED res
    /\ UNCHANGED <<clientVars, sendVars, mainVars, netVars, ingested>>

\* handleResponseData(): a CommandExecutor is built, which starts its thread.
WorkerRunCommand ==
    /\ wpc = "handle"
    /\ res # <<>>
    /\ Head(res) = "kRunCommand"
    /\ \E e \in Executors : /\ tpc[e] = "unborn"
                            /\ tpc' = [tpc EXCEPT ![e] = "run"]
    /\ res' = Tail(res)
    /\ UNCHANGED <<clientVars, sent, wpc, mainVars, netVars, ingested>>

\* All response data handled: the request leaves the queue, mtx_ is unlocked.
WorkerPop ==
    /\ wpc = "handle"
    /\ res = <<>>
    /\ request_queue_' = Tail(request_queue_)
    /\ mtx_' = "free"
    /\ wpc' = "top"
    /\ UNCHANGED <<request_counter_, poll_requests_, sendVars, res, mainVars, netVars,
                   ingested>>

-----------------------------------------------------------------------------
(* Main thread: RmsReporterClient::start(), the wait, RmsReporterClient::stop() *)

MainStartConsumer ==
    /\ mpc = "start"
    /\ idx <= N
    /\ is_consuming_' = [is_consuming_ EXCEPT ![idx] = TRUE]
    /\ tpc' = [tpc EXCEPT ![idx] = "loop"]
    /\ idx' = idx + 1
    /\ UNCHANGED <<clientVars, sent, wpc, res, mpc, netVars, ingested>>

MainStartClient ==
    /\ mpc = "start"
    /\ idx = N + 1
    /\ wpc' = IF poll_requests_ THEN wpc ELSE "store"
    /\ mpc' = "wait"
    /\ UNCHANGED <<clientVars, is_consuming_, sendVars, res, idx, netVars, ingested>>

MainSignal ==
    /\ mpc = "wait"
    /\ EarlySignal \/ wpc # "store"
    /\ mpc' = "stop"
    /\ idx' = 1
    /\ UNCHANGED <<clientVars, is_consuming_, sendVars, wpc, res, netVars, ingested>>

\* Consumer::stop(): the flag, then the join.
MainStopConsumer ==
    /\ mpc = "stop"
    /\ idx <= N
    /\ is_consuming_' = [is_consuming_ EXCEPT ![idx] = FALSE]
    /\ mpc' = "join"
    /\ UNCHANGED <<clientVars, sendVars, wpc, res, idx, netVars, ingested>>

MainJoinConsumer ==
    /\ mpc = "join"
    /\ tpc[idx] = "done"
    /\ idx' = idx + 1
    /\ mpc' = "stop"
    /\ UNCHANGED <<clientVars, is_consuming_, sendVars, wpc, res, netVars, ingested>>

\* RequestClient::stop(): the flag, one extra token, the join, the close.
MainStopClient ==
    /\ mpc = "stop"
    /\ idx = N + 1
    /\ poll_requests_' = FALSE
    /\ mpc' = "release"
    /\ UNCHANGED <<mtx_, request_queue_, request_counter_, is_consuming_, sendVars, wpc,
                   res, idx, netVars, ingested>>

\* Variant: stop() adds no token.
MainReleaseSkipped ==
    /\ mpc = "release"
    /\ mpc' = "joinClient"
    /\ UNCHANGED <<clientVars, is_consuming_, sendVars, wpc, res, idx, netVars, ingested>>

MainRelease ==
    /\ mpc = "release"
    /\ request_counter_' = Release(request_counter_)
    /\ mpc' = "joinClient"
    /\ UNCHANGED <<mtx_, request_queue_, poll_requests_, is_consuming_, sendVars, wpc, res,
                   idx, netVars, ingested>>

MainJoinClient ==
    /\ mpc = "joinClient"
    /\ wpc = "exited"
    /\ conn' = "none"
    /\ mpc' = "returned"
    /\ UNCHANGED <<clientVars, is_consuming_, sendVars, wpc, res, idx, late, serverUp,
                   faults, ingested>>

-----------------------------------------------------------------------------
(* Environment: the server and the network *)

\* A dying server takes its unread input with it.
ServerDies ==
    /\ serverUp
    /\ faults < MaxFaults
    /\ faults' = faults + 1
    /\ serverUp' = FALSE
    /\ conn' = IF conn = "none" THEN "none" ELSE "dead"
    /\ late' = {}
    /\ UNCHANGED <<clientVars, sendVars, wpc, res, mainVars, ingested>>

ServerStarts ==
    /\ ~serverUp
    /\ serverUp' = TRUE
    /\ UNCHANGED <<clientVars, sendVars, wpc, res, mainVars, conn, late, faults, ingested>>

LinkBreaks ==
    /\ conn = "open"
    /\ faults < MaxFaults
    /\ faults' = faults + 1
    /\ conn' = "cut"
    /\ UNCHANGED <<clientVars, sendVars, wpc, res, mainVars, late, serverUp, ingested>>

\* The thread of a cut connection gets round to a report written before.
LateIngest ==
    /\ \E x \in late : /\ ingested' = Append(ingested, x.req)
                      /\ late' = late \ {x}
    /\ UNCHANGED <<clientVars, sendVars, wpc, res, mainVars, conn, serverUp, faults>>

-----------------------------------------------------------------------------
Consumer(c) == ConsumerLoop(c) \/ Enqueue(c) \/ SendRelease(c)
Executor(e) == ExecutorEnd(e) \/ Enqueue(e) \/ SendRelease(e)

Worker == \/ WorkerStore \/ WorkerOpen \/ WorkerGiveUp
          \/ WorkerHandshake \/ WorkerHandshakeThrows
          \/ WorkerTop \/ WorkerAcquire \/ WorkerCheck \/ WorkerLock
          \/ WorkerReport \/ WorkerReportNothing \/ WorkerReply \/ WorkerFail
          \/ WorkerSysInfo \/ WorkerRunCommand \/ WorkerPop

Main == \/ MainStartConsumer \/ MainStartClient \/ MainSignal
        \/ MainStopConsumer \/ MainJoinConsumer
        \/ MainStopClient \/ MainRelease \/ MainJoinClient

Environment == ServerDies \/ ServerStarts \/ LinkBreaks \/ LateIngest

Running == /\ ~Finished
           /\ \/ \E c \in Consumers : Consumer(c)
              \/ \E e \in Executors : Executor(e)
              \/ Worker
              \/ Main
              \/ Environment

Over == Finished /\ UNCHANGED vars

Next == Running \/ Over

Spec == Init /\ [][Next]_vars

\* The scheduler runs every thread that can move. The operator's signal and
\* the environment owe nothing.
ThreadFairness ==
    /\ \A c \in Consumers : WF_vars(~Finished /\ Consumer(c))
    /\ \A e \in Executors : WF_vars(~Finished /\ (Enqueue(e) \/ SendRelease(e)))
    /\ WF_vars(~Finished /\ Worker)
    /\ WF_vars(~Finished /\ Main /\ ~MainSignal)

FairSpec == Spec /\ ThreadFairness

\* In addition the server is started again after each of its deaths.
RecoveringSpec == FairSpec /\ WF_vars(~Finished /\ ServerStarts)

-----------------------------------------------------------------------------
(* Safety *)

AtFront == wpc \in {"report", "reply", "handle"}

\* The work thread calls front() and pop() only on a queue that holds a
\* request: no token is spent that no request stands behind, whatever the
\* order of sendRequest, failed sends and stop().
FrontExists == AtFront => request_queue_ # <<>>

Owing == {t \in Senders : tpc[t] = "release"}

\* No lost wakeup: while requests wait and the work thread is about to block
\* on the semaphore, a token is there or a sender still has to release one.
NoLostWakeup ==
    (wpc = "acquire" /\ request_queue_ # <<>>)
        => (request_counter_ > 0 \/ Owing # {})

Previous(r) == [from |-> r.from, n |-> r.n - 1]

\* The server never ingests a request of a sender before it has ingested
\* the one that sender made just before it, however often connections are cut
\* and reports resent or read late.
InOrderNoGaps ==
    \A i \in 1..Len(ingested) :
        ingested[i].n > 1 =>
            \E j \in 1..(i - 1) : ingested[j] = Previous(ingested[i])

\* The queue implements at-least-once delivery in the order of acceptance.
Delivery == INSTANCE FifoDelivery WITH pending <- request_queue_, log <- ingested
DeliverySpec == Delivery!Spec

\* A dead server or a broken connection never ends the reporter process; it
\* keeps trying to reconnect.
SurvivesServerDeath == wpc # "terminated"

-----------------------------------------------------------------------------
(* Liveness *)

\* Once the signal is received, the process ends one way or another: neither
\* main nor the work thread gets stuck.
StopEnds == (mpc = "stop") ~> Finished

\* Every request accepted by sendRequest is ingested, unless the operator
\* stops the reporter or an exception ends it first.
EventuallyIngested ==
    \A r \in Request :
        (\E i \in DOMAIN request_queue_ : request_queue_[i] = r)
            ~> \/ \E i \in DOMAIN ingested : ingested[i] = r
               \/ mpc \notin {"start", "wait"}
               \/ wpc = "terminated"
=============================================================================
