---------------------------- MODULE FifoDelivery ----------------------------
(***************************************************************************)
(* What the reporter's request queue promises the threads that use it: a   *)
(* request handed to sendRequest stays pending until the server has        *)
(* ingested it, and requests are ingested for the first time in the order  *)
(* in which they were accepted. The only irregularity that failed calls    *)
(* may cause is that a request already ingested is ingested again.         *)
(***************************************************************************)
EXTENDS Sequences, Naturals

CONSTANT Request        \* what can be asked of the queue

VARIABLES pending,      \* accepted and not yet confirmed, oldest first
          log           \* what the server ingested, in its order

vars == <<pending, log>>

InLog(r) == \E i \in 1..Len(log) : log[i] = r

Init == /\ pending = <<>>
        /\ log = <<>>

Accept == /\ \E r \in Request : pending' = Append(pending, r)
          /\ UNCHANGED log

Ingest == /\ pending # <<>>
          /\ log' = Append(log, Head(pending))
          /\ UNCHANGED pending

Repeat == /\ \E r \in Request : /\ InLog(r)
                                /\ log' = Append(log, r)
          /\ UNCHANGED pending

Confirm == /\ pending # <<>>
           /\ InLog(Head(pending))
           /\ pending' = Tail(pending)
           /\ UNCHANGED log

Next == Accept \/ Ingest \/ Repeat \/ Confirm

Spec == Init /\ [][Next]_vars
=============================================================================
