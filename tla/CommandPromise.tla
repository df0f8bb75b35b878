--------------------------- MODULE CommandPromise ---------------------------
(***************************************************************************)
(* What "exec" promises the operator: every command of executor_table goes *)
(* one way, and only forward. It waits for its reporter; it is started, or *)
(* lost with a connection; once started it ends; its end is recorded, once *)
(* and for all, or its record is refused.                                  *)
(***************************************************************************)
CONSTANT Commands
VARIABLE status

Statuses == {"new", "waiting", "lost", "running", "ended", "recorded"}

Move(S, from, to) == /\ S # {}
                     /\ \A c \in S : status[c] = from
                     /\ status' = [c \in Commands |-> IF c \in S THEN to ELSE status[c]]

Init == status = [c \in Commands |-> "new"]

Next == \/ \E c \in Commands : \/ Move({c}, "new", "waiting")
                               \/ Move({c}, "running", "ended")
                               \/ Move({c}, "ended", "recorded")
        \/ \E S \in SUBSET Commands : \/ Move(S, "waiting", "running")
                                      \/ Move(S, "waiting", "lost")

Spec == Init /\ [][Next]_status
=============================================================================
