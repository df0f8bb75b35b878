------------------------- MODULE MCCommandExecutor --------------------------
(***************************************************************************)
(* Instances of CommandExecutor for TLC.                                   *)
(***************************************************************************)
EXTENDS CommandExecutor

CONSTANTS e1, e2

\* A command that writes and one that says nothing, as sleep does.
Unequal == [e \in Executors |-> IF e = e1 THEN [out |-> 3, err |-> 1]
                                         ELSE [out |-> 0, err |-> 0]]
=============================================================================
