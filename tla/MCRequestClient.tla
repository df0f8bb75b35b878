-------------------------- MODULE MCRequestClient ---------------------------
(***************************************************************************)
(* Instances of RequestClient for TLC.                                     *)
(***************************************************************************)
EXTENDS RequestClient

CONSTANT e1

NoReplies == {<<>>}

\* No work, a system-info request, a command, and the two together.
SomeReplies == {<<>>, <<"kSendSystemInfo">>, <<"kRunCommand">>,
                <<"kRunCommand", "kSendSystemInfo">>}
=============================================================================
