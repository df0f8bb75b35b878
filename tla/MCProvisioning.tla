--------------------------- MODULE MCProvisioning ---------------------------
(***************************************************************************)
(* Instances of Provisioning for TLC.                                      *)
(***************************************************************************)
EXTENDS Provisioning

Settings == <<Line("timeout", <<"60">>), Line("ping_timeout", <<"1">>),
              Line("server_port", <<"8080">>), Line("server_ip", <<"127.0.0.1">>)>>

\* A new computer; one that knows a database long gone, with a line twice and
\* a shell with an argument; one whose address has no value; one without timeout.
NewFile == <<Line("computer_id", <<"-1">>)>> \o Settings
OldFile == <<Line("shell", <<"zsh", "-l">>), Line("computer_id", <<"3">>)>>
               \o Settings \o <<Line("timeout", <<"5">>)>>
NoAddress == SubSeq(Settings, 1, 3) \o <<Line("computer_id", <<"-1">>), Line("server_ip", <<>>)>>
NoTimeout == SubSeq(NewFile, 3, 5)

AllFiles == {NewFile, OldFile, NoAddress, NoTimeout}

\* A configuration that was never given a computer_id.
NoIdentifier == {Settings}
=============================================================================
