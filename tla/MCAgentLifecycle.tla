-------------------------- MODULE MCAgentLifecycle --------------------------
(* The systemd unit and an agent that is started by hand, with a D-Bus service and *)
(* two parts; config files and command lines that are complete or lack something. *)
EXTENDS AgentLifecycle, TLC

CONSTANTS unit, hand, dbus, ccache, sleep

TwoProcesses == {unit, hand}
ThreeParts == {dbus, ccache, sleep}
StartOrder == <<dbus, ccache, sleep>>

Server(h) == [url |-> "u", hash |-> h]
Complete == [ServiceURL |-> "s", Realm |-> "r", HTTPSServers |-> <<Server("AB")>>]

\* Files that mention what has to be set, and some setting with an own or with an
\* invalid value; one without a server, and none at all.
SomeFiles ==
    {NoFile} \union
    [ok : {TRUE},
     settings : {Complete @@ [KeepAlive |-> 7], Complete @@ [KeepAlive |-> -1],
                 [ServiceURL |-> "s", Realm |-> "r"]}]

\* -help or -version; no file; a file with flags: one that is not the default, one
\* that is, an invalid one, servers that parse and servers that do not.
SomeFlags ==
    {<<>>, [KeepAlive |-> 9], [KeepAlive |-> 5], [RetryTimer |-> -1],
     [HTTPSServers |-> <<Server("AB")>>], [HTTPSServers |-> <<Server("ab"), Server("")>>]}

SomeCommandLines ==
    {[help |-> TRUE, useFile |-> FALSE, flags |-> <<>>],
     [help |-> FALSE, useFile |-> FALSE, flags |-> Complete]}
    \union [help : {FALSE}, useFile : {TRUE}, flags : SomeFlags]
=============================================================================
