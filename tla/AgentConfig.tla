---------------------------- MODULE AgentConfig ----------------------------
(***************************************************************************)
(* The configuration of an agent: pkg/config/config.go, and getConfig of   *)
(* internal/agent/cmd.go, which puts it together from the defaults, the    *)
(* config file and the command line.                                       *)
(*                                                                         *)
(* A configuration is a function on Settings.  A file or a command line is *)
(* a function on those settings that it mentions.  The settings of TND are *)
(* its https servers and, under "Config", those that package tnd checks.   *)
(***************************************************************************)
EXTENDS Integers, Sequences

Texts == {"ServiceURL", "Realm"}
Numbers == {"KeepAlive", "LoginTimeout", "LogoutTimeout", "RetryTimer", "StartDelay"}
Switches == {"Verbose", "Notifications"}
Settings == Texts \union Numbers \union Switches \union {"HTTPSServers", "Config"}

Default ==
    [s \in Settings |->
        CASE s \in Texts -> ""
          [] s \in {"KeepAlive", "LogoutTimeout"} -> 5
          [] s \in {"LoginTimeout", "RetryTimer"} -> 15
          [] s = "StartDelay" -> 0
          [] s \in Switches -> s = "Notifications"
          [] s = "HTTPSServers" -> <<>>
          [] s = "Config" -> "valid"]

\* What f mentions is as in f, and all else as in g.
Over(f, g) == [s \in DOMAIN f \union DOMAIN g |-> IF s \in DOMAIN f THEN f[s] ELSE g[s]]

ValidServer(server) == server.url # "" /\ server.hash # ""

Valid(c) ==
    /\ \A s \in Texts : c[s] # ""
    /\ \A s \in Numbers : c[s] >= 0
    /\ c.HTTPSServers # <<>>
    /\ \A i \in DOMAIN c.HTTPSServers : ValidServer(c.HTTPSServers[i])
    /\ c.Config = "valid"

\* A config file: whether it is there and the JSON of a configuration, and what it
\* mentions.
NoFile == [ok |-> FALSE, settings |-> <<>>]

\* Load of a file that can be read.
Load(file) == Over(file.settings, Default)

\* strings.ToLower, for the hashes that occur.
ToLower(hash) == IF hash = "AB" THEN "ab" ELSE hash

\* A list of url:hash pairs, of which each has a colon that something follows.
Parses(servers) ==
    /\ servers # <<>>
    /\ \A i \in DOMAIN servers : servers[i].hash # ""

ParseTNDServers(servers) ==
    [i \in DOMAIN servers |-> [servers[i] EXCEPT !.hash = ToLower(@)]]

\* A flag that has the default value is taken for one that is not set.
BugOverwrite(c, flags) ==
    Over([s \in {f \in DOMAIN flags : flags[f] # Default[f]} |->
            IF s = "HTTPSServers" THEN ParseTNDServers(flags[s]) ELSE flags[s]], c)

\* The settings on the command line overwrite those of c.
Overwrite(c, flags) ==
    Over([s \in DOMAIN flags |->
            IF s = "HTTPSServers" THEN ParseTNDServers(flags[s]) ELSE flags[s]], c)

\* What getConfig makes of the command line.
Combined(args, file) ==
    Overwrite(IF args.useFile THEN Load(file) ELSE Default, args.flags)

\* Whether getConfig returns a configuration.
ConfigOK(args, file) ==
    /\ ~args.help
    /\ args.useFile => file.ok
    /\ "HTTPSServers" \in DOMAIN args.flags => Parses(args.flags.HTTPSServers)
    /\ Valid(Combined(args, file))

=============================================================================
