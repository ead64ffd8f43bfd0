------------------------------- MODULE Agent -------------------------------
(***************************************************************************)
(* The agent (internal/agent/agent.go) with its identity agent client, the *)
(* D-Bus callers of ReLogin (internal/dbusapi/service.go) and the main     *)
(* goroutine (internal/agent/cmd.go).                                      *)
(*                                                                         *)
(* The main loop handles one event at a time.  A handler is one action, up *)
(* to the only place where it waits: client.Stop in stopClient, "stopWait" *)
(* here, which the client needs its requests and timeouts to get out of.   *)
(* Meanwhile every other part of the program goes on.                      *)
(*                                                                         *)
(* The model begins where Start has started all monitors and the loop.     *)
(* Trusted network detection (package tnd), the Kerberos files and the     *)
(* sleep signals are the environment.  A notification that is sent while   *)
(* the notifier is open is shown.                                          *)
(***************************************************************************)
EXTENDS IdentityClient

CONSTANTS
    NoClient,       \* nil: no client is running
    Times,          \* start and end times of a TGT
    NoTGT,          \* no TGT of the realm (and zero times, which no TGT has)
    TGT,            \* the times of the realm's TGT in a ccache, or NoTGT
    Callers,        \* D-Bus calls of ReLogin
    NoCaller,
    Notifications,  \* config.Notifications, with a working notifier
    Networks        \* where the host may be: TRUE is a trusted network

ASSUME AgentAssumption ==
    /\ NoClient \notin Clients
    /\ NoCaller \notin Callers
    /\ NoTGT \notin Times
    /\ TGT \in [CCaches -> Times \union {NoTGT}]
    /\ Notifications \in BOOLEAN
    /\ Networks \subseteq BOOLEAN

VARIABLES
    apc,            \* where the main loop is
    after,          \* what follows the stopClient it waits in
    request,        \* the ReLogin call it handles meanwhile
    client,         \* a.client
    login,          \* a.login, the results channel of that client
    ccacheUp,
    krbcfgUp,
    kerberosTGT,
    trustedNetwork, \* whether the status is "trusted"
    loginState,
    loggedIn,
    lastKeepAlive,  \* whether the time was ever set
    failed,         \* the loop sent an error: a channel was closed
    main,           \* where the main goroutine is
    shownTrusted,   \* the last notification of the trusted network shown
    shownLogin,     \* the last notification of the login shown
    caller,         \* the state of the ReLogin calls
    network,        \* the host is in a trusted network
    tndResult,      \* the result that TND has ready to send
    broken          \* the channel of a monitor is closed

loopVars == <<apc, after, request, failed>>
credentialVars == <<ccacheUp, krbcfgUp, kerberosTGT>>
statusVars == <<loginState, loggedIn, shownLogin>>
trustVars == <<trustedNetwork, shownTrusted>>
envVars == <<network, tndResult, broken>>
agentVars == <<loopVars, client, login, credentialVars, statusVars,
               trustVars, lastKeepAlive, main, caller, envVars>>
vars == <<clientVars, agentVars>>

TypeOK ==
    /\ ClientTypeOK
    /\ apc \in {"select", "stopWait", "exit", "closed"}
    /\ after \in {"select", "restart", "exit"}
    /\ request \in Callers \union {NoCaller}
    /\ client \in Clients \union {NoClient}
    /\ login \in Clients \union {NoClient}
    /\ ccacheUp \in CCaches \union {NoCCache}
    /\ krbcfgUp \in Krb5Confs \union {NoKrb5Conf}
    /\ kerberosTGT \in Times \union {NoTGT}
    /\ trustedNetwork \in BOOLEAN
    /\ loginState \in LoginStates
    /\ loggedIn \in BOOLEAN
    /\ lastKeepAlive \in BOOLEAN
    /\ failed \in BOOLEAN
    /\ main \in {"wait", "notifierClosed", "stopping", "exited"}
    /\ shownTrusted \in BOOLEAN
    /\ shownLogin \in BOOLEAN
    /\ caller \in [Callers -> {"idle", "sending", "waiting", "restarted", "refused"}]
    /\ network \in Networks
    /\ tndResult \in {"none", "trusted", "untrusted"}
    /\ broken \in BOOLEAN

Init ==
    /\ ClientInit
    /\ apc = "select" /\ after = "select" /\ request = NoCaller
    /\ client = NoClient /\ login = NoClient
    /\ ccacheUp = NoCCache /\ krbcfgUp = NoKrb5Conf /\ kerberosTGT = NoTGT
    /\ trustedNetwork = FALSE /\ shownTrusted = FALSE
    /\ loginState = "LoggedOut" /\ loggedIn = FALSE /\ shownLogin = FALSE
    /\ lastKeepAlive = FALSE
    /\ failed = FALSE
    /\ main = "wait"
    /\ caller = [k \in Callers |-> "idle"]
    /\ network \in Networks /\ tndResult = "none" /\ broken = FALSE

\* Definitions named Bug... are the definition that follows with a mistake in it,
\* which some property must notice (the mutants of PROJECT.json).

-----------------------------------------------------------------------------
\* Status setters, with the notifications they send and their early returns.

\* Stop closes the notifier after the loop has ended.
BugNotifierLast == Notifications /\ main # "exited"

NotifierOpen == Notifications /\ main = "wait"

\* Only the login is worth a notification.
BugNoLogoutNote(s) ==
    /\ loginState' = s
    /\ loggedIn' = (s = "LoggedIn" \/ (s # "LoggedOut" /\ loggedIn))
    /\ shownLogin' = IF NotifierOpen /\ loggedIn' THEN TRUE ELSE shownLogin

SetLoginState(s) ==
    /\ loginState' = s
    /\ loggedIn' = IF s \in {"LoggedIn", "LoggedOut"} /\ s # loginState
                   THEN s = "LoggedIn" ELSE loggedIn
    /\ shownLogin' = IF NotifierOpen /\ loggedIn' # loggedIn
                     THEN loggedIn' ELSE shownLogin

SetTrustedNetwork(t) ==
    /\ trustedNetwork' = t
    /\ shownTrusted' = IF NotifierOpen /\ t # trustedNetwork
                       THEN t ELSE shownTrusted

-----------------------------------------------------------------------------
\* startClient, called with the ccache and config the agent has by then and when
\* no client or client cl is running.
StartClient(cl, cc, kc) ==
    \/ /\ cl = NoClient /\ cc # NoCCache /\ kc # NoKrb5Conf
       /\ \E c \in Clients :
             StartNewClient(c, cc, kc) /\ client' = c /\ login' = c
    \/ /\ cl # NoClient \/ cc = NoCCache \/ kc = NoKrb5Conf
       /\ client' = cl /\ login' = cl
       /\ UNCHANGED clientVars

\* stopClient of a running client, up to where it waits for the client.
BeginStop(goal) ==
    /\ client # NoClient
    /\ SetLoginState("LoggingOut")
    /\ CloseDone(client)
    /\ apc' = "stopWait"
    /\ after' = goal
    /\ UNCHANGED <<client, login>>

\* stopClient, when there may be no client to stop: then it returns at once.
StopClient(goal) ==
    \/ BeginStop(goal)
    \/ /\ client = NoClient
       /\ apc' = goal
       /\ UNCHANGED <<clientVars, after, client, login, statusVars>>

\* stopClient does not wait for the client.
BugStopNoWait ==
    /\ apc = "stopWait"
    /\ SetLoginState("LoggedOut")
    /\ apc' = IF after = "exit" THEN "exit" ELSE "select"
    /\ after' = "select"
    /\ request' = NoCaller
    /\ client' = NoClient /\ login' = NoClient
    /\ caller' = [k \in Callers |-> IF k = request THEN "restarted" ELSE caller[k]]
    /\ UNCHANGED <<clientVars, credentialVars, trustVars, lastKeepAlive, failed,
                   main, envVars>>

\* The client is closed: stopClient ends, and the handler that called it.
StopClientReturns ==
    /\ apc = "stopWait"
    /\ pc[client] = "closed"
    /\ SetLoginState("LoggedOut")
    /\ apc' = IF after = "exit" THEN "exit" ELSE "select"
    /\ after' = "select"
    /\ request' = NoCaller
    /\ \/ /\ after = "restart"
          /\ StartClient(NoClient, ccacheUp, krbcfgUp)
          /\ caller' = [caller EXCEPT ![request] = "restarted"]
       \/ /\ after # "restart"
          /\ client' = NoClient /\ login' = NoClient
          /\ UNCHANGED <<clientVars, caller>>
    /\ UNCHANGED <<credentialVars, trustVars, lastKeepAlive, failed, main, envVars>>

-----------------------------------------------------------------------------
\* The cases of the main loop's select.

\* Only the gain of trust is handled.
BugTrustOnly(r) ==
    /\ apc = "select"
    /\ tndResult = r
    /\ tndResult' = "none"
    /\ SetTrustedNetwork(r = "trusted")
    /\ \/ r = "trusted" /\ StartClient(client, ccacheUp, krbcfgUp)
       \/ r = "untrusted" /\ UNCHANGED <<clientVars, client, login>>
    /\ UNCHANGED <<apc, after, statusVars, request, failed, credentialVars,
                   lastKeepAlive, main, caller, network, broken>>

HandleTNDResult(r) ==
    /\ apc = "select"
    /\ tndResult = r
    /\ tndResult' = "none"
    /\ SetTrustedNetwork(r = "trusted")
    /\ \/ /\ r = "trusted"
          /\ StartClient(client, ccacheUp, krbcfgUp)
          /\ UNCHANGED <<apc, after, statusVars>>
       \/ r = "untrusted" /\ StopClient("select")
    /\ UNCHANGED <<request, failed, credentialVars, lastKeepAlive, main, caller,
                   network, broken>>

\* The loop takes a result from a.login, which lets sendResult return.
HandleLoginResult ==
    /\ apc = "select"
    /\ login # NoClient
    /\ SendReturns(login)
    /\ SetLoginState(Result(login))
    /\ lastKeepAlive' = (lastKeepAlive \/ Result(login) = "LoggedIn")
    /\ UNCHANGED <<loopVars, client, login, credentialVars, trustVars, main,
                   caller, envVars>>

\* A running client keeps its old ccache.
BugCCacheKept(u) ==
    /\ apc = "select"
    /\ TGT[u] \notin {NoTGT, kerberosTGT}
    /\ kerberosTGT' = TGT[u]
    /\ ccacheUp' = u
    /\ \/ trustedNetwork /\ StartClient(client, u, krbcfgUp)
       \/ ~trustedNetwork /\ UNCHANGED <<clientVars, client, login>>
    /\ UNCHANGED <<loopVars, krbcfgUp, statusVars, trustVars, lastKeepAlive, main,
                   caller, envVars>>

\* An update without a TGT of the realm, or with the times of the one the agent
\* has, is dropped.
HandleCCacheUpdate(u) ==
    /\ apc = "select"
    /\ TGT[u] \notin {NoTGT, kerberosTGT}
    /\ kerberosTGT' = TGT[u]
    /\ ccacheUp' = u
    /\ \/ /\ client # NoClient
          /\ SetCCache(client, u)
          /\ UNCHANGED <<client, login>>
       \/ /\ client = NoClient /\ trustedNetwork
          /\ StartClient(client, u, krbcfgUp)
       \/ /\ client = NoClient /\ ~trustedNetwork
          /\ UNCHANGED <<clientVars, client, login>>
    /\ UNCHANGED <<loopVars, krbcfgUp, statusVars, trustVars, lastKeepAlive, main,
                   caller, envVars>>

\* The start that waited for a krb5.conf is missed.
BugConfNoStart(u) ==
    /\ apc = "select"
    /\ krbcfgUp' = u
    /\ \/ client # NoClient /\ SetKrb5Conf(client, u)
       \/ client = NoClient /\ UNCHANGED clientVars
    /\ UNCHANGED <<loopVars, client, login, ccacheUp, kerberosTGT, statusVars,
                   trustVars, lastKeepAlive, main, caller, envVars>>

HandleKrbConfUpdate(u) ==
    /\ apc = "select"
    /\ krbcfgUp' = u
    /\ \/ /\ client # NoClient
          /\ SetKrb5Conf(client, u)
          /\ UNCHANGED <<client, login>>
       \/ /\ client = NoClient /\ trustedNetwork
          /\ StartClient(client, ccacheUp, u)
       \/ /\ client = NoClient /\ ~trustedNetwork
          /\ UNCHANGED <<clientVars, client, login>>
    /\ UNCHANGED <<loopVars, ccacheUp, kerberosTGT, statusVars, trustVars,
                   lastKeepAlive, main, caller, envVars>>

\* A ReLogin does not look at the trust.
BugReLoginUntrusted(k) ==
    /\ apc = "select"
    /\ caller[k] = "sending"
    /\ client = NoClient
    /\ caller' = [caller EXCEPT ![k] = "restarted"]
    /\ StartClient(NoClient, ccacheUp, krbcfgUp)
    /\ UNCHANGED <<apc, after, request, failed, statusVars, credentialVars, trustVars,
                   lastKeepAlive, main, envVars>>

\* A ReLogin: refused, or a restart that the caller is told of at its end.
HandleReLogin(k) ==
    /\ apc = "select"
    /\ caller[k] = "sending"
    /\ \/ /\ ~trustedNetwork
          /\ caller' = [caller EXCEPT ![k] = "refused"]
          /\ UNCHANGED <<clientVars, apc, after, request, client, login, statusVars>>
       \/ /\ trustedNetwork /\ client # NoClient
          /\ caller' = [caller EXCEPT ![k] = "waiting"]
          /\ request' = k
          /\ BeginStop("restart")
       \/ /\ trustedNetwork /\ client = NoClient
          /\ caller' = [caller EXCEPT ![k] = "restarted"]
          /\ StartClient(NoClient, ccacheUp, krbcfgUp)
          /\ UNCHANGED <<apc, after, request, statusVars>>
    /\ UNCHANGED <<failed, credentialVars, trustVars, lastKeepAlive, main, envVars>>

\* The client sleeps with the host.
BugSleepNoStop ==
    /\ apc = "select"
    /\ SetTrustedNetwork(FALSE)
    /\ UNCHANGED <<clientVars, loopVars, client, login, statusVars, credentialVars,
                   lastKeepAlive, main, caller, envVars>>

\* The host is about to sleep; the event of its waking up is ignored.
HandleSleepEvent ==
    /\ apc = "select"
    /\ SetTrustedNetwork(FALSE)
    /\ StopClient("select")
    /\ UNCHANGED <<request, failed, credentialVars, lastKeepAlive, main, caller,
                   envVars>>

\* The agent stops with no logout.
BugDoneNoStop ==
    /\ apc = "select"
    /\ main = "stopping"
    /\ apc' = "exit"
    /\ UNCHANGED <<clientVars, after, request, failed, client, login, statusVars,
                   credentialVars, trustVars, lastKeepAlive, main, caller, envVars>>

HandleDone ==
    /\ apc = "select"
    /\ main = "stopping"
    /\ StopClient("exit")
    /\ UNCHANGED <<request, failed, credentialVars, trustVars, lastKeepAlive, main,
                   caller, envVars>>

\* A channel is closed: an error is sent and the loop returns, with no logout.
ChannelClosed ==
    /\ apc = "select"
    /\ \/ broken
       \/ login # NoClient /\ pc[login] = "closed"
    /\ apc' = "exit"
    /\ failed' = TRUE
    /\ UNCHANGED <<clientVars, after, request, client, login, credentialVars,
                   statusVars, trustVars, lastKeepAlive, main, caller, envVars>>

\* The deferred stops of the monitors and the D-Bus service, and close(closed).
Exits ==
    /\ apc = "exit"
    /\ apc' = "closed"
    /\ UNCHANGED <<clientVars, after, request, failed, client, login,
                   credentialVars, statusVars, trustVars, lastKeepAlive, main,
                   caller, envVars>>

-----------------------------------------------------------------------------
\* The main goroutine: run and Stop.

MainMoves(from, to) ==
    /\ main = from
    /\ main' = to
    /\ UNCHANGED <<clientVars, loopVars, client, login, credentialVars, statusVars,
                   trustVars, lastKeepAlive, caller, envVars>>

\* SIGINT at any time, or an error of the loop: the deferred Stop begins.
Interrupted == MainMoves("wait", "notifierClosed")
SeesError == failed /\ MainMoves("wait", "notifierClosed")
ClosesDone == MainMoves("notifierClosed", "stopping")
ProcessExits == apc = "closed" /\ MainMoves("stopping", "exited")

\* A ReLogin method call: sent over requests or given up when the service is
\* done, then answered when the request is closed or the service is done.
CallerMoves(k, from, to) ==
    /\ caller[k] = from
    /\ caller' = [caller EXCEPT ![k] = to]
    /\ UNCHANGED <<clientVars, loopVars, client, login, credentialVars, statusVars,
                   trustVars, lastKeepAlive, main, envVars>>

CallReLogin(k) == CallerMoves(k, "idle", "sending")

ReLoginReturns(k) ==
    \/ CallerMoves(k, "restarted", "idle")
    \/ CallerMoves(k, "refused", "idle")
    \/ apc = "closed" /\ CallerMoves(k, "sending", "idle")

-----------------------------------------------------------------------------
\* The environment.

NetworkChanges ==
    /\ network' \in Networks \ {network}
    /\ UNCHANGED <<clientVars, loopVars, client, login, credentialVars, statusVars,
                   trustVars, lastKeepAlive, main, caller, tndResult, broken>>

\* TND probed its servers.  Its result waits until the agent takes it.
TNDProbes ==
    /\ tndResult = "none"
    /\ tndResult' = IF network THEN "trusted" ELSE "untrusted"
    /\ UNCHANGED <<clientVars, loopVars, client, login, credentialVars, statusVars,
                   trustVars, lastKeepAlive, main, caller, network, broken>>

\* A monitor lost its source (file watch, D-Bus connection) and closed its channel.
MonitorFails ==
    /\ ~broken /\ apc \in {"select", "stopWait"}
    /\ broken' = TRUE
    /\ UNCHANGED <<clientVars, loopVars, client, login, credentialVars, statusVars,
                   trustVars, lastKeepAlive, main, caller, network, tndResult>>

-----------------------------------------------------------------------------
HandleTND == \E r \in {"trusted", "untrusted"} : HandleTNDResult(r)

LoopStep ==
    \/ HandleTND
    \/ HandleLoginResult
    \/ \E u \in CCaches : HandleCCacheUpdate(u)
    \/ \E u \in Krb5Confs : HandleKrbConfUpdate(u)
    \/ \E k \in Callers : HandleReLogin(k)
    \/ HandleSleepEvent
    \/ HandleDone
    \/ ChannelClosed
    \/ StopClientReturns
    \/ Exits

ClientsStep ==
    /\ \E c \in Clients : ClientStep(c)
    /\ UNCHANGED agentVars

MainStep == Interrupted \/ SeesError \/ ClosesDone \/ ProcessExits

CallerStep == \E k \in Callers : CallReLogin(k) \/ ReLoginReturns(k)

EnvironmentStep == NetworkChanges \/ TNDProbes \/ MonitorFails

\* The process is gone, and all its goroutines with it.
Terminated == main = "exited" /\ UNCHANGED vars

Next ==
    \/ /\ main # "exited"
       /\ LoopStep \/ ClientsStep \/ MainStep \/ CallerStep \/ EnvironmentStep
    \/ Terminated

Spec == Init /\ [][Next]_vars

-----------------------------------------------------------------------------
(* Safety *)

Live == {c \in Clients : pc[c] # "closed"}

\* At any time at most one client goroutine is alive, and it is the agent's: a
\* restart waits for the old client, whose late logout would otherwise end the
\* session of the new one at the service (agent.go:242-255, client.go:233-236).
OneLiveClient == Live \subseteq {client}

\* A client that was not told to stop runs only while the network is trusted:
\* every way to lose the trust (TND, sleep) stops the client before the loop takes
\* the next event, and every way to start one looks at the trust.
ClientOnlyWhenTrusted ==
    \A c \in Live : done[c] \/ trustedNetwork

\* No start is missed: in whatever order trust, ccache and krb5.conf arrive, the
\* loop does not wait for the next event without a client when it has all three.
ClientWheneverPossible ==
    apc = "select" /\ trustedNetwork /\ ccacheUp # NoCCache /\ krbcfgUp # NoKrb5Conf
        => client # NoClient

\* The running client has the newest credentials the agent accepted, and the
\* TGT times on D-Bus are those of its ccache.
CredentialsCurrent ==
    /\ \A c \in Live : ccache[c] = ccacheUp /\ krb5conf[c] = krbcfgUp
    /\ ccacheUp # NoCCache => TGT[ccacheUp] = kerberosTGT

\* "Logged in" is never shown while the service does not have the user logged in
\* by the agent's doing: no late logout, failed refresh or restart is hidden.
LoggedInMeansSession == loginState = "LoggedIn" => session

\* The login state follows the client through its life: "logging out" exactly
\* while the loop waits for the client to stop, "logged out" without a client.
StateFitsClient ==
    /\ (loginState = "LoggingOut") <=> (apc = "stopWait")
    /\ client = NoClient => loginState = "LoggedOut"

\* While the notifier is open the last notifications shown tell the trust and the
\* login as they are, and loggedIn agrees with the login state.
NotificationsCurrent ==
    /\ loginState = "LoggedIn" => loggedIn /\ lastKeepAlive
    /\ loginState = "LoggedOut" => ~loggedIn
    /\ NotifierOpen => shownLogin = loggedIn /\ shownTrusted = trustedNetwork

\* An agent that is stopped leaves nothing behind: it logged out and its client is
\* gone before its loop ends (agent.go:427-430).
CleanExit ==
    apc \in {"exit", "closed"} /\ ~failed =>
        /\ Live = {}
        /\ loginState = "LoggedOut"

\* A ReLogin is answered without an error only in a trusted network, and then no
\* client that ran before the call is left: the client, which there is if the
\* agent has the credentials, has all of its first login before it.
ReLoginRestarts ==
    [][\A k \in Callers :
        caller[k] # "restarted" /\ caller'[k] = "restarted" =>
            /\ trustedNetwork
            /\ loginState' = "LoggedOut"
            /\ \/ client' = NoClient /\ NoCCache = ccacheUp
               \/ client' = NoClient /\ NoKrb5Conf = krbcfgUp
               \/ /\ client' # NoClient
                  /\ pc[client'] = "closed" /\ pc'[client'] = "select"]_vars

-----------------------------------------------------------------------------
(* The inductive invariant: what holds together in every state and makes the *)
(* properties above hold (proved in AgentProofs).                            *)

\* Who is alive and who is being stopped.  Only the loop closes done, then waits
\* for that client, and no other goroutine touches the client that it waits for.
StopInv ==
    /\ login = client
    /\ OneLiveClient
    /\ apc = "select" => client \in Live \union {NoClient}
    /\ apc = "stopWait" => client # NoClient /\ \A c \in Live : done[c]
    /\ \A c \in Clients : done[c] => c \in Live /\ apc = "stopWait"
    /\ \A c \in Clients : pc[c] \in LogoutSteps => done[c]
    /\ failed => apc \in {"exit", "closed"}
    /\ apc \in {"exit", "closed"} /\ ~failed => client = NoClient

\* Why the loop waits tells the trust.
TrustInv ==
    /\ client # NoClient /\ apc # "stopWait" => trustedNetwork
    /\ apc = "stopWait" /\ after = "restart" => trustedNetwork
    /\ apc = "stopWait" /\ after = "select" => ~trustedNetwork
    /\ ClientWheneverPossible

\* The login state that was shown last, and where the client is in its login.
StateInv ==
    /\ StateFitsClient
    /\ apc = "select" /\ client # NoClient =>
        /\ pc[client] \in {"select", "loggingIn"}
                => loginState \in {"LoggedOut", "LoggedIn"}
        /\ pc[client] \in {"login", "loginWait", "loginResult"}
                => loginState = "LoggingIn"
    /\ \A c \in Clients :
        pc[c] = "loginResult" /\ outcome[c] \in {"ok", "unparsed"} => session
    /\ LoggedInMeansSession

IInv == TypeOK /\ StopInv /\ TrustInv /\ StateInv

-----------------------------------------------------------------------------
(* Refinement and liveness *)

Status == INSTANCE LoginStatus WITH trusted <- trustedNetwork, state <- loginState

\* The trust and login state that the agent shows move as LoginStatus promises,
\* and a logout that is shown comes to its end.
StatusSpec == Status!Spec

\* The safety part of it.
StatusSafe == Status!Safe

\* Go's select takes one of the ready cases at random: a case that is ready again
\* and again is taken in the end.  All else the runtime and the timeouts drive.
\* The updates of the Kerberos files, the sleep events, the callers and the
\* service's answers are free, except where a property names what they do.
LoopFairness ==
    /\ SF_vars(HandleTND)
    /\ SF_vars(HandleLoginResult)
    /\ SF_vars(HandleDone)
    /\ SF_vars(ChannelClosed)
    /\ WF_vars(StopClientReturns)
    /\ WF_vars(Exits)

ClientsFairness ==
    \A c \in Clients :
        /\ WF_vars(TimerFires(c) /\ UNCHANGED agentVars)
        /\ SF_vars(TimerCase(c) /\ UNCHANGED agentVars)
        /\ SF_vars(DoneCase(c) /\ UNCHANGED agentVars)
        /\ WF_vars(SendAborts(c) /\ UNCHANGED agentVars)
        /\ WF_vars(LoginStarts(c) /\ UNCHANGED agentVars)
        /\ Seconds(LoginTimeout) > 0 => WF_vars(LoginReturns(c) /\ UNCHANGED agentVars)
        /\ WF_vars(LogoutStarts(c) /\ UNCHANGED agentVars)
        /\ Seconds(LogoutTimeout) > 0 => WF_vars(LogoutEnds(c) /\ UNCHANGED agentVars)
        /\ WF_vars(Closes(c) /\ UNCHANGED agentVars)

OtherFairness ==
    /\ WF_vars(SeesError)
    /\ WF_vars(ClosesDone)
    /\ WF_vars(ProcessExits)
    /\ WF_vars(TNDProbes)

FairSpec == Spec /\ LoopFairness /\ ClientsFairness /\ OtherFairness

\* A SIGINT ends the process, whatever the loop and the client are doing, and so
\* does a channel that is closed.
ProcessEnds ==
    /\ main = "notifierClosed" ~> main = "exited"
    /\ broken ~> main = "exited"

KeepsRunning == [](main = "wait" /\ ~broken)

\* The trust that is shown follows the network in the end.  A result that TND
\* probed before the network went, or before the host went to sleep, may be taken
\* afterwards; it does not stand, and neither does a login it started.
UntrustedLogsOut ==
    KeepsRunning => (<>[]~network => <>[](~trustedNetwork /\ loginState = "LoggedOut"))

\* In a trusted network, with good credentials and without sleep and ReLogin, a
\* user is logged in again and again when the service does not refuse for ever.
ServiceAccepts ==
    \A c \in Clients :
        SF_vars((\E k \in ServedKeepAlives : LoginOK(c, k)) /\ UNCHANGED agentVars)

GoodConditions ==
    /\ <>[](network /\ ccacheUp \in UsableCCaches /\ krbcfgUp # NoKrb5Conf)
    /\ <>[][~HandleSleepEvent]_vars
    /\ \A k \in Callers : <>[](caller[k] = "idle")

TrustedLogsIn ==
    KeepsRunning /\ ServiceAccepts /\ GoodConditions => []<>(loginState = "LoggedIn")

=============================================================================
