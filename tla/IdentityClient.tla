--------------------------- MODULE IdentityClient ---------------------------
(***************************************************************************)
(* The identity agent client (internal/client/client.go): one goroutine    *)
(* that logs the user in at the identity service, refreshes the login when *)
(* its timer fires, and logs out when it is stopped.                       *)
(*                                                                         *)
(* The agent makes a new Client for every start, so the variables of a     *)
(* client are functions of a client object c in Clients.  An object whose  *)
(* goroutine is not running is in "closed" and may be used for the next    *)
(* NewClient: its other variables then have their zero values.             *)
(*                                                                         *)
(* Out of src/: the identity service (session), the timer of Go 1.25 (a    *)
(* value that fired but was not received is gone after Stop or Reset), and *)
(* the Kerberos library, which turns a ccache and a krb5.conf into         *)
(* credentials the service accepts or not (UsableCCaches).                 *)
(***************************************************************************)
EXTENDS Integers

CONSTANTS
    Clients,            \* client objects
    CCaches, NoCCache,  \* credential caches, and the nil one
    Krb5Confs, NoKrb5Conf,
    UsableCCaches,      \* caches that hold tickets the service accepts
    KeepAlive,          \* config.KeepAlive, in minutes
    RetryTimer,         \* config.RetryTimer, in seconds
    LoginTimeout,       \* config.LoginTimeout and config.LogoutTimeout, in seconds
    LogoutTimeout,
    ServedKeepAlives,   \* "keep-alive" values of a login response, in minutes
    MaxDuration         \* the largest time.Duration, in seconds

ASSUME CredentialsAssumption ==
    /\ NoCCache \notin CCaches
    /\ NoKrb5Conf \notin Krb5Confs
    /\ UsableCCaches \subseteq CCaches

ASSUME DurationsAssumption ==
    /\ {KeepAlive, RetryTimer, LoginTimeout, LogoutTimeout} \subseteq Nat
    /\ ServedKeepAlives \subseteq Int
    /\ MaxDuration \in Nat

VARIABLES
    pc,         \* where the goroutine of a client is
    timer,      \* "armed", "fired" (value not received) or "received"
    period,     \* the duration the timer was last set to
    done,       \* whether Stop closed the done channel
    outcome,    \* how the last login ended
    usable,     \* whether the request in flight carries good credentials
    ccache,
    krb5conf,
    keepAlive,  \* in minutes: ResetTimer makes a duration of it
    session     \* identity service: the last request it accepted was a login

clientVars == <<pc, timer, period, done, outcome, usable, ccache, krb5conf,
                keepAlive, session>>

LoginStates == {"LoggedOut", "LoggingIn", "LoggedIn", "LoggingOut"}

\* The places where the goroutine sends a result, and those after the done case
\* of its select.
Sends == {"loggingIn", "loginResult", "loggingOut", "loggedOut"}
LogoutSteps == {"loggingOut", "logout", "logoutWait", "loggedOut", "stopTimer"}
Steps == {"closed", "select", "login", "loginWait"} \union Sends \union LogoutSteps

\* Products of durations wrap around (config.go:92-113, client.go:164).
Wrap(d) == ((d + MaxDuration + 1) % (2 * (MaxDuration + 1))) - (MaxDuration + 1)
Seconds(n) == Wrap(n)
Minutes(n) == Wrap(60 * n)

KeepAlives == {KeepAlive} \union {k \in ServedKeepAlives : k > 0}
Durations == {0, Seconds(RetryTimer)} \union {Minutes(k) : k \in KeepAlives}

ClientTypeOK ==
    /\ pc \in [Clients -> Steps]
    /\ timer \in [Clients -> {"armed", "fired", "received"}]
    /\ period \in [Clients -> Durations]
    /\ done \in [Clients -> BOOLEAN]
    /\ outcome \in [Clients -> {"none", "ok", "unparsed", "failed"}]
    /\ usable \in [Clients -> BOOLEAN]
    /\ ccache \in [Clients -> CCaches \union {NoCCache}]
    /\ krb5conf \in [Clients -> Krb5Confs \union {NoKrb5Conf}]
    /\ keepAlive \in [Clients -> KeepAlives]
    /\ session \in BOOLEAN

ClientInit ==
    /\ pc = [c \in Clients |-> "closed"]
    /\ timer = [c \in Clients |-> "armed"]
    /\ period = [c \in Clients |-> 0]
    /\ done = [c \in Clients |-> FALSE]
    /\ outcome = [c \in Clients |-> "none"]
    /\ usable = [c \in Clients |-> FALSE]
    /\ ccache = [c \in Clients |-> NoCCache]
    /\ krb5conf = [c \in Clients |-> NoKrb5Conf]
    /\ keepAlive = [c \in Clients |-> KeepAlive]
    /\ session = FALSE

\* Definitions named Bug... are the definition that follows with a mistake in it,
\* which some property must notice (the mutants of PROJECT.json).

-----------------------------------------------------------------------------
\* Calls of the client's owner.

\* NewClient and Start, with the first tick of NewTimer(0) still to come.  The
\* channels of the new object are open.
StartNewClient(c, cc, kc) ==
    /\ pc[c] = "closed"
    /\ pc' = [pc EXCEPT ![c] = "select"]
    /\ ccache' = [ccache EXCEPT ![c] = cc]
    /\ krb5conf' = [krb5conf EXCEPT ![c] = kc]
    /\ keepAlive' = [keepAlive EXCEPT ![c] = KeepAlive]
    /\ timer' = [timer EXCEPT ![c] = "armed"]
    /\ period' = [period EXCEPT ![c] = 0]
    /\ done' = [done EXCEPT ![c] = FALSE]
    /\ UNCHANGED <<outcome, usable, session>>

\* The first half of Stop: close(done).  The second half, <-closed, is the
\* owner waiting for pc[c] = "closed".
CloseDone(c) ==
    /\ done' = [done EXCEPT ![c] = TRUE]
    /\ UNCHANGED <<pc, timer, period, outcome, usable, ccache, krb5conf,
                   keepAlive, session>>

SetCCache(c, cc) ==
    /\ ccache' = [ccache EXCEPT ![c] = cc]
    /\ UNCHANGED <<pc, timer, period, done, outcome, usable, krb5conf,
                   keepAlive, session>>

SetKrb5Conf(c, kc) ==
    /\ krb5conf' = [krb5conf EXCEPT ![c] = kc]
    /\ UNCHANGED <<pc, timer, period, done, outcome, usable, ccache,
                   keepAlive, session>>

-----------------------------------------------------------------------------
\* The goroutine.

TimerFires(c) ==
    /\ pc[c] # "closed"
    /\ timer[c] = "armed"
    /\ timer' = [timer EXCEPT ![c] = "fired"]
    /\ UNCHANGED <<pc, period, done, outcome, usable, ccache, krb5conf,
                   keepAlive, session>>

\* case <-timer.C of start: login() begins.
TimerCase(c) ==
    /\ pc[c] = "select"
    /\ timer[c] = "fired"
    /\ timer' = [timer EXCEPT ![c] = "received"]
    /\ pc' = [pc EXCEPT ![c] = "loggingIn"]
    /\ UNCHANGED <<period, done, outcome, usable, ccache, krb5conf, keepAlive,
                   session>>

\* case <-c.done of start: logout() begins.
DoneCase(c) ==
    /\ pc[c] = "select"
    /\ done[c]
    /\ pc' = [pc EXCEPT ![c] = "loggingOut"]
    /\ UNCHANGED <<timer, period, done, outcome, usable, ccache, krb5conf,
                   keepAlive, session>>

\* A failed login is reported as a success.
BugResult(c) ==
    CASE pc[c] = "loggingIn"  -> "LoggingIn"
      [] pc[c] = "loggingOut" -> "LoggingOut"
      [] pc[c] = "loginResult" -> "LoggedIn"
      [] OTHER -> "LoggedOut"

\* The state that the goroutine is about to send on the results channel.
Result(c) ==
    CASE pc[c] = "loggingIn"  -> "LoggingIn"
      [] pc[c] = "loggingOut" -> "LoggingOut"
      [] pc[c] = "loginResult" /\ outcome[c] \in {"ok", "unparsed"} -> "LoggedIn"
      [] OTHER -> "LoggedOut"

\* Where sendResult returns to.
AfterSend ==
    [l \in Sends |-> CASE l = "loggingIn"   -> "login"
                       [] l = "loginResult" -> "select"
                       [] l = "loggingOut"  -> "logout"
                       [] l = "loggedOut"   -> "stopTimer"]

\* The timer is left alone after an error.
BugNoReset(c) ==
    /\ timer' = IF outcome[c] = "ok" THEN [timer EXCEPT ![c] = "armed"] ELSE timer
    /\ period' = [period EXCEPT ![c] = Minutes(keepAlive[c])]

\* No retry timer.
BugNoRetry(c) ==
    /\ timer' = [timer EXCEPT ![c] = "armed"]
    /\ period' = [period EXCEPT ![c] = Minutes(keepAlive[c])]

\* login() returned and start resets the timer: a login that gave an error is
\* tried again after RetryTimer, and the JSON error of a login that was reported
\* as LoggedIn is an error too.
ResetTimer(c) ==
    /\ timer' = [timer EXCEPT ![c] = "armed"]
    /\ period' = [period EXCEPT ![c] =
                     IF outcome[c] = "ok" THEN Minutes(keepAlive[c]) ELSE Seconds(RetryTimer)]

\* sendResult returns, because the result was received or because of done.
SendReturns(c) ==
    /\ pc[c] \in Sends
    /\ pc' = [pc EXCEPT ![c] = AfterSend[pc[c]]]
    /\ \/ pc[c] = "loginResult" /\ ResetTimer(c)
       \/ pc[c] # "loginResult" /\ UNCHANGED <<timer, period>>
    /\ UNCHANGED <<done, outcome, usable, ccache, krb5conf, keepAlive, session>>

\* sendResult without a done case.
BugSendBlocks(c) == FALSE /\ SendReturns(c)

SendAborts(c) == done[c] /\ SendReturns(c)

-----------------------------------------------------------------------------
\* Requests.  doServiceRequest reads ccache and krb5conf when it starts, and
\* what the service does with the request happens before the answer or the
\* timeout ends the call.

RequestStarts(c, from, to) ==
    /\ pc[c] = from
    /\ pc' = [pc EXCEPT ![c] = to]
    /\ usable' = [usable EXCEPT ![c] = /\ ccache[c] \in UsableCCaches
                                       /\ krb5conf[c] # NoKrb5Conf]
    /\ UNCHANGED <<timer, period, done, outcome, ccache, krb5conf, keepAlive,
                   session>>

LoginStarts(c) == RequestStarts(c, "login", "loginWait")

LoginEnds(c, o) ==
    /\ pc[c] = "loginWait"
    /\ pc' = [pc EXCEPT ![c] = "loginResult"]
    /\ outcome' = [outcome EXCEPT ![c] = o]
    /\ UNCHANGED <<timer, period, done, usable, ccache, krb5conf>>

\* 200 and a response that parses; k is its keep-alive.
LoginOK(c, k) ==
    /\ usable[c]
    /\ session' = TRUE
    /\ keepAlive' = [keepAlive EXCEPT ![c] = IF k > 0 THEN k ELSE @]
    /\ LoginEnds(c, "ok")

\* 200 and a response that does not parse.
LoginUnparsed(c) ==
    /\ usable[c]
    /\ session' = TRUE
    /\ keepAlive' = keepAlive
    /\ LoginEnds(c, "unparsed")

\* No credentials, no answer in LoginTimeout, an answer other than 200, or an
\* answer that breaks off.  The service may have accepted the login.
LoginFailed(c) ==
    /\ session' \in {session, session \/ usable[c]}
    /\ keepAlive' = keepAlive
    /\ LoginEnds(c, "failed")

LoginReturns(c) ==
    \/ \E k \in ServedKeepAlives : LoginOK(c, k)
    \/ LoginUnparsed(c)
    \/ LoginFailed(c)

LogoutStarts(c) == RequestStarts(c, "logout", "logoutWait")

\* The answer to the logout, an error or LogoutTimeout; start only logs it.
LogoutEnds(c) ==
    /\ pc[c] = "logoutWait"
    /\ pc' = [pc EXCEPT ![c] = "loggedOut"]
    /\ session' \in {session, session /\ ~usable[c]}
    /\ UNCHANGED <<timer, period, done, outcome, usable, ccache, krb5conf,
                   keepAlive>>

\* The timer's channel is drained though a tick that was not received is gone.
BugDrain(c) ==
    /\ pc[c] = "stopTimer"
    /\ timer[c] = "armed"
    /\ pc' = [pc EXCEPT ![c] = "closed"]
    /\ UNCHANGED <<timer, period, done, outcome, usable, ccache, krb5conf,
                   keepAlive, session>>

\* timer.Stop() is true for a timer that is armed or fired; after a receive it
\* is false, and <-timer.C would block for good.  Then start returns, results
\* and closed are closed, and the object is garbage.
Closes(c) ==
    /\ pc[c] = "stopTimer"
    /\ timer[c] # "received"
    /\ pc' = [pc EXCEPT ![c] = "closed"]
    /\ timer' = [timer EXCEPT ![c] = "armed"]
    /\ period' = [period EXCEPT ![c] = 0]
    /\ done' = [done EXCEPT ![c] = FALSE]
    /\ outcome' = [outcome EXCEPT ![c] = "none"]
    /\ usable' = [usable EXCEPT ![c] = FALSE]
    /\ ccache' = [ccache EXCEPT ![c] = NoCCache]
    /\ krb5conf' = [krb5conf EXCEPT ![c] = NoKrb5Conf]
    /\ keepAlive' = [keepAlive EXCEPT ![c] = KeepAlive]
    /\ UNCHANGED session

\* The steps a client takes without its owner.
ClientStep(c) ==
    \/ TimerFires(c)
    \/ TimerCase(c)
    \/ DoneCase(c)
    \/ SendAborts(c)
    \/ LoginStarts(c)
    \/ LoginReturns(c)
    \/ LogoutStarts(c)
    \/ LogoutEnds(c)
    \/ Closes(c)

-----------------------------------------------------------------------------
\* The client on its own, with an owner that makes any legal sequence of calls:
\* it may receive any result, and calls Stop once.

OwnerStep(c) ==
    \/ \E cc \in CCaches \union {NoCCache}, kc \in Krb5Confs \union {NoKrb5Conf} :
          StartNewClient(c, cc, kc)
    \/ /\ pc[c] # "closed"
       /\ \/ ~done[c] /\ CloseDone(c)
          \/ \E cc \in CCaches : SetCCache(c, cc)
          \/ \E kc \in Krb5Confs : SetKrb5Conf(c, kc)

Receives(c) == SendReturns(c)

ClientNext == \E c \in Clients : ClientStep(c) \/ OwnerStep(c) \/ Receives(c)

\* The runtime runs the goroutine and fires the timer; of the two cases of the
\* select that are ready again and again, each is taken in the end (Go picks
\* one at random).  A request ends because of its timeout, if it has one: http.Client
\* takes 0, and the negative durations of an overflow, for none.
ClientFairness(c) ==
    /\ WF_clientVars(TimerFires(c))
    /\ SF_clientVars(TimerCase(c))
    /\ SF_clientVars(DoneCase(c))
    /\ WF_clientVars(SendAborts(c))
    /\ WF_clientVars(LoginStarts(c))
    /\ Seconds(LoginTimeout) > 0 => WF_clientVars(LoginReturns(c))
    /\ WF_clientVars(LogoutStarts(c))
    /\ Seconds(LogoutTimeout) > 0 => WF_clientVars(LogoutEnds(c))
    /\ WF_clientVars(Closes(c))

ClientSafe == ClientInit /\ [][ClientNext]_clientVars

ClientSpec ==
    /\ ClientSafe
    /\ \A c \in Clients : ClientFairness(c) /\ WF_clientVars(Receives(c))

-----------------------------------------------------------------------------
(* Properties *)

\* While the goroutine waits in select or is on its way out, its timer holds a
\* tick that was not received yet: the next login comes, and the drain of the
\* timer in the done case (client.go:219) cannot block the goroutine and with it
\* the agent's main loop.
TimerPending ==
    \A c \in Clients :
        pc[c] \in {"select"} \union LogoutSteps => timer[c] # "received"

\* How long a client waits for its next login: as many minutes as the service last
\* asked for after a login that succeeded (an invalid keep-alive changes nothing),
\* as many seconds as configured after one that failed (client.go:199-208).  Only if
\* that does not fit a time.Duration the wait is another one; then the client may
\* ask the service without a pause.
Fits(d) == d <= MaxDuration

WaitFitsOutcome ==
    \A c \in Clients : pc[c] = "select" =>
        /\ outcome[c] = "ok" /\ Fits(60 * keepAlive[c]) => period[c] = 60 * keepAlive[c]
        /\ outcome[c] = "failed" /\ Fits(RetryTimer) => period[c] = RetryTimer

\* The comment at client.go:155 says of a 200 response without a parseable
\* result that the login is assumed to be successful, and LoggedIn is sent: then
\* the next login is due when the keep-alive time is over.
UnparsedIsSuccessful ==
    \A c \in Clients :
        pc[c] = "select" /\ outcome[c] = "unparsed" => period[c] = Minutes(keepAlive[c])

\* Stop returns: whatever the goroutine does when done is closed, it gets to the
\* logout and to the end.  The owner of the results does not have to help.
StopReturns == \A c \in Clients : done[c] ~> pc[c] = "closed"

\* A client that is not stopped asks the service again and again: no answer, no
\* error and no result that nobody takes at once ends the refreshing.
KeepsRefreshing ==
    \A c \in Clients : pc[c] = "select" ~> pc[c] = "loginWait" \/ done[c]

=============================================================================
