------------------------------ MODULE AgentBus ------------------------------
(***************************************************************************)
(* The agent together with its D-Bus service and the desktop.              *)
(*                                                                         *)
(* A handler of module Agent sets its variables in one step.  Here it then *)
(* makes the calls that go with them one after the other (outbox): the     *)
(* desktop notifications and the SetProperty calls of the setters of       *)
(* internal/agent/agent.go.  It calls client.Stop after them and returns to *)
(* the select.  The desktop need not answer a notification.                *)
(*                                                                         *)
(* The model begins with a service that has started, as module Agent does. *)
(***************************************************************************)
EXTENDS Agent, SequencesExt

CONSTANT Unknown    \* unknown or invalid values of properties

VARIABLES
    outbox,     \* the calls that the handler still has to make
    spc, next, props, offered, update, want, owner, sdone   \* see DBusService

serviceVars == <<spc, next, props, offered, update, want, owner, sdone>>
busVars == <<outbox, serviceVars>>
allVars == <<vars, busVars>>

\* The properties but Config, which Start sets, in the order in which Stop sets them.
BusOrder == <<"TrustedNetwork", "LoginState", "LastKeepAliveAt",
              "KerberosTGTStartTime", "KerberosTGTEndTime">>
BusProps == ToSet(BusOrder)
BusInitial == [p \in BusProps |-> CASE p = "TrustedNetwork" -> "NotTrusted"
                                    [] p = "LoginState" -> "LoggedOut"
                                    [] OTHER -> Unknown]
BusValues == {"Trusted", "NotTrusted", "Set"} \union LoginStates \union Times

ASSUME BusAssumption == Unknown \notin BusValues

Service == INSTANCE DBusService WITH
    Props <- BusProps, Order <- BusOrder, Values <- BusValues, Initial <- BusInitial,
    call <- caller, done <- sdone

BusInit ==
    /\ Init
    /\ outbox = <<>>
    /\ spc = "run" /\ next = 1 /\ owner = "idle" /\ sdone = FALSE
    /\ props = BusInitial /\ want = BusInitial
    /\ offered = Service!NoUpdate /\ update = Service!NoUpdate

\* Definitions named Bug... are the definition that follows with a mistake in it,
\* which some property must notice (the mutants of PROJECT.json).

-----------------------------------------------------------------------------
\* The calls of the setters.

\* The values of the properties that the agent's variables stand for.
Shown == [p \in BusProps |->
    CASE p = "TrustedNetwork" -> IF trustedNetwork THEN "Trusted" ELSE "NotTrusted"
      [] p = "LoginState" -> loginState
      [] p = "LastKeepAliveAt" -> IF lastKeepAlive THEN "Set" ELSE Unknown
      [] OTHER -> IF kerberosTGT = NoTGT THEN Unknown ELSE kerberosTGT]

Note == IF Notifications THEN <<"notify">> ELSE <<>>

\* A property is set only with what is worth a notification.
BugCalls ==
    (IF kerberosTGT' # kerberosTGT
     THEN <<"KerberosTGTStartTime", "KerberosTGTEndTime">> ELSE <<>>)
    \o (IF trustedNetwork' # trustedNetwork THEN Note \o <<"TrustedNetwork">> ELSE <<>>)
    \o (IF loggedIn' # loggedIn THEN Note \o <<"LoginState">> ELSE <<>>)

\* The login state is set before the trust.
BugCallsSwapped ==
    (IF loginState' # loginState
     THEN (IF loggedIn' # loggedIn THEN Note ELSE <<>>) \o <<"LoginState">> ELSE <<>>)
    \o (IF trustedNetwork' # trustedNetwork THEN Note \o <<"TrustedNetwork">> ELSE <<>>)

\* The calls of a handler, in the order of its setters.  The time of the last
\* keep-alive is another one with each login.
Calls ==
    (IF kerberosTGT' # kerberosTGT
     THEN <<"KerberosTGTStartTime", "KerberosTGTEndTime">> ELSE <<>>)
    \o (IF trustedNetwork' # trustedNetwork THEN Note \o <<"TrustedNetwork">> ELSE <<>>)
    \o (IF loginState' # loginState
        THEN (IF loggedIn' # loggedIn THEN Note ELSE <<>>) \o <<"LoginState">> ELSE <<>>)
    \o (IF loginState' # loginState /\ loginState' = "LoggedIn"
        THEN <<"LastKeepAliveAt">> ELSE <<>>)

\* The loop is not in a call of a setter.
Ready == outbox = <<>> /\ owner = "idle"

\* notifier.Notify returns: the desktop answered, or the notifier is closed.
NotifyReturns ==
    /\ outbox # <<>> /\ Head(outbox) = "notify"
    /\ outbox' = Tail(outbox)
    /\ UNCHANGED <<vars, serviceVars>>

Publishes ==
    /\ outbox # <<>> /\ Head(outbox) # "notify"
    /\ Service!SetProperty(Head(outbox), Shown[Head(outbox)])
    /\ outbox' = Tail(outbox)
    /\ UNCHANGED vars

-----------------------------------------------------------------------------
\* The steps of Agent.

Handle(A) == Ready /\ A /\ outbox' = Calls /\ UNCHANGED serviceVars

Handles ==
    \/ Handle(HandleTND)
    \/ Handle(HandleLoginResult)
    \/ \E u \in CCaches : Handle(HandleCCacheUpdate(u))
    \/ \E u \in Krb5Confs : Handle(HandleKrbConfUpdate(u))
    \/ \E k \in Callers : Handle(HandleReLogin(k))
    \/ Handle(HandleSleepEvent)
    \/ Handle(HandleDone)
    \/ Handle(ChannelClosed)
    \/ Handle(StopClientReturns)

\* The deferred dbus.Stop begins, and returns with the end of the goroutine.
StopsService ==
    /\ apc = "exit" /\ Ready
    /\ Service!Stop
    /\ UNCHANGED <<vars, outbox>>

LoopCloses ==
    /\ Exits
    /\ spc = "stopped"
    /\ UNCHANGED busVars

\* A client that is being stopped notices it when client.Stop is called.
ClientGoes(A) == A /\ UNCHANGED <<agentVars, busVars>>

\* client.Stop is called before "logging out" is passed on.
BugStopsFirst == \E c \in Clients : ClientGoes(ClientStep(c))

ClientsGo ==
    \E c \in Clients :
        ClientGoes(ClientStep(c) /\ (DoneCase(c) \/ SendAborts(c) => Ready))

\* The handler closes a request when it has done all else.
CallersGo ==
    /\ \E k \in Callers : CallReLogin(k) \/ (ReLoginReturns(k) /\ Ready)
    /\ UNCHANGED busVars

ServiceGoes ==
    /\ Service!TakesUpdate \/ Service!SetMust \/ Service!DoneCase
    /\ UNCHANGED <<vars, outbox>>

BusNext ==
    \/ /\ main # "exited"
       /\ \/ Handles
          \/ NotifyReturns
          \/ Publishes
          \/ StopsService
          \/ LoopCloses
          \/ ClientsGo
          \/ CallersGo
          \/ ServiceGoes
          \/ (MainStep \/ EnvironmentStep) /\ UNCHANGED busVars
    \/ Terminated /\ UNCHANGED busVars

BusSpec == BusInit /\ [][BusNext]_allVars

\* Each goroutine has one of its steps to take at a time, so that one weak fairness
\* will do; a select is as in Agent.  An open notifier may hang for good.
LoopGoesOn ==
    \/ ~NotifierOpen /\ NotifyReturns
    \/ Publishes
    \/ Handle(StopClientReturns)
    \/ StopsService
    \/ LoopCloses

ClientGoesOn(c) ==
    ClientGoes(\/ SendAborts(c) /\ Ready
               \/ LoginStarts(c)
               \/ Seconds(LoginTimeout) > 0 /\ LoginReturns(c)
               \/ LogoutStarts(c)
               \/ Seconds(LogoutTimeout) > 0 /\ LogoutEnds(c)
               \/ Closes(c))

BusFairness ==
    /\ SF_allVars(Handle(HandleDone))
    /\ WF_allVars(LoopGoesOn)
    /\ WF_allVars(ServiceGoes)
    /\ WF_allVars((ClosesDone \/ ProcessExits) /\ UNCHANGED busVars)
    /\ \A c \in Clients :
        /\ SF_allVars(ClientGoes(DoneCase(c) /\ Ready))
        /\ WF_allVars(ClientGoesOn(c))

BusFairSpec == BusSpec /\ BusFairness

-----------------------------------------------------------------------------
(* Properties *)

\* Whenever the loop is back in its select or waits for a client, the bus shows what
\* the agent has in all properties, but for the one update that the service took
\* and has not published yet: no setter returns early with something left to show,
\* and one time of a ticket is never shown without the other for longer than that.
BusIsCurrent ==
    Ready /\ spc \in {"run", "apply"} =>
        Shown = IF spc = "apply" THEN [props EXCEPT ![update[1]] = update[2]] ELSE props

\* A reader of the bus does not see a login that the service does not have, since
\* the client logs out only after its handler has passed on "logging out": again
\* but for an update that the service took.
LoginShownIsTrue ==
    props["LoginState"] = "LoggedIn" =>
        \/ session
        \/ spc = "apply" /\ update[1] = "LoginState"

BusView == INSTANCE BusStatus WITH
    trust <- props["TrustedNetwork"], state <- props["LoginState"]

\* Trust and login state change on the bus in the order that BusStatus promises.
ShowsBusStatus == BusView!Spec

\* A SIGINT ends the process although the desktop does not answer a notification
\* and the loop hangs in it: Stop closes the notifier first (agent.go:481).
EndsWithoutDesktop == main = "notifierClosed" ~> main = "exited"

=============================================================================
