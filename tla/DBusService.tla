---------------------------- MODULE DBusService ----------------------------
(***************************************************************************)
(* The D-Bus service of the agent (internal/dbusapi/service.go): one       *)
(* goroutine that publishes the properties that the agent sets, and the    *)
(* ReLogin calls that the agent answers.                                   *)
(*                                                                         *)
(* The agent is the only one that calls SetProperty and Stop, one call     *)
(* after the other and from its main loop ("owner").  Its process may      *)
(* crash at any time, also because Start fails half-way, and be started    *)
(* again.  The bus and its property objects are external: a property       *)
(* signal leaves with each SetMust, whether the value is a new one or not. *)
(***************************************************************************)
EXTENDS Naturals, Sequences

CONSTANTS
    Props,          \* the properties
    Order,          \* the order in which Start and Stop set all of them
    Values,         \* what properties may be set to
    Unknown,        \* the unknown or invalid value of a property
    Initial,        \* the values set by Start
    Callers,        \* D-Bus calls of ReLogin
    NoCaller

ASSUME ServiceAssumption ==
    /\ Order \in Seq(Props) /\ Len(Order) > 0
    /\ Props = {Order[i] : i \in 1..Len(Order)}
    /\ Unknown \notin Values
    /\ Initial \in [Props -> Values \union {Unknown}]
    /\ NoCaller \notin Callers

VARIABLES
    spc,        \* where the service is
    next,       \* index in Order of the property that Start or Stop sets next
    props,      \* the published properties
    offered,    \* the update that SetProperty offers to the goroutine
    update,     \* the update that the goroutine took
    want,       \* what the agent wants to be published
    owner,      \* where the agent is
    request,    \* the ReLogin call that the agent handles
    done,       \* whether Stop closed the done channel
    call        \* the ReLogin calls

serviceVars == <<spc, next, props, offered, update, want, owner, request, done, call>>

Exported == {"starting", "run", "apply", "stopping"}
Gone == {"off", "stopped", "crashed"}

\* offered and update, where there is no update; want, where there is no agent.
NoUpdate == <<Order[1], Unknown>>
NothingWanted == Initial

ServiceTypeOK ==
    /\ spc \in {"named"} \union Exported \union Gone
    /\ next \in 1..Len(Order)
    /\ props \in [Props -> Values \union {Unknown}]
    /\ {offered, update} \subseteq Props \X (Values \union {Unknown})
    /\ want \in [Props -> Values \union {Unknown}]
    /\ owner \in {"away", "starting", "idle", "setting", "stopping"}
    /\ request \in Callers \union {NoCaller}
    /\ done \in BOOLEAN
    /\ call \in [Callers -> {"idle", "sending", "waiting", "ok", "refused"}]

ServiceInit ==
    /\ spc = "off" /\ next = 1 /\ owner = "away" /\ done = FALSE
    /\ props = [p \in Props |-> Unknown]
    /\ offered = NoUpdate /\ update = NoUpdate /\ want = NothingWanted
    /\ request = NoCaller
    /\ call = [k \in Callers |-> "idle"]

\* Definitions named Bug... are the definition that follows with a mistake in it,
\* which some property must notice (the mutants of PROJECT.json).

-----------------------------------------------------------------------------
\* NewService and the first part of Start: the name is the agent's, but there is
\* nothing to call yet.
Start ==
    /\ spc \in Gone
    /\ spc' = "named"
    /\ owner' = "starting"
    /\ done' = FALSE
    /\ want' = Initial
    /\ call' = [k \in Callers |-> "idle"]
    /\ UNCHANGED <<next, props, offered, update, request>>

\* The methods and the properties, with unknown values, are exported.
Export ==
    /\ spc = "named"
    /\ spc' = "starting"
    /\ next' = 1
    /\ props' = [p \in Props |-> Unknown]
    /\ UNCHANGED <<offered, update, want, owner, request, done, call>>

\* The property and the value that SetMust is called with next.
Signal ==
    CASE spc = "starting" -> <<Order[next], Initial[Order[next]]>>
      [] spc = "apply" -> update
      [] OTHER -> <<Order[next], Unknown>>

\* Start and Stop do not get to the last property.
BugSkipsLast ==
    /\ spc \in {"starting", "apply", "stopping"}
    /\ props' = [props EXCEPT ![Signal[1]] = Signal[2]]
    /\ update' = NoUpdate
    /\ \/ spc = "apply" /\ spc' = "run" /\ UNCHANGED <<next, owner>>
       \/ spc = "starting" /\ spc' = "run" /\ owner' = "idle" /\ next' = 1
       \/ spc = "stopping" /\ spc' = "stopped" /\ owner' = "away" /\ next' = 1
    /\ UNCHANGED <<offered, want, request, done, call>>

\* The goroutine ends without closing "closed".
BugNotClosed ==
    /\ spc \in {"starting", "stopping"}
    /\ props' = [p \in Props |-> Signal[2]]
    /\ \/ spc = "starting" /\ spc' = "run" /\ owner' = "idle"
       \/ spc = "stopping" /\ spc' = "stopped" /\ UNCHANGED owner
    /\ UNCHANGED <<next, offered, update, want, request, done, call>>

\* The goroutine or Start sets a property and a signal leaves.  After the last one
\* Start returns, or the goroutine closes the connection and Stop returns.
SetMust ==
    /\ spc \in {"starting", "apply", "stopping"}
    /\ props' = [props EXCEPT ![Signal[1]] = Signal[2]]
    /\ update' = NoUpdate
    /\ \/ /\ spc = "apply"
          /\ spc' = "run"
          /\ UNCHANGED <<next, owner, want>>
       \/ /\ spc # "apply" /\ next < Len(Order)
          /\ next' = next + 1
          /\ UNCHANGED <<spc, owner, want>>
       \/ /\ spc = "starting" /\ next = Len(Order)
          /\ spc' = "run" /\ owner' = "idle" /\ next' = 1
          /\ UNCHANGED want
       \/ /\ spc = "stopping" /\ next = Len(Order)
          /\ spc' = "stopped" /\ owner' = "away" /\ next' = 1
          /\ want' = NothingWanted
    /\ UNCHANGED <<offered, request, done, call>>

\* SetProperty: the agent offers an update and waits until the goroutine takes it.
\* (It is never given up: the agent is not the one that calls Stop meanwhile.)
SetProperty(p, v) ==
    /\ owner = "idle"
    /\ owner' = "setting"
    /\ offered' = <<p, v>>
    /\ want' = [want EXCEPT ![p] = v]
    /\ UNCHANGED <<spc, next, props, update, request, done, call>>

TakesUpdate ==
    /\ spc = "run"
    /\ owner = "setting"
    /\ spc' = "apply"
    /\ owner' = "idle"
    /\ update' = offered
    /\ offered' = NoUpdate
    /\ UNCHANGED <<next, props, want, request, done, call>>

\* The first half of Stop; the second waits for "stopped".
Stop ==
    /\ owner = "idle" /\ request = NoCaller
    /\ owner' = "stopping"
    /\ done' = TRUE
    /\ UNCHANGED <<spc, next, props, offered, update, want, request, call>>

DoneCase ==
    /\ spc = "run"
    /\ done
    /\ spc' = "stopping"
    /\ UNCHANGED <<next, props, offered, update, want, owner, request, done, call>>

-----------------------------------------------------------------------------
\* ReLogin.  The methods are exported before Start returns, so a call may come
\* before there is a main loop that takes it.
CallReLogin(k) ==
    /\ spc \in Exported
    /\ call[k] = "idle"
    /\ call' = [call EXCEPT ![k] = "sending"]
    /\ UNCHANGED <<spc, next, props, offered, update, want, owner, request, done>>

\* The main loop takes the request.
TakesRequest(k) ==
    /\ owner = "idle" /\ request = NoCaller
    /\ call[k] = "sending"
    /\ call' = [call EXCEPT ![k] = "waiting"]
    /\ request' = k
    /\ UNCHANGED <<spc, next, props, offered, update, want, owner, done>>

\* A request that is refused is not closed.
BugRefusedOpen ==
    /\ owner = "idle" /\ request # NoCaller
    /\ \E a \in {"ok", "waiting"} : call' = [call EXCEPT ![request] = a]
    /\ request' = NoCaller
    /\ UNCHANGED <<spc, next, props, offered, update, want, owner, done>>

\* Request.Close, after the handler set the properties it had to.
ClosesRequest ==
    /\ owner = "idle" /\ request # NoCaller
    /\ \E a \in {"ok", "refused"} : call' = [call EXCEPT ![request] = a]
    /\ request' = NoCaller
    /\ UNCHANGED <<spc, next, props, offered, update, want, owner, done>>

\* The call returns: with the handler's answer, or with an error since the service
\* is done: then Wait may miss an answer that is there.
ReLoginReturns(k) ==
    /\ \/ call[k] \in {"ok", "refused"}
       \/ call[k] = "sending" /\ done
    /\ call' = [call EXCEPT ![k] = "idle"]
    /\ UNCHANGED <<spc, next, props, offered, update, want, owner, request, done>>

-----------------------------------------------------------------------------
\* The agent's process is gone at once, or Start failed: the bus ends the calls.
Crash ==
    /\ spc \notin Gone
    /\ spc' = "crashed"
    /\ owner' = "away"
    /\ done' = FALSE
    /\ request' = NoCaller
    /\ call' = [k \in Callers |-> "idle"]
    /\ next' = 1
    /\ offered' = NoUpdate /\ update' = NoUpdate /\ want' = NothingWanted
    /\ UNCHANGED <<props>>

AgentSets == \E p \in Props, v \in Values \union {Unknown} : SetProperty(p, v)

\* All other steps but Start and those that set a property.
ServiceStep ==
    \/ Export
    \/ TakesUpdate
    \/ Stop
    \/ DoneCase
    \/ \E k \in Callers : CallReLogin(k) \/ TakesRequest(k) \/ ReLoginReturns(k)
    \/ ClosesRequest
    \/ Crash

-----------------------------------------------------------------------------
\* The service on its own.  (What is fair is in the modules that compose it.)

ServiceNext == Start \/ AgentSets \/ SetMust \/ ServiceStep

ServiceSpec == ServiceInit /\ [][ServiceNext]_serviceVars

-----------------------------------------------------------------------------
(* Properties *)

With(f, u) == [f EXCEPT ![u[1]] = u[2]]

\* The bus shows what the agent set last, but for the update that the goroutine is
\* about to apply and then the one that the agent is about to pass to it: none is
\* lost or overtaken, also right after a start and in the middle of a request.
PublishedCurrent ==
    spc \in {"run", "apply"} =>
        LET applied == IF spc = "apply" THEN With(props, update) ELSE props
        IN  want = IF owner = "setting" THEN With(applied, offered) ELSE applied

\* A stopped agent leaves no old status on the bus (service.go:199-206).
UnknownAfterStop == spc = "stopped" => \A p \in Props : props[p] = Unknown

\* Why they hold (proved in DBusServiceProofs): the agent and the goroutine agree on
\* where they are, and Start and Stop have set the properties up to the next one.
OwnerInv ==
    /\ owner = "starting" <=> spc \in {"named", "starting"}
    /\ owner = "away" <=> spc \in Gone
    /\ owner \in {"idle", "setting"} => spc \in {"run", "apply"}
    /\ done => owner \in {"stopping", "away"}

SetInv ==
    /\ spc \notin {"starting", "stopping"} => next = 1
    /\ spc \in {"named", "starting"} => want = Initial
    /\ spc \in {"starting", "stopping"} =>
         \A i \in 1..next-1 : props[Order[i]] = IF spc = "starting" THEN Initial[Order[i]] ELSE Unknown

ServiceInv == ServiceTypeOK /\ OwnerInv /\ SetInv /\ PublishedCurrent /\ UnknownAfterStop

\* The agent's main loop gets on: Stop and SetProperty return, or it crashed.
AgentGetsOn ==
    /\ owner = "stopping" ~> owner = "away"
    /\ owner = "setting" ~> owner # "setting"

=============================================================================
