---------------------------- MODULE StatusClient ----------------------------
(***************************************************************************)
(* The client library (pkg/client/client.go) of a program that subscribes  *)
(* to the agent's status, together with the D-Bus service: the client      *)
(* queries the status once and then keeps it up to date with the signals   *)
(* of single properties.                                                   *)
(*                                                                         *)
(* External is the D-Bus connection (godbus).  It puts signals that match  *)
(* into the client's channel.  Signals that find it full are each left to  *)
(* a goroutine of their own, and may overtake each other.  A signal that   *)
(* is still on the wire counts as one in the channel.                      *)
(*                                                                         *)
(* The program calls Subscribe at most once and Close when Subscribe has   *)
(* returned (internal/cli/cmd.go), and takes updates as it likes.          *)
(***************************************************************************)
EXTENDS DBusService, SequencesExt

CONSTANTS
    Capacity,       \* room in the signal channel
    MaxSets,        \* bound: calls of SetProperty
    MaxStarts       \* bound: starts of the agent

ASSUME CapacityAssumption == Capacity \in Nat \ {0}
ASSUME BoundsAssumption == MaxSets \in Nat /\ MaxStarts \in Nat

VARIABLES
    cpc,        \* where Subscribe, then the goroutine it starts, is
    status,     \* the current status of the client
    seen,       \* the last status that the program took from updates
    queue,      \* the signal channel
    deferred,   \* the signals that found it full
    conn,       \* the connection is open
    closing,    \* Close was called
    changed,    \* properties whose signal came in
    overtaken,  \* a signal was deferred
    sets, starts

subscriberVars == <<cpc, status, seen, queue, deferred, conn, closing, changed,
                    overtaken>>
bounds == <<sets, starts>>
vars == <<serviceVars, subscriberVars, bounds>>

Statuses == [Props -> Values \union {Unknown}]

TypeOK ==
    /\ ServiceTypeOK
    /\ cpc \in {"new", "query", "match", "signal", "initial", "range", "send",
                "ended", "failed"}
    /\ status \in Statuses
    /\ seen \in Statuses
    /\ queue \in Seq(Props \X (Values \union {Unknown}))
    /\ deferred \in Seq(Props \X (Values \union {Unknown}))
    /\ {conn, closing, overtaken} \subseteq BOOLEAN
    /\ changed \subseteq Props
    /\ sets \in 0..MaxSets /\ starts \in 0..MaxStarts

Init ==
    /\ ServiceInit
    /\ cpc = "new"
    /\ status = [p \in Props |-> Unknown] /\ seen = status
    /\ queue = <<>> /\ deferred = <<>> /\ changed = {} /\ overtaken = FALSE
    /\ conn = TRUE /\ closing = FALSE
    /\ sets = 0 /\ starts = 0

\* Definitions named Bug... are the definition that follows with a mistake in it,
\* which some property must notice (the mutants of PROJECT.json).

-----------------------------------------------------------------------------
\* Subscribe.

Subscribe ==
    /\ cpc = "new" /\ ~closing
    /\ cpc' = "query"
    /\ UNCHANGED <<status, seen, queue, deferred, conn, closing, changed, overtaken>>

Query ==
    /\ cpc = "query" /\ conn /\ spc \in Exported
    /\ status' = props
    /\ cpc' = "match"
    /\ UNCHANGED <<seen, queue, deferred, conn, closing, changed, overtaken>>

\* No agent, or no bus: Subscribe returns an error and starts no goroutine.
SubscribeFails ==
    /\ \/ cpc = "query" /\ ~(conn /\ spc \in Exported)
       \/ cpc = "match" /\ ~conn
    /\ cpc' = "failed"
    /\ UNCHANGED <<status, seen, queue, deferred, conn, closing, changed, overtaken>>

AddMatchSignal ==
    /\ cpc = "match" /\ conn
    /\ cpc' = "signal"
    /\ UNCHANGED <<status, seen, queue, deferred, conn, closing, changed, overtaken>>

\* The channel is there: of the signals since AddMatchSignal it gets those that
\* come in only now.
Signals ==
    /\ cpc = "signal"
    /\ cpc' = "initial"
    /\ \E k \in 0..Len(queue) :
          /\ queue' = SubSeq(queue, k + 1, Len(queue))
          /\ changed' = {u[1] : u \in ToSet(queue')}
    /\ UNCHANGED <<status, seen, deferred, conn, closing, overtaken>>

-----------------------------------------------------------------------------
\* The goroutine.

\* A status update is offered; the program takes it.
Takes ==
    /\ cpc \in {"initial", "send"}
    /\ cpc' = "range"
    /\ seen' = status
    /\ UNCHANGED <<status, queue, deferred, conn, closing, changed, overtaken>>

\* The signal is not applied to the current status but to a new one.
BugNewStatus ==
    /\ cpc = "range" /\ queue # <<>>
    /\ status' = [p \in Props |-> IF p = Head(queue)[1] THEN Head(queue)[2] ELSE Unknown]
    /\ queue' = Tail(queue)
    /\ cpc' = "send"
    /\ UNCHANGED <<seen, deferred, conn, closing, changed, overtaken>>

\* The next signal of the channel: an update of one property.
HandlePropertiesChanged ==
    /\ cpc = "range" /\ queue # <<>>
    /\ status' = [status EXCEPT ![Head(queue)[1]] = Head(queue)[2]]
    /\ queue' = Tail(queue)
    /\ cpc' = "send"
    /\ UNCHANGED <<seen, deferred, conn, closing, changed, overtaken>>

\* The goroutine does not look at done when it sends.
BugEndsLate ==
    /\ cpc = "range" /\ queue = <<>> /\ ~conn
    /\ cpc' = "ended"
    /\ UNCHANGED <<status, seen, queue, deferred, conn, closing, changed, overtaken>>

\* The goroutine ends, with updates and closed, because of done or the channel.
\* What the client knew is garbage.
Ends ==
    /\ \/ cpc \in {"initial", "send"} /\ closing
       \/ cpc = "range" /\ queue = <<>> /\ ~conn
    /\ cpc' = "ended"
    /\ queue' = <<>> /\ changed' = {} /\ overtaken' = FALSE
    /\ status' = [p \in Props |-> Unknown] /\ seen' = status'
    /\ UNCHANGED <<deferred, conn, closing>>

\* Close, up to where it waits for the end of a goroutine if there is a
\* subscription.  The connection drops what is deferred and closes the channel.
Close ==
    /\ cpc \notin {"query", "match", "signal"}
    /\ ~closing
    /\ closing' = TRUE
    /\ conn' = FALSE
    /\ deferred' = <<>>
    /\ UNCHANGED <<cpc, status, seen, queue, changed, overtaken>>

-----------------------------------------------------------------------------
\* The connection.

\* A signal u leaves the service.
Hears(u) ==
    \/ /\ conn /\ cpc \in {"signal", "initial", "range", "send"}
       /\ \/ /\ queue' = Append(queue, u)
             /\ UNCHANGED <<deferred, overtaken>>
          \/ /\ Len(queue) >= Capacity /\ cpc # "signal"
             /\ deferred' = Append(deferred, u)
             /\ overtaken' = TRUE
             /\ UNCHANGED queue
       /\ changed' = changed \union {u[1]}
       /\ UNCHANGED <<cpc, status, seen, conn, closing>>
    \/ /\ ~conn \/ cpc \notin {"signal", "initial", "range", "send"}
       /\ UNCHANGED subscriberVars

DeferredDeliver ==
    /\ Len(queue) < Capacity
    /\ \E i \in 1..Len(deferred) :
          /\ queue' = Append(queue, deferred[i])
          /\ deferred' = RemoveAt(deferred, i)
    /\ UNCHANGED <<cpc, status, seen, conn, closing, changed, overtaken>>

ConnectionLost ==
    /\ conn /\ cpc # "signal"
    /\ conn' = FALSE
    /\ deferred' = <<>>
    /\ UNCHANGED <<cpc, status, seen, queue, closing, changed, overtaken>>

-----------------------------------------------------------------------------
SubscriberStep ==
    \/ Subscribe
    \/ Query
    \/ SubscribeFails
    \/ AddMatchSignal
    \/ Signals
    \/ Takes
    \/ HandlePropertiesChanged
    \/ Ends
    \/ Close
    \/ DeferredDeliver
    \/ ConnectionLost

\* The steps of one side leave the other alone.
ServiceAlone(A) == A /\ UNCHANGED <<subscriberVars, bounds>>
SubscriberAlone(A) == A /\ UNCHANGED <<serviceVars, bounds>>

Publishes == SetMust /\ Hears(Signal) /\ UNCHANGED bounds

Next ==
    \/ Publishes
    \/ ServiceAlone(ServiceStep)
    \/ /\ Start /\ starts < MaxStarts /\ starts' = starts + 1
       /\ UNCHANGED <<subscriberVars, sets>>
    \/ /\ AgentSets /\ sets < MaxSets /\ sets' = sets + 1
       /\ UNCHANGED <<subscriberVars, starts>>
    \/ SubscriberAlone(SubscriberStep)

Spec == Init /\ [][Next]_vars

\* The agent does not hang when it starts, publishes or stops; the bus answers a
\* query; the goroutine runs.  Nothing is assumed of the program that subscribed,
\* or of crashes.
FairSpec ==
    /\ Spec
    /\ WF_vars(Publishes)
    /\ SF_vars(ServiceAlone(DoneCase))
    /\ WF_vars(SubscriberAlone(Query \/ SubscribeFails))
    /\ WF_vars(SubscriberAlone(AddMatchSignal))
    /\ WF_vars(SubscriberAlone(Signals))
    /\ WF_vars(SubscriberAlone(HandlePropertiesChanged))
    /\ WF_vars(SubscriberAlone(Ends))

-----------------------------------------------------------------------------
(* Properties *)

\* The program has taken all updates, and there are no more to come.
CaughtUp == cpc = "range" /\ conn /\ queue = <<>> /\ deferred = <<>>

\* What Start is about to set, the clients are about to see.
Settled == spc \in {"run", "apply", "stopping", "stopped"}

\* Of the properties that changed since Subscribe a program that caught up sees the
\* values that are published, also across a crash and a restart (service.go:303)
\* and when the agent stops, if the channel was never full.
SeesWhatChanged ==
    CaughtUp /\ Settled /\ ~overtaken => \A p \in changed : seen[p] = props[p]

\* Subscribe queries "to get initial values" (client.go:224) and converts the
\* signals to status updates (client.go:215): then a program that caught up sees
\* the status that is published.
SeesPublished ==
    CaughtUp /\ Settled /\ ~overtaken => seen = props

\* A program that takes its updates sees that the agent stopped: it is not left
\* with the login of an agent that is gone.
ProgramTakes ==
    /\ WF_vars(SubscriberAlone(Takes))
    /\ WF_vars(SubscriberAlone(DeferredDeliver))

SeesStop ==
    ProgramTakes =>
        ((spc = "stopped" /\ changed = Props /\ ~overtaken) ~>
            \/ \A p \in Props : seen[p] = Unknown
            \/ spc # "stopped" \/ ~conn)

\* Close returns although the program does not take an update any more, wherever
\* the goroutine is, if there is one.
CloseReturns ==
    closing /\ cpc \notin {"new", "failed"} ~> cpc = "ended"

\* "Close closes the DBusClient" (client.go:292), and the command line program
\* calls it however its command ended (internal/cli/cmd.go:207): it returns.
CloseAlwaysReturns ==
    closing ~> cpc \in {"new", "ended"}

=============================================================================
