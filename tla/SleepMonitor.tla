---------------------------- MODULE SleepMonitor ----------------------------
(***************************************************************************)
(* The sleep monitor (internal/agent/sleepmon.go): one goroutine that      *)
(* turns the PrepareForSleep signals of logind into events for the agent.  *)
(*                                                                         *)
(* External are logind and the D-Bus connection (godbus), which puts every *)
(* signal of logind's Manager interface into the monitor's channel.  A     *)
(* signal that finds it full is left to a goroutine of its own, and may be *)
(* overtaken; one that is still on the wire counts as one in the channel.  *)
(* A connection that is lost closes the channel.  The agent takes events   *)
(* when its main loop has time for them.                                   *)
(***************************************************************************)
EXTENDS Naturals, SequencesExt

CONSTANTS
    Capacity,   \* room in the signal channel
    MaxSignals, \* bound: signals of logind
    NoEvent

ASSUME SleepAssumption ==
    /\ Capacity \in Nat \ {0}
    /\ MaxSignals \in Nat

\* PrepareForSleep with TRUE and with FALSE, and what is neither: a signal of
\* another name, or one without a Boolean.
Events == {"sleep", "wake"}
Kinds == Events \union {"other"}

\* Signals are numbered as logind sends them.
AllSignals == [kind : Kinds, nr : Nat]

ASSUME NoEventAssumption == NoEvent \notin AllSignals

VARIABLES
    mpc,        \* where Start, then the goroutine it starts, is
    done,       \* Stop closed the done channel
    conn,       \* the connection is open
    queue,      \* the signal channel
    deferred,   \* the signals that found it full
    event,      \* the event that sendEvent has or had
    received,   \* the last event the agent took
    owed,       \* the events that came in and the agent did not take yet
    overtaken,  \* a signal was deferred
    sent        \* number of signals

vars == <<mpc, done, conn, queue, deferred, event, received, owed, overtaken, sent>>

Init ==
    /\ mpc = "new" /\ done = FALSE /\ conn = FALSE
    /\ queue = <<>> /\ deferred = <<>> /\ owed = {}
    /\ event = NoEvent /\ received = NoEvent
    /\ overtaken = FALSE /\ sent = 0

IsEvent(s) == s.kind \in Events

\* Definitions named Bug... are the definition that follows with a mistake in it,
\* which some property must notice (the mutants of PROJECT.json).

-----------------------------------------------------------------------------
\* Start.

\* The connection to the system bus, and AddMatchSignal.
Start ==
    /\ mpc = "new"
    /\ mpc' = "matched"
    /\ conn' = TRUE
    /\ UNCHANGED <<done, queue, deferred, event, received, owed, overtaken, sent>>

StartFails ==
    /\ mpc = "new"
    /\ mpc' = "failed"
    /\ UNCHANGED <<done, conn, queue, deferred, event, received, owed, overtaken, sent>>

\* The channel is there: of the signals since AddMatchSignal it gets those that
\* come in only now.
Signals ==
    /\ mpc = "matched"
    /\ mpc' = "select"
    /\ \E k \in 0..Len(queue) : queue' = SubSeq(queue, k + 1, Len(queue))
    /\ owed' = {s \in ToSet(queue') : IsEvent(s)}
    /\ UNCHANGED <<done, conn, deferred, event, received, overtaken, sent>>

-----------------------------------------------------------------------------
\* The goroutine.

\* An event for which the agent is not ready is dropped.
BugDrops ==
    /\ mpc = "select" /\ queue # <<>>
    /\ queue' = Tail(queue)
    /\ \/ mpc' = "send" /\ event' = Head(queue) /\ IsEvent(event')
       \/ UNCHANGED <<mpc, event>>
    /\ UNCHANGED <<done, conn, deferred, received, owed, overtaken, sent>>

\* handleSignal, up to where sendEvent waits.
HandleSignal ==
    /\ mpc = "select" /\ queue # <<>>
    /\ queue' = Tail(queue)
    /\ \/ /\ IsEvent(Head(queue))
          /\ mpc' = "send"
          /\ event' = Head(queue)
       \/ /\ ~IsEvent(Head(queue))
          /\ UNCHANGED <<mpc, event>>
    /\ UNCHANGED <<done, conn, deferred, received, owed, overtaken, sent>>

\* The agent takes the event.
AgentTakes ==
    /\ mpc = "send"
    /\ mpc' = "select"
    /\ received' = event
    /\ owed' = owed \ {event}
    /\ UNCHANGED <<done, conn, queue, deferred, event, overtaken, sent>>

\* sendEvent has no done case.
BugSendBlocks == FALSE /\ UNCHANGED vars

SendAborts ==
    /\ mpc = "send" /\ done
    /\ mpc' = "select"
    /\ UNCHANGED <<done, conn, queue, deferred, event, received, owed, overtaken, sent>>

\* The goroutine returns; it closes the connection, events and closed.
Ends ==
    /\ mpc = "select"
    /\ done \/ (~conn /\ queue = <<>>)
    /\ mpc' = "closed"
    /\ conn' = FALSE
    /\ queue' = <<>> /\ deferred' = <<>> /\ owed' = {}
    /\ UNCHANGED <<done, event, received, overtaken, sent>>

\* The first half of Stop; the second waits for "closed".  Only a monitor whose
\* Start returned is stopped.
Stop ==
    /\ mpc \in {"select", "send", "closed"} /\ ~done
    /\ done' = TRUE
    /\ UNCHANGED <<mpc, conn, queue, deferred, event, received, owed, overtaken, sent>>

-----------------------------------------------------------------------------
\* logind and the connection.

Listening == conn /\ mpc \in {"matched", "select", "send"}

SignalSent(s) ==
    /\ sent < MaxSignals
    /\ sent' = sent + 1
    /\ \/ /\ Listening
          /\ \/ /\ queue' = Append(queue, s)
                /\ UNCHANGED <<deferred, overtaken>>
             \/ /\ Len(queue) >= Capacity /\ mpc # "matched"
                /\ deferred' = Append(deferred, s)
                /\ overtaken' = TRUE
                /\ UNCHANGED queue
          /\ owed' = IF IsEvent(s) THEN owed \union {s} ELSE owed
       \/ /\ ~Listening
          /\ UNCHANGED <<queue, deferred, owed, overtaken>>
    /\ UNCHANGED <<mpc, done, conn, event, received>>

DeferredDeliver ==
    /\ Len(queue) < Capacity
    /\ \E i \in 1..Len(deferred) :
          /\ queue' = Append(queue, deferred[i])
          /\ deferred' = RemoveAt(deferred, i)
    /\ UNCHANGED <<mpc, done, conn, event, received, owed, overtaken, sent>>

ConnectionLost ==
    /\ conn /\ mpc \in {"select", "send"}
    /\ conn' = FALSE
    /\ deferred' = <<>>
    /\ UNCHANGED <<mpc, done, queue, event, received, owed, overtaken, sent>>

Next ==
    \/ Start
    \/ StartFails
    \/ Signals
    \/ HandleSignal
    \/ AgentTakes
    \/ SendAborts
    \/ Ends
    \/ Stop
    \/ \E k \in Kinds : SignalSent([kind |-> k, nr |-> sent + 1])
    \/ DeferredDeliver
    \/ ConnectionLost

Spec == Init /\ [][Next]_vars

\* The goroutines run, select is fair to a done that stays closed, and the agent
\* takes events until it stops the monitor.
FairSpec ==
    /\ Spec
    /\ WF_vars(Signals) /\ WF_vars(HandleSignal) /\ WF_vars(SendAborts)
    /\ SF_vars(Ends)
    /\ WF_vars(DeferredDeliver)
    /\ WF_vars(~done /\ AgentTakes)

-----------------------------------------------------------------------------
(* Properties *)

\* The signals on their way to the agent.
OnTheWay ==
    ToSet(queue) \union ToSet(deferred) \union (IF mpc = "send" THEN {event} ELSE {})

\* Each sleep and each wake-up that the host announces while the monitor listens
\* is on its way to the agent until the agent takes it, also when the channel is
\* full or other signals fill it, and none comes twice; and they stay in order as
\* long as there was room in the channel.
NoneLost ==
    mpc \in {"select", "send"} /\ conn /\ ~done =>
        /\ owed = {s \in OnTheWay : IsEvent(s)}
        /\ ~overtaken =>
              /\ \A i, j \in 1..Len(queue) : i < j => queue[i].nr < queue[j].nr
              /\ mpc = "send" => \A i \in 1..Len(queue) : event.nr < queue[i].nr

Source == INSTANCE EventSource WITH
    phase <- CASE mpc \in {"new", "matched"} -> "new"
               [] mpc = "select" -> "idle"
               [] mpc = "send" -> "offering"
               [] OTHER -> mpc,
    stopping <- done

\* To the agent the monitor is an event source: no event is withdrawn without a
\* stop, and Stop returns though the agent's loop, the only one that takes events,
\* has ended (agent.go:380).
ImplementsSource == Source!Spec

\* The safety part of it.
SourceSafe == Source!Safe

\* While its connection holds, the monitor gets all events to an agent that takes
\* them: that the host goes to sleep does not get stuck behind other signals.
SleepArrives ==
    <>[](conn /\ ~done) => <>[](owed = {})

=============================================================================
