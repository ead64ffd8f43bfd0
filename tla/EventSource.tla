---------------------------- MODULE EventSource ----------------------------
(***************************************************************************)
(* What each monitor promises the agent's main loop: events come one at a  *)
(* time over an unbuffered channel; one that is offered stays until it is  *)
(* taken, and is withdrawn only because the monitor is being stopped; a    *)
(* monitor that is stopped closes its channel, whether or not somebody     *)
(* takes what it offers, and nothing comes after that.                     *)
(***************************************************************************)

CONSTANT NoEvent

VARIABLES
    phase,      \* where the monitor is
    event,      \* the event that was offered last
    received,   \* the event that was taken last
    stopping    \* Stop was called

sourceVars == <<phase, event, received, stopping>>

Init ==
    /\ phase = "new" /\ stopping = FALSE
    /\ event = NoEvent /\ received = NoEvent

Start ==
    /\ phase = "new"
    /\ phase' \in {"idle", "failed"}
    /\ UNCHANGED <<event, received, stopping>>

Offer ==
    /\ phase = "idle"
    /\ phase' = "offering"
    /\ event' # NoEvent
    /\ UNCHANGED <<received, stopping>>

Take ==
    /\ phase = "offering"
    /\ phase' = "idle"
    /\ received' = event
    /\ UNCHANGED <<event, stopping>>

Withdraw ==
    /\ phase = "offering" /\ stopping
    /\ phase' = "idle"
    /\ UNCHANGED <<event, received, stopping>>

\* Because of Stop, or because what the monitor watches is gone.
Close ==
    /\ phase = "idle"
    /\ phase' = "closed"
    /\ UNCHANGED <<event, received, stopping>>

Stop ==
    /\ phase \notin {"new", "failed"} /\ ~stopping
    /\ stopping' = TRUE
    /\ UNCHANGED <<phase, event, received>>

Next ==
    \/ Start
    \/ Offer
    \/ Take
    \/ Withdraw
    \/ Close
    \/ Stop

Safe == Init /\ [][Next]_sourceVars

StopEnds == stopping ~> phase = "closed"

Spec == Safe /\ StopEnds

=============================================================================
