----------------------------- MODULE KrbMonitor -----------------------------
(***************************************************************************)
(* A monitor of a Kerberos file: CCacheMon for the ccache and ConfMon for  *)
(* krb5.conf (internal/krbmon), which are the same program but for the     *)
(* parser.  It reads the file when it starts and on every event of its     *)
(* file watch, and sends what it read to the agent if that parses and      *)
(* differs from what it sent last.                                         *)
(*                                                                         *)
(* External are the file, which another program replaces or rewrites in    *)
(* steps that can each be seen, the consumer, and the watch (fsnotify) of  *)
(* the file's folder: its queue holds at most MaxEvents, those of other    *)
(* files included, and drops what does not fit; the monitor only logs the  *)
(* error that tells of it.                                                 *)
(***************************************************************************)
EXTENDS Naturals, Sequences

CONSTANTS
    Contents,   \* what the file can parse to
    Bad,        \* no file, or one that is too short or does not parse
    None,       \* nothing read, nothing sent
    MaxEvents   \* room in the queue of the file watch

ASSUME MonitorAssumption ==
    /\ Bad \notin Contents /\ None \notin Contents /\ Bad # None
    /\ MaxEvents \in Nat \ {0}

VARIABLES
    mpc,        \* where the monitor's goroutine is
    last,       \* c.cCache or c.config
    done,       \* Stop closed the done channel
    received,   \* the last update the consumer took
    file,
    watched,    \* the file's folder is being watched
    events,     \* events that the watch has ready: of the file, or of another one
    lost        \* the watch dropped an event of the file, which was not read since

monitorVars == <<mpc, last, done, received>>
vars == <<monitorVars, file, watched, events, lost>>

TypeOK ==
    /\ mpc \in {"new", "initial", "select", "send", "closed", "failed"}
    /\ last \in Contents \union {None}
    /\ done \in BOOLEAN
    /\ received \in Contents \union {None}
    /\ file \in Contents \union {Bad}
    /\ watched \in BOOLEAN
    /\ events \in Seq({"own", "other"}) /\ Len(events) <= MaxEvents
    /\ lost \in BOOLEAN

Init ==
    /\ mpc = "new" /\ last = None /\ done = FALSE /\ received = None
    /\ file \in Contents \union {Bad}
    /\ watched = FALSE /\ events = <<>> /\ lost = FALSE

\* Definitions named Bug... are the definition that follows with a mistake in it,
\* which some property must notice (the mutants of PROJECT.json).

-----------------------------------------------------------------------------
\* The folder is not watched.
BugNoWatch ==
    /\ mpc = "new"
    /\ mpc' = "initial"
    /\ UNCHANGED <<last, done, received, file, watched, events, lost>>

\* Start: first the folder is watched, then the goroutine reads the file.
Start ==
    /\ mpc = "new"
    /\ mpc' = "initial"
    /\ watched' = TRUE
    /\ UNCHANGED <<last, done, received, file, events, lost>>

\* No watcher, or no folder to watch: Start returns an error.
StartFails ==
    /\ mpc = "new"
    /\ mpc' = "failed"
    /\ UNCHANGED <<last, done, received, file, watched, events, lost>>

\* The handler of an event of the file, up to sendUpdate: read, parse, compare, save.
HandleFileEvent ==
    /\ lost' = FALSE
    /\ \/ /\ file \notin {Bad, last}
          /\ last' = file
          /\ mpc' = "send"
       \/ /\ file \in {Bad, last}
          /\ last' = last
          /\ mpc' = "select"

HandleInitial ==
    /\ mpc = "initial"
    /\ HandleFileEvent
    /\ UNCHANGED <<done, received, file, watched, events>>

\* Events are only for those who wait for the first file.
BugOnlyFirst ==
    /\ mpc = "select"
    /\ events # <<>>
    /\ events' = Tail(events)
    /\ \/ last = None /\ HandleFileEvent
       \/ last # None /\ UNCHANGED <<last, mpc, lost>>
    /\ UNCHANGED <<done, received, file, watched>>

\* Events of other files of the folder are ignored.
HandleEvent ==
    /\ mpc = "select"
    /\ events # <<>>
    /\ events' = Tail(events)
    /\ \/ Head(events) = "own" /\ HandleFileEvent
       \/ Head(events) = "other" /\ UNCHANGED <<last, mpc, lost>>
    /\ UNCHANGED <<done, received, file, watched>>

\* sendUpdate: the consumer takes the update, or the monitor is done.
ConsumerTakes ==
    /\ mpc = "send"
    /\ mpc' = "select"
    /\ received' = last
    /\ UNCHANGED <<last, done, file, watched, events, lost>>

\* An update that is not taken at once is dropped.
BugDrops ==
    /\ mpc = "send"
    /\ mpc' = "select"
    /\ UNCHANGED <<last, done, received, file, watched, events, lost>>

\* sendUpdate without a done case.
BugSendBlocks ==
    /\ FALSE
    /\ UNCHANGED vars

SendAborts ==
    /\ mpc = "send" /\ done
    /\ mpc' = "select"
    /\ UNCHANGED <<last, done, received, file, watched, events, lost>>

\* The goroutine returns and closes the watcher and the updates, because of done
\* or because a channel of the watcher is closed.
Closes ==
    /\ mpc' = "closed"
    /\ watched' = FALSE
    /\ events' = <<>>
    /\ UNCHANGED <<last, done, received, file, lost>>

DoneCase == mpc = "select" /\ done /\ Closes
WatcherCloses == mpc = "select" /\ Closes

\* The first half of Stop; the second waits for "closed".
Stop ==
    /\ mpc \notin {"new", "failed"} /\ ~done
    /\ done' = TRUE
    /\ UNCHANGED <<mpc, last, received, file, watched, events, lost>>

\* Another program writes, truncates or removes the file.
FileChanges ==
    /\ file' \in (Contents \union {Bad}) \ {file}
    /\ \/ /\ ~watched
          /\ UNCHANGED <<events, lost>>
       \/ /\ watched /\ Len(events) < MaxEvents
          /\ events' = Append(events, "own")
          /\ lost' = lost
       \/ /\ watched /\ Len(events) = MaxEvents
          /\ events' = events
          /\ lost' = TRUE
    /\ UNCHANGED <<monitorVars, watched>>

\* So does it with another file of the folder.
OtherFileChanges ==
    /\ watched /\ Len(events) < MaxEvents
    /\ events' = Append(events, "other")
    /\ UNCHANGED <<monitorVars, file, watched, lost>>

MonitorStep == HandleInitial \/ HandleEvent \/ SendAborts \/ DoneCase

Next ==
    \/ Start
    \/ StartFails
    \/ MonitorStep
    \/ ConsumerTakes
    \/ WatcherCloses
    \/ Stop
    \/ FileChanges
    \/ OtherFileChanges

Spec == Init /\ [][Next]_vars

\* The goroutine runs, select is fair to a done that stays closed, and the agent
\* takes updates until it stops the monitor.
FairSpec ==
    /\ Spec
    /\ WF_vars(HandleInitial) /\ WF_vars(HandleEvent) /\ WF_vars(SendAborts)
    /\ SF_vars(DoneCase)
    /\ WF_vars(~done /\ ConsumerTakes)

-----------------------------------------------------------------------------
(* Properties *)

\* An event of the file is still to come.
Pending == \E i \in 1..Len(events) : events[i] = "own"

\* No change is missed: a monitor that waits and has no event of the file ahead has
\* sent what the file holds, from the first read on (the folder is watched before the
\* file is read), through reads of a file that is only half written, and however many
\* other files of the folder change.  An event that a full queue dropped
\* (ccachemon.go:171) is made good by the next event of the file.
NothingMissed ==
    mpc = "select" /\ ~Pending /\ ~lost /\ file # Bad => last = file

\* What the consumer has is what the monitor read last and compares with: the
\* agent is not left with an older file because the update was taken for old.
ConsumerHasLast == mpc = "select" /\ ~done => received = last

\* No update is sent twice in a row, though the file's events come in bursts and
\* its contents go back and forth: the agent restarts nothing for an old file.
NoRepeat == [][ConsumerTakes /\ ~done => received' # received]_vars

Source == INSTANCE EventSource WITH
    phase <- CASE mpc \in {"initial", "select"} -> "idle"
               [] mpc = "send" -> "offering"
               [] OTHER -> mpc,
    event <- last,
    stopping <- done,
    NoEvent <- None

\* To the agent the monitor is an event source: it holds on to an update while the
\* file changes on, until the agent takes it; and Stop returns although nobody
\* takes the update any more (the agent's loop has ended when it stops the
\* monitors, agent.go:377) and whatever the file does.
ImplementsSource == Source!Spec

\* The safety part of it.
SourceSafe == Source!Safe

Quiet(f) == file = f /\ ~lost /\ mpc \notin {"new", "closed", "failed"} /\ ~done

\* A file that stays as it is gets to the agent, whatever other files do, unless the
\* last event of it was dropped.
FileArrives ==
    \A f \in Contents : <>[]Quiet(f) => <>[](received = f)

=============================================================================
