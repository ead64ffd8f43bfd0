--------------------------- MODULE AgentLifecycle ---------------------------
(***************************************************************************)
(* The processes of the agent from their command line to their exit code:  *)
(* run of internal/agent/cmd.go, and Start, Stop and the frame of the main *)
(* loop of internal/agent/agent.go.  What the loop does with its events is *)
(* in module Agent: here it is busy with one and done with it again.       *)
(*                                                                         *)
(* One process may be the systemd user unit (init/fw-id-agent.service),    *)
(* others are started by hand.  External are systemd, which stops its unit *)
(* with SIGINT and restarts it on failure, and the D-Bus session bus, on   *)
(* which one process at a time has the agent's name.                       *)
(***************************************************************************)
EXTENDS AgentConfig

CONSTANTS
    Processes,
    Unit,           \* the process of the systemd unit
    NoProcess,
    Parts,          \* what Start starts
    Order,          \* in this order; the D-Bus service is the first
    CommandLines,   \* of processes started by hand
    Files           \* what the config file may be

ASSUME ProcessAssumption ==
    /\ Unit \in Processes
    /\ NoProcess \notin Processes
    /\ Order \in Seq(Parts) /\ Len(Order) > 0
    /\ \A x \in Parts : \E i \in 1..Len(Order) : Order[i] = x
    /\ \A i, j \in 1..Len(Order) : Order[i] = Order[j] => i = j

VARIABLES
    file,       \* the config file
    main,       \* where the main goroutine is
    args,       \* the command line, while the config is made of it
    cfg,        \* the config, up to the start
    part,       \* the state of the parts
    loop,       \* where the main loop is
    client,     \* the identity client is in a request
    errors,     \* there is an error in the errors channel
    done,       \* Stop closed the done channel
    interrupt,  \* a SIGINT was put into the signal channel
    err,        \* run returns an error
    code,       \* how the process ended
    name,       \* who has the agent's name on the bus
    wanted      \* systemd is to keep the unit running

processVars == <<main, args, cfg, part, loop, client, errors, done, interrupt, err>>
vars == <<file, processVars, code, name, wanted>>

DBus == Order[1]
NoArgs == [help |-> FALSE, useFile |-> FALSE, flags |-> <<>>]
UnitArgs == [help |-> FALSE, useFile |-> TRUE, flags |-> <<>>]

Init ==
    /\ file \in Files
    /\ main = [p \in Processes |-> "off"]
    /\ args = [p \in Processes |-> NoArgs]
    /\ cfg = [p \in Processes |-> Default]
    /\ part = [p \in Processes |-> [x \in Parts |-> "down"]]
    /\ loop = [p \in Processes |-> "none"]
    /\ client = [p \in Processes |-> FALSE]
    /\ errors = [p \in Processes |-> FALSE]
    /\ done = [p \in Processes |-> FALSE]
    /\ interrupt = [p \in Processes |-> FALSE]
    /\ err = [p \in Processes |-> FALSE]
    /\ code = [p \in Processes |-> "none"]
    /\ name = NoProcess
    /\ wanted = FALSE

\* Definitions named Bug... are the definition that follows with a mistake in it,
\* which some property must notice (the mutants of PROJECT.json).

-----------------------------------------------------------------------------
\* The end of a process: whatever was running in it is gone, and the bus takes
\* its name away.
Exit(p, c) ==
    /\ main' = [main EXCEPT ![p] = "off"]
    /\ args' = [args EXCEPT ![p] = NoArgs]
    /\ cfg' = [cfg EXCEPT ![p] = Default]
    /\ part' = [part EXCEPT ![p] = [x \in Parts |-> "down"]]
    /\ loop' = [loop EXCEPT ![p] = "none"]
    /\ client' = [client EXCEPT ![p] = FALSE]
    /\ errors' = [errors EXCEPT ![p] = FALSE]
    /\ done' = [done EXCEPT ![p] = FALSE]
    /\ interrupt' = [interrupt EXCEPT ![p] = FALSE]
    /\ err' = [err EXCEPT ![p] = FALSE]
    /\ code' = [code EXCEPT ![p] = c]
    /\ name' = IF name = p THEN NoProcess ELSE name
    /\ UNCHANGED file

Launch(p, a) ==
    /\ main[p] = "off"
    /\ main' = [main EXCEPT ![p] = "config"]
    /\ args' = [args EXCEPT ![p] = a]
    /\ code' = [code EXCEPT ![p] = "none"]
    /\ UNCHANGED <<file, client, cfg, part, loop, errors, done, interrupt, err,
                   name>>

-----------------------------------------------------------------------------
\* The main goroutine.

MainMoves(p, from, to) ==
    /\ main[p] = from
    /\ main' = [main EXCEPT ![p] = to]

\* getConfig: a config, the help or the version, or an error.
GetConfig(p) ==
    \/ /\ MainMoves(p, "config", "delay")
       /\ ConfigOK(args[p], file)
       /\ cfg' = [cfg EXCEPT ![p] = Combined(args[p], file)]
       /\ UNCHANGED <<file, client, args, part, loop, errors, done, interrupt, err,
                      code, name, wanted>>
    \/ /\ main[p] = "config"
       /\ ~ConfigOK(args[p], file)
       /\ Exit(p, IF args[p].help THEN "ok" ELSE "error")
       /\ UNCHANGED wanted

\* After the start delay, NewAgent.  (The command line and the config do not
\* matter to the model any more.)
DelayEnds(p) ==
    /\ MainMoves(p, "delay", "start")
    /\ args' = [args EXCEPT ![p] = NoArgs]
    /\ cfg' = [cfg EXCEPT ![p] = Default]
    /\ UNCHANGED <<file, client, part, loop, errors, done, interrupt, err, code,
                   name, wanted>>

AllStarted(p) == \A x \in Parts : part[p][x] # "down"

\* Start gets to the place i of the order.
StartsNext(p, i) ==
    /\ main[p] = "start"
    /\ part[p][Order[i]] = "down"
    /\ \A j \in 1..i-1 : part[p][Order[j]] # "down"
    /\ part' = [part EXCEPT ![p][Order[i]] = "up"]
    /\ UNCHANGED <<file, client, main, args, cfg, loop, errors, done, interrupt,
                   err, code, wanted>>

\* Start starts the next part; the D-Bus service only if it gets the name.
StartsPart(p) ==
    \E i \in 1..Len(Order) :
        /\ StartsNext(p, i)
        /\ \/ Order[i] = DBus /\ name = NoProcess /\ name' = p
           \/ Order[i] # DBus /\ name' = name

\* A part cannot be started: Start returns the error and run too, before it has
\* deferred the Stop.
StartFails(p) ==
    /\ main[p] = "start" /\ ~AllStarted(p)
    /\ Exit(p, "error")
    /\ UNCHANGED wanted

\* Start has set the first properties and launches the loop.
LaunchesLoop(p) ==
    /\ MainMoves(p, "start", "started")
    /\ AllStarted(p)
    /\ loop' = [loop EXCEPT ![p] = "select"]
    /\ UNCHANGED <<file, client, args, cfg, part, errors, done, interrupt, err,
                   code, name, wanted>>

\* signal.Notify: only from here on a SIGINT does not end the process at once.
CatchesInterrupts(p) ==
    /\ MainMoves(p, "started", "wait")
    /\ UNCHANGED <<file, client, args, cfg, part, loop, errors, done, interrupt,
                   err, code, name, wanted>>

TakesInterrupt(p) ==
    /\ MainMoves(p, "wait", "stop")
    /\ interrupt[p]
    /\ UNCHANGED <<file, client, args, cfg, part, loop, errors, done, interrupt,
                   err, code, name, wanted>>

\* The error of the loop is assigned to a variable of its own.
BugTakesError(p) ==
    /\ MainMoves(p, "wait", "stop")
    /\ errors[p]
    /\ errors' = [errors EXCEPT ![p] = FALSE]
    /\ UNCHANGED <<file, client, args, cfg, part, loop, done, interrupt, err, code,
                   name, wanted>>

TakesError(p) ==
    /\ MainMoves(p, "wait", "stop")
    /\ errors[p]
    /\ errors' = [errors EXCEPT ![p] = FALSE]
    /\ err' = [err EXCEPT ![p] = TRUE]
    /\ UNCHANGED <<file, client, args, cfg, part, loop, done, interrupt, code, name,
                   wanted>>

\* The deferred Stop closes done and waits for the loop.
Stop(p) ==
    /\ MainMoves(p, "stop", "stopping")
    /\ done' = [done EXCEPT ![p] = TRUE]
    /\ UNCHANGED <<file, client, args, cfg, part, loop, errors, interrupt, err,
                   code, name, wanted>>

Returns(p) ==
    /\ main[p] = "stopping" /\ loop[p] = "closed"
    /\ Exit(p, IF err[p] THEN "error" ELSE "ok")
    /\ UNCHANGED wanted

-----------------------------------------------------------------------------
\* The main loop.

LoopMoves(p, from, to) ==
    /\ loop[p] = from
    /\ loop' = [loop EXCEPT ![p] = to]
    /\ UNCHANGED <<file, main, args, cfg, part, done, interrupt, err, code, name,
                   wanted>>

HandlesEvent(p) == LoopMoves(p, "select", "busy") /\ UNCHANGED <<client, errors>>

\* A handler may have taken the client's "logging in", with which it goes on to its
\* request (client.go:119), or may have stopped it.
HandlerReturns(p) ==
    /\ LoopMoves(p, "busy", "select")
    /\ \E b \in BOOLEAN : client' = [client EXCEPT ![p] = b]
    /\ UNCHANGED errors

\* The next result waits for the loop.
RequestEnds(p) ==
    /\ client[p]
    /\ client' = [client EXCEPT ![p] = FALSE]
    /\ UNCHANGED <<file, main, args, cfg, part, loop, errors, done, interrupt, err,
                   code, name, wanted>>

\* The errors channel has no room: the loop hangs if run is not there to receive.
BugLoopFails(p) ==
    /\ \E x \in Parts : part[p][x] = "gone"
    /\ \/ main[p] = "wait" /\ LoopMoves(p, "select", "stops")
       \/ main[p] # "wait" /\ LoopMoves(p, "select", "sending")
    /\ errors' = [errors EXCEPT ![p] = TRUE]
    /\ UNCHANGED client

\* The channel of a part is closed: the loop returns and leaves the client as it is.
LoopFails(p) ==
    /\ \E x \in Parts : part[p][x] = "gone"
    /\ LoopMoves(p, "select", "stops")
    /\ errors' = [errors EXCEPT ![p] = TRUE]
    /\ UNCHANGED client

\* The done case, which logs out first.
LoopDone(p) ==
    /\ done[p]
    /\ LoopMoves(p, "select", "logout")
    /\ UNCHANGED <<client, errors>>

LogoutReturns(p) ==
    /\ LoopMoves(p, "logout", "stops")
    /\ client' = [client EXCEPT ![p] = FALSE]
    /\ UNCHANGED errors

\* The parts are stopped in the order of their start.
BugStopsPart(p) ==
    /\ loop[p] = "stops"
    /\ \E i \in 1..Len(Order) :
          /\ part[p][Order[i]] # "stopped"
          /\ \A j \in 1..i-1 : part[p][Order[j]] = "stopped"
          /\ part' = [part EXCEPT ![p][Order[i]] = "stopped"]
          /\ name' = IF Order[i] = DBus THEN NoProcess ELSE name
    /\ UNCHANGED <<file, client, main, args, cfg, loop, errors, done, interrupt,
                   err, code, wanted>>

\* The deferred Stop of the part that started last of those that are not stopped.
\* With its connection the D-Bus service gives its name away.
StopsPart(p) ==
    /\ loop[p] = "stops"
    /\ \E i \in 1..Len(Order) :
          /\ part[p][Order[i]] # "stopped"
          /\ \A j \in i+1..Len(Order) : part[p][Order[j]] = "stopped"
          /\ part' = [part EXCEPT ![p][Order[i]] = "stopped"]
          /\ name' = IF Order[i] = DBus THEN NoProcess ELSE name
    /\ UNCHANGED <<file, client, main, args, cfg, loop, errors, done, interrupt,
                   err, code, wanted>>

LoopCloses(p) ==
    /\ \A x \in Parts : part[p][x] = "stopped"
    /\ LoopMoves(p, "stops", "closed")
    /\ UNCHANGED <<client, errors>>

\* A part other than the D-Bus service, which never closes its requests, ends on
\* its own: what it watches is gone.
PartCloses(p) ==
    /\ \E x \in Parts \ {DBus} :
          /\ part[p][x] = "up"
          /\ part' = [part EXCEPT ![p][x] = "gone"]
    /\ UNCHANGED <<file, client, main, args, cfg, loop, errors, done, interrupt,
                   err, code, name, wanted>>

-----------------------------------------------------------------------------
\* systemd, users and faults.

\* SIGINT: before signal.Notify it ends the process.
Interrupt(p) ==
    \/ /\ main[p] \in {"config", "delay", "start", "started"}
       /\ Exit(p, "interrupted")
    \/ /\ main[p] \in {"wait", "stop", "stopping"}
       /\ interrupt' = [interrupt EXCEPT ![p] = TRUE]
       /\ UNCHANGED <<file, client, main, args, cfg, part, loop, errors, done, err,
                      code, name>>

LaunchByHand(p, a) ==
    /\ p # Unit
    /\ Launch(p, a)
    /\ UNCHANGED wanted

InterruptByHand(p) == Interrupt(p) /\ UNCHANGED wanted

SystemdStarts ==
    /\ wanted' = TRUE
    /\ Launch(Unit, UnitArgs)

SystemdStops ==
    /\ wanted
    /\ \/ Interrupt(Unit)
       \/ main[Unit] = "off" /\ UNCHANGED <<file, processVars, code, name>>
    /\ wanted' = FALSE

\* Restart=on-failure.
SystemdRestarts ==
    /\ wanted /\ code[Unit] = "error"
    /\ Launch(Unit, UnitArgs)
    /\ UNCHANGED wanted

\* A panic or a SIGKILL.
Crash(p) == main[p] # "off" /\ Exit(p, "error") /\ UNCHANGED wanted

ProcessStep(p) ==
    \/ GetConfig(p)
    \/ DelayEnds(p)
    \/ StartsPart(p)
    \/ StartFails(p)
    \/ LaunchesLoop(p)
    \/ CatchesInterrupts(p)
    \/ TakesInterrupt(p)
    \/ TakesError(p)
    \/ Stop(p)
    \/ Returns(p)
    \/ HandlesEvent(p)
    \/ HandlerReturns(p)
    \/ RequestEnds(p)
    \/ LoopFails(p)
    \/ LoopDone(p)
    \/ LogoutReturns(p)
    \/ StopsPart(p)
    \/ LoopCloses(p)
    \/ PartCloses(p)
    \/ Crash(p)

Next ==
    \/ \E p \in Processes : ProcessStep(p) \/ InterruptByHand(p)
    \/ \E p \in Processes, a \in CommandLines : LaunchByHand(p, a)
    \/ SystemdStarts
    \/ SystemdStops
    \/ SystemdRestarts

Spec == Init /\ [][Next]_vars

\* The goroutines run and systemd restarts its unit.  When Stop has closed the notifier
\* the handlers of the loop return, and the stops of the parts do: this is what Agent
\* (ProcessEnds), AgentBus (EndsWithoutDesktop), DBusService (AgentGetsOn) and the
\* monitors (EventSource) show.  The loop's select takes a case that is ready again
\* and again in the end.
Fairness(p) ==
    /\ WF_vars(GetConfig(p))
    /\ WF_vars(DelayEnds(p))
    /\ WF_vars(StartsPart(p) \/ StartFails(p))
    /\ WF_vars(LaunchesLoop(p))
    /\ WF_vars(CatchesInterrupts(p))
    /\ WF_vars(TakesInterrupt(p) \/ TakesError(p))
    /\ WF_vars(Stop(p))
    /\ WF_vars(Returns(p))
    /\ WF_vars(done[p] /\ HandlerReturns(p))
    /\ SF_vars(LoopFails(p))
    /\ SF_vars(LoopDone(p))
    /\ WF_vars(LogoutReturns(p))
    /\ WF_vars(StopsPart(p))
    /\ WF_vars(LoopCloses(p))

FairSpec ==
    /\ Spec
    /\ \A p \in Processes : Fairness(p)
    /\ WF_vars(SystemdRestarts)

-----------------------------------------------------------------------------
(* Properties *)

\* What a process watches or does beside having or asking for its name.
Works(p) ==
    \/ loop[p] \in {"select", "busy", "logout"}
    \/ \E x \in Parts \ {DBus} : part[p][x] \in {"up", "gone"}
    \/ client[p]

\* All that is left of a failed loop is the request of the client that it did not stop
\* (agent.go:385-424): the name is given away before the process ends.
Lingers(p) ==
    /\ errors[p] \/ err[p]
    /\ name # p
    /\ client[p]

\* However agents are started and stopped, two never work at the same time, where the
\* second would log the user in and out beside the first.  The name is taken before
\* and given back after everything else (agent.go:438, agent.go:376), also after the
\* logout.  The one exception is a loop that failed: a request that its client had
\* begun may reach the identity service beside those of the next agent.
OneAgent ==
    \A p, q \in Processes : Works(p) /\ Works(q) => p = q \/ Lingers(p) \/ Lingers(q)

\* An agent starts with a valid config only: what is on its command line counts,
\* then what is in its file, and what neither mentions has its default value.
ConfigInEffect ==
    \A p \in Processes : main[p] = "delay" =>
        /\ Valid(cfg[p])
        /\ \A s \in Settings \ {"HTTPSServers"} :
              cfg[p][s] = CASE s \in DOMAIN args[p].flags -> args[p].flags[s]
                            [] s \notin DOMAIN args[p].flags /\ args[p].useFile
                                 /\ s \in DOMAIN file.settings -> file.settings[s]
                            [] OTHER -> Default[s]

\* A SIGINT ends the process at whatever place it is, also when the loop fails or
\* is already being stopped because it did (agent.go:509).
InterruptEnds ==
    \A p \in Processes : interrupt[p] ~> main[p] = "off"

\* systemd starts the agent again after its loop failed, unless somebody stops it
\* in between.
FailureRestarts ==
    errors[Unit] /\ wanted ~>
        main[Unit] = "config" \/ interrupt[Unit] \/ code[Unit] = "interrupted" \/ ~wanted

=============================================================================
