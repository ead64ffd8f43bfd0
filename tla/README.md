# Verification of fw-id-agent

fw-id-agent logs a user in at a firewall's identity service while the host is in
a trusted network. This directory holds TLA+ models of its concurrent parts, TLC
configurations that check them on small instances, and proofs for TLAPS of the
most important safety properties. Paths are relative to the repository.

## 1. The system

| Component | State | Operations | Interaction |
|---|---|---|---|
| Agent loop, `internal/agent/agent.go` | client and its results, last ccache and krb5.conf, TGT times, trust, login state, `loggedIn`, last keep-alive | `Start`, `Stop`; one handler per event: TND result, login result, ccache, krb5.conf, D-Bus request, sleep, done; `startClient`, `stopClient` | receives on unbuffered channels, one event at a time; waits in `Notify`, in `SetProperty` and in `client.Stop` |
| Agent command, `internal/agent/cmd.go`, `pkg/config` | config | `run`: config, delay, `Start`, wait for SIGINT or an error, `Stop`, exit code | closes the notifier, then `done`; waits for the loop; systemd reads the exit code |
| Identity client, `internal/client/client.go` | timer, keep-alive, ccache, krb5.conf (mutex) | login, logout, refresh, `Stop` | one goroutine per start; sends states to the loop, requests to the service |
| D-Bus service, `internal/dbusapi/service.go` | name, properties, requests, updates | `Start`, `SetProperty`, `ReLogin`, `Stop` | a goroutine that publishes; ReLogin calls in goroutines of the D-Bus library |
| Status client, `pkg/client/client.go` | status, `subscribed`, channels | `Query`, `Subscribe`, `ReLogin`, `Close` | signals over the bus into a channel of ten; updates to the program |
| Command line program, `internal/cli/cmd.go` | command | status, monitor, relogin | a user of the status client |
| File monitors, `internal/krbmon` | last ccache or config sent | `Start`, file events, `Stop` | fsnotify events in, updates out |
| Sleep monitor, `internal/agent/sleepmon.go` | - | `Start`, signal, `Stop` | system bus signals in a channel of ten, events out |
| Notifier, `internal/notify` | connection | `Notify`, `Close` | used by the loop, closed by the main goroutine |
| Status, mains, `tools` | data | parsing, printing | sequential |
| TND (another repository), identity service, Kerberos library, fsnotify, D-Bus, systemd | external | | |

What is hard here is not any one handler but their order: a client goroutine that
logs out for the old start while the new one logs in; a loop that waits for a
client that waits for the loop; results of a network probe that are older than a
sleep; a stop in the middle of a request; credentials and trust that come in any
order; a desktop that does not answer; a second agent beside one that is
stopping; subscribers and callers that outlive the agent. `PROJECT.json` lists
these hazards at their lines, with the properties that cover them and, where none
does, why.

What makes the parts correct:

- agent: never two clients; a client exactly when there is trust and there are
  credentials; the state that is shown is true, on the desktop and on the bus; no
  handler gets stuck; a stop leaves no login behind;
- process: never two agents at work, but for a request that the client of a failed
  loop is in; a SIGINT always ends it; a failure reaches systemd; the config is the
  one that the user asked for;
- client: it waits the right time, always gets to its next login and always stops;
- D-Bus service and command line: the bus shows what was set last, all calls
  return that do not wait for a loop that hangs, and what they return is what happened;
- status client: it sees every change, also over a restart, and closes;
- monitors: no contents of the file and no sleep are missed (a file event that the
  queue drops is made good by the next), and the monitors stop.

## 2. Modules

| Module | What it models |
|---|---|
| `IdentityClient` | `internal/client`, as functions over client objects, so that the agent can have several; on its own (`ClientSafe`, with fairness `ClientSpec`) with any legal owner; the durations of `pkg/config` with their width |
| `LoginStatus` | abstract: the order of trust and login state the agent shows |
| `Agent` (EXTENDS `IdentityClient`) | loop, main goroutine, ReLogin callers, network and TND; refines `LoginStatus` |
| `BusStatus` | abstract: what of that order a reader of the bus sees |
| `AgentBus` (EXTENDS `Agent`, INSTANCE `DBusService`) | the calls of the setters to desktop and service, one by one; refines `BusStatus` |
| `AgentConfig` | `pkg/config` and `getConfig` as operators |
| `AgentLifecycle` (EXTENDS `AgentConfig`) | processes from the command line to the exit code, with systemd, the name on the bus and the requests of the identity client |
| `EventSource` | abstract: what every monitor promises the loop |
| `KrbMonitor` | `ccachemon.go` and `confmon.go`, which differ only in the parser, and the queue of the watch of the folder, with the events of other files; refines `EventSource` |
| `SleepMonitor` | `sleepmon.go` with logind, which numbers its signals, and the connection; refines `EventSource` |
| `DBusService` | `internal/dbusapi`, with the agent as the only one that sets, answers and stops, and with crashes |
| `CommandLine` (EXTENDS `DBusService`) | `internal/cli` with the calls of `pkg/client` that it makes, and a loop that may hang in a handler |
| `StatusClient` (EXTENDS `DBusService`) | `Subscribe` and `Close` of `pkg/client` with the signals of the service: the command `monitor` |
| `...Proofs` | theorems about the module of that name; `AgentProofs` also has those about `IdentityClient` |
| `MC...` | constants for TLC |

One action is one handler or one stretch of a goroutine between two points where
it can wait. The models look at the same loop at four distances:

- In `Agent` the only wait inside a handler that other parts can see is
  `client.Stop`; the rest of the handler (a restart and the answer to its caller
  included) is in `StopClientReturns`, which looks at `after` for who called.
- `AgentBus` keeps these steps and gives each handler an `outbox`: the
  notifications and `SetProperty` calls that its setters make, in their order. The
  loop is back in its select (`Ready`) when all of them have returned. Clients,
  callers and the main goroutine go on meanwhile. A notification returns when the
  desktop answers, which it need not, or when the notifier is closed.
- In `AgentLifecycle` the loop is busy and done again. What counts is the frame:
  `Start` part by part with an error at any of them, the errors channel, `done`,
  the deferred stops in the reverse order, and the name, which the D-Bus service
  takes first and gives back last. Of the client it keeps whether it is in a
  request (`client`), since a loop that fails leaves its client running.
- `CommandLine` sees of the loop that it sets properties, takes requests and
  answers them, and that it may wait in a handler in between, maybe for ever
  (`hangs`).

The composed parts rest on each other: `AgentLifecycle` assumes that stops return,
and handlers once `Stop` has closed the notifier, which `ProcessEnds`,
`EndsWithoutDesktop`, `AgentGetsOn` and `EventSource!StopEnds` show.

Names are those of the code. State that is not a field: `pc`, `apc`, `cpc`, `mpc`,
`spc`, `cli`, `main`, `loop` say where a goroutine is; `period` is what the timer
was set to; `session` is what the identity service believes; `shownTrusted` and
`shownLogin` are the last notifications; `want`, `changed`, `overtaken`, `owed`,
`received`, `lost`, `handled`, `left` record what happened, for the properties. A
client object whose goroutine has ended has its initial values again and stands
for the next `NewClient`; so does a process that is off.

`Bug...` operators are definitions with a plausible mistake. `PROJECT.json` names
for each property one that breaks it when it takes the place of the real one.

### What is abstracted

- A ccache is a value with the times of its TGT and whether the service accepts
  it; a krb5.conf is a value. Times are compared, not counted.
- Durations are whole seconds that wrap around at `MaxDuration` as 64 bits of
  nanoseconds do, so that a keep-alive may overflow to a negative or a shorter
  period. That time passes is only the order of events.
- A request reads its credentials at its start. What the service does with it
  happens before the call ends; a failed login may have been accepted. A session
  does not expire.
- Requests end because of their timeout if it is above 0; `net/http` takes 0 and
  negative ones for none, and then nothing is assumed.
- Timers are those of the Go version in `go.mod`: after `Stop` and `Reset` an old
  tick is gone.
- `Agent` and `AgentBus` begin when `Start` has returned. `MonitorFails` stands
  for any monitor there.
- In `AgentBus` the time of the last keep-alive is another one with each login
  (two within a second would be one property call less), and `Config`, which only
  `Start` sets, is left out of the properties.
- In `AgentConfig` a hash is one of a few values, of which one has capitals, and
  the TND settings that package `tnd` checks are one field, valid or not. Flags
  that do not parse are left out: they end the process as an invalid config does.
- In `AgentLifecycle` the handling of a SIGINT before `signal.Notify` is that of
  the Go runtime: the process ends at once. systemd's limit of restarts is left out.
- D-Bus: signals arrive in order; those that find the channel full are delivered
  by goroutines in any order; a signal may still be on the wire when a channel is
  registered (`Signals` keeps any suffix of them). A call to an agent that is not
  there or goes away ends with an error. This is the external library and bus,
  modelled from how `pkg/client` and `sleepmon.go` use them. A status client's
  connection that is lost between `AddMatchSignal` and `Signal` is left out
  (listed as a hazard).
- The program closes a status client when `Subscribe` has returned, as
  `internal/cli` does.

## 3. Runs

| Run | Question | Instance |
|---|---|---|
| `MCIdentityClient` | waits as long as it was asked to unless that overflows, always gets to the next login; Stop returns | one object used again and again, a good and a bad ccache, keep-alives -1, 0, 3 and two that overflow (9 to a negative, 18 to a shorter period) |
| `MCAgent` | one client, only with trust, started by whatever comes last, with current credentials; what is shown is true; notifications; clean exit; ReLogin; `LoginStatus` (safety) | two objects (symmetric), four ccaches (old, renewed, same times, no TGT of the realm), two krb5.confs, one ReLogin caller that calls again and again, any network |
| `MCAgentLive` | refinement of `LoginStatus` with liveness; the process ends; the network is followed | one object, one ccache, no callers |
| `MCAgentBus` | the bus shows what the agent has, no login that is not there, in the order of `BusStatus`; a SIGINT ends an agent whose desktop hangs | one object, one ccache, one caller, a host that leaves its trusted network only by going to sleep; keep-alive and retry timer are equal, which the properties do not look at |
| `MCKrbMonitor` | nothing missed but what the queue drops, and that until the next event; `EventSource` | three contents, an event queue of three that other files of the folder fill too |
| `MCSleepMonitor` | no event lost or stuck, `EventSource` | a channel of two, five signals of all three kinds |
| `MCAgentLifecycle` | one agent at work, but for a request of a failed one; the config in effect; SIGINT ends; failures restart | the unit and one process by hand, the service and two monitors, four config files, eight command lines |
| `MCCommandLine` | bus is current, unknown after stop, the agent gets on, commands end with the truth: `status` always, `relogin` if the loop always gets out of its waits | two properties, two values, one process that runs command after command, any number of starts and crashes |
| `MCStatusClient` | subscriber sees what changed, sees the stop, Close returns | two properties, one update, two starts (eight signals with the initial and the unknown values), a channel of one |

Bounds. Two objects are enough to see a second client: the loop holds one
reference, so a third would be closed before it could differ from the second.
One ReLogin caller at a time is handled by the loop; another is the same caller
again. Two processes compete for a name as many do, and a service with two other
parts has a first, a middle and a last one to start, to fail and to stop. A
channel of one or two and a queue of three overflow early, which is the
interesting case. `MaxSets`, `MaxStarts` and `MaxSignals` bound the environment,
`MaxEvents` and `Capacity` are the sizes of real queues, never of the code's own
steps. `MCStatusClient*` and `MCSleepMonitor` do not check deadlock, since the
bounds end the behaviour. In all others every state has a successor. The type
invariants are theorems and are not run again.

Fairness. Goroutines run (weak fairness of their steps). A case of a `select` that
is ready again and again is taken in the end (strong fairness; Go picks at random
among the ready ones). Timers fire; requests with a timeout end. The loop is not
assumed to get updates or sleep events, the service is not assumed to accept a
login (only `TrustedLogsIn` assumes that it does not refuse for ever), the desktop
is not assumed to answer, nobody is assumed to take an update of a status client
(only `SeesStop` assumes it), and a monitor's consumer takes updates only until it
stops the monitor. Nothing is assumed of crashes; systemd does its restarts.

What the loop does is assumed no more than the code allows. A handler may wait for
the desktop, and with timeouts of 0 for the service, without end. In `CommandLine`
every wait of the loop may be for ever, and `CommandsEnd` says for which commands
that matters. In `AgentLifecycle` handlers are assumed to return only when `Stop`
has closed the notifier (`EndsWithoutDesktop` is where that is shown; requests are
taken to have a timeout). `MCAgentLive` has notifications disabled (`agent.go:72`),
so that its liveness is that of an agent that no desktop holds up. The exceptions
for timeouts of 0 are in the fairness of `IdentityClient`.

### Findings

Three runs show a disagreement of code and documentation:

- `MCIdentityClientUnparsed`: a 200 response that does not parse counts as a login
  ("assume login successful"), but is followed by the retry timer of a failed one.
- `MCStatusClientGap`: `Subscribe` queries before it registers for signals, so
  a change in between is lost until the property changes again. `SeesWhatChanged`
  is what holds.
- `MCStatusClientClose`: after a `Subscribe` that failed, `Close` never returns;
  `fw-id-cli monitor` without an agent hangs in its deferred `Close`. `CloseReturns`
  is what holds.

Not findings, since nothing in the repository says otherwise, but choices worth
knowing:

- `Stop` closes the notifier before the loop has logged out, so the logout of a
  shutdown is not shown. It is what lets the agent end when the desktop does not
  answer (`EndsWithoutDesktop` fails if the notifier stays open until after the loop).
- A loop that fails (`agent.go:385-424`) does not stop its client, and its deferred
  stops give the name away (`agent.go:376`) before the process ends. A request that
  the client had begun may so reach the identity service beside those of the next
  agent (`Lingers` in `OneAgent`; without that exception the run fails). It is one
  request at most: its result is taken by nobody.
- `fw-id-cli relogin` has no timeout (`client.go:281`, `service.go:121`) and hangs as
  long as the loop does, for example in a notification that the desktop does not
  answer (`CommandsEnd` fails without its condition on the loop).

## 4. Proofs

The theorems hold for any sets of client objects, ccaches, confs, callers,
processes, parts, properties and values, and any width of durations, under the
named assumptions of the modules: nil and unknown values differ from the others,
durations and sizes are naturals, the TGT of each ccache is given, and `Order` lists
every property or part (a part once). `StatusClient`, `CommandLine` and `AgentBus`
are proved to take only steps of the modules they are built on
(`SubscribedServiceGoesOn`, `ServiceGoesOn`, `BusRunsAgent`), so that what is proved
of those holds in them.

| Module | What is proved | Along which argument |
|---|---|---|
| `AgentProofs`, client | types, `TimerPending`, `WaitFitsOutcome` of a client with any owner | `TimerPending` is inductive with the types; `WaitFitsOutcome` from `WaitInv` (the period is the wrapped one of the outcome) and `WrapFits` (what fits is not wrapped) |
| `AgentProofs`, agent | `Spec => []IInv`, and from it the safety properties of `MCAgent`, `ReLoginRestarts` and the refinement of `LoginStatus`; `AgentIsLegalOwner`, which makes the agent an owner as `IdentityClient` has it, and with it `TimerPending` and `WaitFitsOutcome` of its clients | see below |
| `AgentBusProofs` | `BusIsCurrent`, `LoginShownIsTrue`, the refinement of `BusStatus` | see below |
| `KrbMonitorProofs` | types, `NothingMissed`, `ConsumerHasLast`, `NoRepeat`, safe part of `EventSource` | `WatchInv`: the folder is watched from the first read on, and with no event of the file queued and none lost since the last read, what was sent last is the file; `ConsumerInv`: the monitor's `last` is what the consumer has or is being offered |
| `SleepMonitorProofs` | `NoneLost`, safe part of `EventSource` | `OnceOnTheWay`: a signal is at one place only, so taking it there takes it from all; `InOrder`: as long as none was overtaken the numbers in the channel rise |
| `DBusServiceProofs` | `PublishedCurrent`, `UnknownAfterStop` | `ServiceInv`: agent and goroutine agree on where they are (`OwnerInv`), and the loops of `Start` and `Stop` have set the properties before the next one (`SetInv`) |
| `CommandLineProofs` | `ExitTellsTruth`, and `PublishedCurrent` for commands | a step of a process is a step of a caller or none of the service; `RequestInv`, `CallInv` and `TruthInv` say what a waiting process will learn |
| `StatusClientProofs` | types, `SeesWhatChanged` | `CurrentInv`: of a property that changed, the last signal in the channel has the published value, or there is none and the client has it (`Current`), but for the properties that a starting service has exported and not set yet; `ChannelInv`: whose signals are in the channel, and what the program saw |
| `AgentLifecycleProofs` | `OneAgent`, `ConfigInEffect` | `NameInv`: the service is up exactly while the process has the name, whenever anything else is up, it is, and a client is in a request only beside the loop or after one that failed; `ConfigInv` with `CombinedPrecedence`, which says what file over default and flags over both are |

`AgentProofs` has one lemma per conjunct of `IInv` and one step per action. None
of the properties is inductive alone:

- `OneLiveClient` needs to know that a loop in `select` has a client that is alive
  and was not told to stop, and that a waiting loop has told all that are alive
  (`StopInv`); otherwise `startClient` might find `client` nil and one alive.
- `ClientOnlyWhenTrusted` needs to know why the loop waits: a wait without trust
  goes back to `select`, a restart keeps the trust it checked (`TrustInv`).
- `LoggedInMeansSession` needs to know which login state was sent at which place
  of the client (`StateInv`), and `OneLiveClient`, since another client's logout
  would end the session.

`CredentialsCurrent` and `NotificationsCurrent` are proved by their own steps on
top of `IInv`. `ReLoginRestarts` is an action property from `IInv`. The refinement
`ImplementsStatus` maps each step to a step of `LoginStatus` or a stutter.

`AgentBusProofs` first shows `BusRunsAgent`, so that `IInv` holds in the composition,
and then four invariants, each by the kind of step (`BusStepKinds`):

- `PlaceInv`: where loop and service are together, and that the loop makes its calls
  only when its handler is done.
- `PassInv`: what differs between the agent's state and the bus, after the updates
  that are on their way, is in the `outbox`; trust comes before the login state.
  With an empty `outbox` this is `BusIsCurrent`.
- `TrueInv`: a login that the bus shows, or will with the update that was taken, has
  a session; and a client logs out only after its handler made all its calls.
- `ViewInv`: from what the bus shows over what is on its way to what the agent has is
  a chain of moves that `BusStatus` allows. It is what the refinement needs: each
  update that is published is the first move of the chain.

Every safety invariant and every action property of the runs that pass is proved.
Only model-checked is liveness, since the prover does not handle ENABLED: the live
parts of `LoginStatus` (`StatusSpec`) and `EventSource` (`ImplementsSource`), and the
properties with `~>` or `<>`. The three findings are counterexamples of TLC.

## 5. Not modelled

- `cmd/fw-id-agent` only calls `Run`; `tools/dbusclient` is a developer's tool.
- Formats: the parsers and file names of `internal/krbmon`, JSON, `Copy` and
  `String` of status and config, what the command line program prints, logging.
- `Ping` of the status client, which nothing in the repository calls, and
  properties that a signal invalidates, which the service never sends.
- The ids by which the notifier replaces a notification.
- The package scripts, and systemd's limit of restarts.
- TND is another repository: its results are modelled, its probes are not.

What could come next: `AgentBus` with a subscriber, so that the refinement of
`BusStatus` goes down to what a program sees; `ConfigInEffect` for the TND servers.
